--------------------------- MODULE PlanAdmission ---------------------------
(***************************************************************************)
(* What a plan is and how it becomes the tasks of a mission: validatePlan, *)
(* pairReviews and orderedTasks of src/plans.ts, the automatic plan, the   *)
(* repair of a staged mission and the proposals of a launch of             *)
(* src/runtime.ts, with the rules of src/admission.ts both sides apply.    *)
(*                                                                         *)
(* DraftLaunch has the calls, their waits and their races; here is one     *)
(* plan after the other, with its content, and an assembly that may be cut *)
(* off between any two of its commits.                                     *)
(*                                                                         *)
(* A plan is [tasks, limit]: a sequence of tasks and maxTasks.  An optional *)
(* field of a task is a set of at most one value: reviewOf, assignee,      *)
(* outputs (a set of files) and review, the override of the review the     *)
(* host adds (its assignee).  An added review has the key <<source, n>>.   *)
(* Titles, checks, ceilings, timeouts, priorities and experiments are left *)
(* out: both sides read them by the same rule.                             *)
(***************************************************************************)
EXTENDS Naturals, SequencesExt

CONSTANTS Inputs,     \* the plans the owner may save
          Criteria,   \* the mission's acceptance criteria
          Automatic,  \* a generated plan, under the rules of /agent-swarm
          MaxSaves,   \* bound: saves of the draft
          MaxFaults   \* bound: assemblies cut off

PlanBounds == {MaxSaves, MaxFaults} \subseteq Nat /\ Automatic \in BOOLEAN

VARIABLES draft,    \* [status, input]
          mission,  \* "none", "staged" or "active", and its maxTasks
          rows,     \* the task rows, by key
          todo,     \* the tasks of the launched plan still to propose
          refused,  \* the proposal of this assembly that was refused, if any
          saves, faults

vars == <<draft, mission, rows, todo, refused, saves, faults>>

---------------------------------------------------------------------------
(* Plans. *)

Deliverable(t) == t.kind # "verification"
Keys(ts) == {t.key : t \in ToSet(ts)}
TaskOf(ts, k) == CHOOSE t \in ToSet(ts) : t.key = k
Sources(ts) == {t \in ToSet(ts) : Deliverable(t)}
ReviewsOf(ts, k) == {t \in ToSet(ts) : ~Deliverable(t) /\ t.reviewOf = {k}}
Edges(t) == t.deps \o SetToSeq(t.reviewOf)

\* A planned source's only author is its assignee.
CanOwnReview(source, who) == source.assignee \cap who = {}

\* reviewOf already waits for submission: a review needs no dependency beside it.
ReviewDependencies(t) ==
    SelectSeq(t.deps, LAMBDA d : Deliverable(t) \/ d \notin t.reviewOf)

\* An objective that assumes prior work needs an edge that carries it.
AssumptionsMet(t) == t.assumes => Edges(t) # <<>>

OutputsFit(t) == \A files \in t.outputs : files \subseteq t.scope

\* Depth first along the edges, each task after what it waits for.
RECURSIVE Visit(_, _, _)
Visit(ts, walk, k) ==
    IF k \in walk.visiting THEN [walk EXCEPT !.cycle = TRUE]
    ELSE IF walk.cycle \/ k \in Keys(walk.order) THEN walk
    ELSE LET after == FoldLeft(LAMBDA w, e : Visit(ts, w, e),
                               [walk EXCEPT !.visiting = @ \cup {k}], Edges(TaskOf(ts, k)))
         IN  [after EXCEPT !.visiting = @ \ {k}, !.order = Append(@, TaskOf(ts, k))]

Walk(ts) == FoldLeft(LAMBDA w, t : Visit(ts, w, t.key),
                     [order |-> <<>>, visiting |-> {}, cycle |-> FALSE], ts)
OrderedTasks(ts) == Walk(ts).order

ReviewFits(ts, t) ==
    IF Deliverable(t) THEN t.reviewOf = {}
    ELSE \E s \in Sources(ts) : t.reviewOf = {s.key} /\ CanOwnReview(s, t.assignee)

OverrideFits(ts, t) ==
    \A who \in t.review :
        Deliverable(t) /\ CanOwnReview(t, who) /\ ReviewsOf(ts, t.key) = {}

\* The plan as it is kept: a review's covers move to its source.
Canonical(ts) ==
    [i \in DOMAIN ts |-> [ts[i] EXCEPT
        !.deps = ReviewDependencies(ts[i]),
        !.covers = IF Deliverable(ts[i])
                   THEN @ \cup UNION {r.covers : r \in ReviewsOf(ts, ts[i].key)} ELSE {}]]

\* validatePlan refuses a plan for any of these.
ValidPlan(p, launch) ==
    LET ts == p.tasks IN
    /\ Len(ts) \in 1 .. p.limit
    /\ Cardinality(Keys(ts)) = Len(ts)
    /\ \A t \in ToSet(ts) :
          /\ t.covers \subseteq Criteria
          /\ launch => t.outputs # {}
          /\ OutputsFit(t) /\ AssumptionsMet(t)
          /\ ToSet(ReviewDependencies(t)) \subseteq Keys(ts)
          /\ ReviewFits(ts, t) /\ OverrideFits(ts, t)
    /\ \A t \in Sources(Canonical(ts)) : t.covers # {} \/ t.acceptance
    /\ ~Walk(Canonical(ts)).cycle

ReviewKey(k, taken) ==
    <<k, CHOOSE n \in 1 .. Cardinality(taken) + 1 :
            <<k, n>> \notin taken /\ \A m \in 1 .. n - 1 : <<k, m>> \in taken>>

AddedReview(t, k) ==
    [key |-> k, kind |-> "verification", deps |-> <<>>, reviewOf |-> {t.key},
     assignee |-> UNION t.review, scope |-> t.scope, outputs |-> {{}}, covers |-> {},
     acceptance |-> FALSE, assumes |-> FALSE, review |-> {}]

\* pairReviews: a deliverable no verification task names gets one review, after it.
PairReviews(ts) ==
    LET pair(acc, t) ==
            LET k == ReviewKey(t.key, acc.taken)
                source == [t EXCEPT !.review = {}]
            IN  IF ~Deliverable(t) \/ ReviewsOf(ts, t.key) # {}
                THEN [acc EXCEPT !.tasks = Append(@, source)]
                ELSE [tasks |-> acc.tasks \o <<source, AddedReview(t, k)>>,
                      taken |-> acc.taken \cup {k}]
    IN  FoldLeft(pair, [tasks |-> <<>>, taken |-> Keys(ts)], ts).tasks

Prepared(p) == [p EXCEPT !.tasks = PairReviews(Canonical(@))]

\* What t waits for, through its dependencies.
Waits(ts, t) ==
    LET reach[i \in 0 .. Len(ts)] ==
            IF i = 0 THEN ToSet(t.deps)
            ELSE reach[i - 1] \cup UNION {ToSet(TaskOf(ts, k).deps) : k \in reach[i - 1]}
    IN  reach[Len(ts)]
OfKind(ts, kind) == {t \in ToSet(ts) : t.kind = kind}

\* automaticPlan: what a generated plan must have beside.
CompletePlan(ts) ==
    LET code == {t.key : t \in OfKind(ts, "implementation")}
        whole == \E t \in OfKind(ts, "integration") : code \subseteq Waits(ts, t)
    IN  /\ Sources(ts) # {}
        /\ \A t \in Sources(ts) : t.assignee # {}
        /\ UNION {t.covers : t \in Sources(ts)} = Criteria
        /\ Cardinality(code) > 1 => whole
        /\ Cardinality(code) = 1 /\ OfKind(ts, "integration") # {} => whole

Accepted(p, launch) ==
    /\ ValidPlan(p, launch)
    /\ Automatic => CompletePlan(Canonical(p.tasks))
    /\ Len(Prepared(p).tasks) <= p.limit

---------------------------------------------------------------------------
(* The rows of the mission. *)

Row(t) == [kind |-> t.kind, deps |-> ToSet(t.deps), reviewOf |-> t.reviewOf,
           assignee |-> t.assignee, scope |-> t.scope, outputs |-> UNION t.outputs,
           covers |-> t.covers, acceptance |-> t.acceptance, status |-> "pending"]

RowEdges(k) == IF rows[k].status = "pending" THEN rows[k].deps \cup rows[k].reviewOf ELSE {}

\* The rows a new task's edges lead to.
Reached(t) ==
    LET reach[i \in 0 .. Cardinality(DOMAIN rows)] ==
            IF i = 0 THEN ToSet(Edges(t))
            ELSE reach[i - 1] \cup UNION {RowEdges(k) : k \in reach[i - 1] \cap DOMAIN rows}
    IN  reach[Cardinality(DOMAIN rows)]

\* propose refuses a new task for any of these; Within is the ceiling.
Within == Cardinality(DOMAIN rows) < mission.limit
Admissible(t) ==
    /\ Deliverable(t) => t.covers # {} \/ t.acceptance
    /\ ~Deliverable(t) => t.covers = {}
    /\ t.outputs # {} /\ OutputsFit(t) /\ AssumptionsMet(t)
    /\ Reached(t) \subseteq DOMAIN rows
    /\ \A d \in ToSet(t.deps) : rows[d].status # "cancelled"
    /\ IF Deliverable(t) THEN t.reviewOf = {}
       ELSE \E k \in DOMAIN rows :
               /\ t.reviewOf = {k}
               /\ rows[k].kind # "verification" /\ rows[k].status # "cancelled"
               /\ CanOwnReview(rows[k], t.assignee)

Init ==
    /\ draft = [status |-> "none"]
    /\ mission = [status |-> "none", limit |-> 0]
    /\ rows = << >>
    /\ todo = <<>>
    /\ refused = {}
    /\ saves = 0
    /\ faults = 0

Editable == draft.status \in {"draft", "failed"}

\* validateDraftRepair, against the plan saved before.
Repairable(ts) ==
    \A k \in Keys(draft.input.tasks) \cap Keys(ts) \cap DOMAIN rows :
        /\ TaskOf(ts, k).kind = TaskOf(draft.input.tasks, k).kind
        /\ rows[k].status # "cancelled"

\* createDraft, and updateDraft while dispatch is closed.
SaveDraft ==
    /\ draft.status = "none" \/ Editable
    /\ saves < MaxSaves
    /\ \E p \in Inputs :
          /\ Accepted(p, Automatic)
          /\ mission.status = "staged" => Repairable(Prepared(p).tasks)
          /\ draft' = [status |-> IF draft.status = "none" THEN "draft" ELSE draft.status,
                       input |-> Prepared(p)]
    /\ refused' = {}
    /\ saves' = saves + 1
    /\ UNCHANGED <<mission, rows, todo, faults>>

\* repairDraftAdmissions rewrites the rows the plan still has and withdraws the others.
Repaired(ts) ==
    [k \in DOMAIN rows |->
        IF k \in Keys(ts)
        THEN [Row(TaskOf(ts, k)) EXCEPT !.kind = rows[k].kind, !.outputs = rows[k].outputs]
        ELSE [rows[k] EXCEPT !.status = "cancelled"]]

\* launchDraft validates what is saved once more, and creates or repairs the mission;
\* a withdrawn task the plan wants again fails the repair.
LaunchDraft ==
    /\ Editable
    /\ Accepted(draft.input, TRUE)
    /\ LET p == Prepared(draft.input)
           revived == {k \in Keys(p.tasks) \cap DOMAIN rows : rows[k].status = "cancelled"}
       IN  IF revived # {}
           THEN draft' = [status |-> "failed", input |-> p] /\ UNCHANGED <<mission, rows, todo>>
           ELSE /\ draft' = [status |-> "launching", input |-> p]
                /\ mission' = [status |-> "staged", limit |-> p.limit]
                /\ rows' = Repaired(p.tasks)
                /\ todo' = OrderedTasks(p.tasks)
    /\ refused' = {}
    /\ UNCHANGED <<saves, faults>>

\* One proposal; a task that has its row is the one admitted before.
Propose ==
    /\ draft.status = "launching"
    /\ todo # <<>>
    /\ LET t == Head(todo) IN
       IF t.key \in DOMAIN rows
       THEN todo' = Tail(todo) /\ UNCHANGED <<draft, rows, refused>>
       ELSE IF Within /\ Admissible(t)
       THEN /\ rows' = (t.key :> Row(t)) @@ rows
            /\ todo' = Tail(todo)
            /\ UNCHANGED <<draft, refused>>
       ELSE /\ refused' = {t}
            /\ draft' = [draft EXCEPT !.status = "failed"]
            /\ todo' = <<>>
            /\ UNCHANGED rows
    /\ UNCHANGED <<mission, saves, faults>>

Activate ==
    /\ draft.status = "launching"
    /\ todo = <<>>
    /\ draft' = [draft EXCEPT !.status = "launched"]
    /\ mission' = [mission EXCEPT !.status = "active"]
    /\ UNCHANGED <<rows, todo, refused, saves, faults>>

\* The host dies, or the call is cancelled: start() or the catch keeps what is there.
CutOff ==
    /\ draft.status = "launching"
    /\ faults < MaxFaults
    /\ faults' = faults + 1
    /\ draft' = [draft EXCEPT !.status = "failed"]
    /\ todo' = <<>>
    /\ UNCHANGED <<mission, rows, refused, saves>>

Next == SaveDraft \/ LaunchDraft \/ Propose \/ Activate \/ CutOff

Spec == Init /\ [][Next]_vars

---------------------------------------------------------------------------
(***************************************************************************)
(* Properties.                                                             *)
(***************************************************************************)

\* validateDraftRepair: an admitted task "must retain its kind; use a new plan key for
\* incompatible work".  It compares with the plan saved before, so a key that one save
\* leaves out and the next one brings back escapes it.
KindsRetained ==
    draft.status # "none" =>
        \A t \in ToSet(draft.input.tasks) : t.key \in DOMAIN rows => rows[t.key].kind = t.kind

\* validatePlan: "Fail before any workers or worktrees are created".  The two sets of
\* rules agree: of a plan that was let through, no proposal is refused halfway, in the
\* order orderedTasks gives, but for the room withdrawn tasks take under maxTasks.
NeverRefusedHalfway ==
    refused # {} /\ KindsRetained =>
        ~Within /\ \E k \in DOMAIN rows : rows[k].status = "cancelled"

\* pairReviews: a saved plan that is validated and paired again is itself, so a retry
\* compares equal to what it retries and adds no second review.
PreparedOnce ==
    draft.status # "none" => ValidPlan(draft.input, FALSE) /\ Prepared(draft.input) = draft.input

Live == {k \in DOMAIN rows : rows[k].status = "pending"}

\* The work of an active mission can be delivered: nothing waits for itself or for what
\* is withdrawn, no review waits for the acceptance it decides, and each deliverable has
\* a review its own assignee cannot be given.  Deliverables cover a generated plan's
\* criteria.
ActiveIsDeliverable ==
    mission.status = "active" /\ KindsRetained =>
        /\ Live = Keys(draft.input.tasks)
        /\ \A k \in Live : RowEdges(k) \subseteq Live /\ rows[k].deps \cap rows[k].reviewOf = {}
        /\ \A S \in (SUBSET Live) \ {{}} : \E k \in S : RowEdges(k) \cap S = {}
        /\ \A k \in Live : rows[k].kind # "verification" =>
              \E r \in Live : /\ rows[r].kind = "verification" /\ rows[r].reviewOf = {k}
                              /\ CanOwnReview(rows[k], rows[r].assignee)
        /\ Automatic => UNION {rows[k].covers : k \in Live} = Criteria

\* The comment of validatePlan: "`outputs` is the only record of the files a task
\* writes, so a launched task must carry it".  The rows of an active mission carry the
\* outputs of the plan that was launched.
OutputsAreThePlans ==
    mission.status = "active" =>
        \A t \in ToSet(draft.input.tasks) : rows[t.key].outputs = UNION t.outputs
=============================================================================
