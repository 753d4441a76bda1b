------------------------------ MODULE Witness ------------------------------
(***************************************************************************)
(* What a board owes its owner: the board predicates of src/board.ts and   *)
(* the judgement over them (judge, src/notices.ts) that keeps no state     *)
(* silent.  Tasks are proposed, dispatched, submitted, reviewed, stopped   *)
(* and repaired while members work, park and stop; time makes a stop       *)
(* overdue, ends a back-off and ripens a review need.  A commit and a      *)
(* pass end are published: the board is judged and the facts the ledger    *)
(* does not hold are told.                                                 *)
(*                                                                         *)
(* A need's identity is the submission's epoch; a fact is its family, its  *)
(* subjects and its reason, which is what it is told once under.           *)
(***************************************************************************)
EXTENDS TaskGraph

CONSTANTS
    Members, None,
    Plans,         \* the sets of what may be proposed, each once
    MaxRows,       \* mission.budget.maxTasks
    MaxEpoch,      \* bound on the attempts of a task
    MaxFaults      \* bound on stops, failures, parkings, cancellations

WitnessBounds ==
    /\ None \notin Members /\ MaxRows \in Nat \ {0} /\ {MaxEpoch, MaxFaults} \subseteq Nat
    /\ \A p \in UNION Plans : p.deps \cup p.replaces \cup {p.of} \subseteq 0..MaxRows
    /\ \A p \in UNION Plans : p.kind # "integration"

VARIABLES
    plan,     \* what this mission's owner may propose; it never changes
    rows,     \* task rows
    member,   \* phase and whether its handle holds a turn
    pass,     \* the mission's scheduling body
    due,      \* the publication a commit or a body's close queued
    judged,   \* history: the board is as its last judgement found it
    facts,    \* the deliveries ledger: facts told to the owner
    faults

vars == <<plan, rows, member, pass, due, judged, facts, faults>>

Rows == DOMAIN rows
Row(p, auto) ==
    [kind |-> p.kind, of |-> p.of, deps |-> p.deps, replaces |-> p.replaces, covers |-> {},
     assignee |-> p.assignee, preferred |-> p.preferred, auto |-> auto,
     status |-> "pending", epoch |-> 0, holder |-> None, prior |-> {}, stop |-> "none",
     stopper |-> None, backoff |-> FALSE, need |-> "none"]

Init ==
    /\ plan \in Plans
    /\ rows = <<>> /\ member = [m \in Members |-> [phase |-> "active", busy |-> FALSE]]
    /\ pass = "none" /\ due = "none" /\ judged = TRUE /\ facts = {} /\ faults = MaxFaults

-----------------------------------------------------------------------------
(* Who may take a task.                                                    *)

Live == {m \in Members : member[m].phase # "stopped"}
Quiescing(t) == rows[t].status = "blocked" /\ rows[t].stop # "none"
Authors(t) == (rows[t].prior \cup {rows[t].holder, rows[t].assignee}) \ {None}
CanOwnReview(s, m) == s = 0 \/ m \notin Authors(s)
CanBorrow(t) ==
    rows[t].preferred /\ rows[t].status = "pending" /\ rows[t].prior = {} /\ rows[t].stop = "none"
Stranded(t, m) ==
    \E r \in Rows : rows[r].of = t /\ rows[r].assignee = m /\ ~CanBorrow(r) /\ rows[r].status \in Waiting
AssignmentAllows(t, m) ==
    rows[t].assignee = m \/ ((rows[t].assignee = None \/ CanBorrow(t)) /\ ~Stranded(t, m))
TakesWork(m) == member[m].phase # "stopped" /\ \A t \in Rows : rows[t].stop = "none" \/ rows[t].stopper # m
Capable(t, m) ==
    /\ \A d \in rows[t].deps : EffectiveStatus(rows, d) = "accepted"
    /\ LET s == rows[t].of IN IF s = 0 THEN TRUE ELSE rows[s].status = "submitted" /\ CanOwnReview(s, m)

\* A parked member's handle is never asked: the assignment unparks it.
StartBlocked(m) == member[m].phase # "parked" /\ member[m].busy
HoldsAttempt(m) == \E t \in Rows : rows[t].status = "running" /\ rows[t].holder = m

\* Borrowed work waits for its preferred member while that one could take it.
PreferredTakes(t) ==
    LET m == rows[t].assignee IN TakesWork(m) /\ Capable(t, m) /\ ~HoldsAttempt(m) /\ ~StartBlocked(m)
Ready(t, m) ==
    /\ rows[t].status = "pending" /\ ~rows[t].backoff
    /\ AssignmentAllows(t, m) /\ Capable(t, m)
    /\ IF rows[t].assignee \in {m, None} THEN TRUE ELSE ~PreferredTakes(t)
Eligible(t, m) == TakesWork(m) /\ Ready(t, m)

Unoccupied == {m \in Live : member[m].phase = "parked" \/ ~HoldsAttempt(m)}
Dispatchable == {t \in Rows : \E m \in Unoccupied : Eligible(t, m)}

-----------------------------------------------------------------------------
(* Which work can still move.                                              *)

LiveReviewOf(s) ==
    {r \in Rows : rows[r].of = s /\ (rows[r].status \in {"pending", "running"} \/ Quiescing(r))
                  /\ \E m \in Live : CanOwnReview(s, m) /\ AssignmentAllows(r, m)}
Unreviewable == {s \in Rows : rows[s].status = "submitted" /\ LiveReviewOf(s) = {}}

\* Dead work, and the pending work that waits on it or that nobody may take.
DeadWork ==
    LET takers(t) == {m \in Live : AssignmentAllows(t, m)}
        stuck(D) == {t \in Rows : rows[t].status = "pending" /\
            \/ \E d \in rows[t].deps : LET e == Effective(rows, d) IN e \in D \/ rows[e].status = "cancelled"
            \/ takers(t) = {}
            \/ rows[t].of # 0 /\ \/ rows[rows[t].of].status \in Terminal \/ rows[t].of \in D
                                 \/ \A m \in takers(t) : ~CanOwnReview(rows[t].of, m)}
        dead[i \in 0..Len(rows)] ==
            IF i = 0 THEN {t \in Rows : rows[t].status = "blocked" /\ rows[t].stop = "none"}
            ELSE LET D == dead[i - 1] IN D \cup stuck(D)
    IN  dead[Len(rows)]

PathStalled ==
    /\ \A t \in Rows : rows[t].status # "running" /\ ~Quiescing(t)
    /\ \A t \in Rows, m \in Live : ~Ready(t, m)

(* Why the host cannot give a submission a review now.                     *)
Blocker(s, stalled) ==
    CASE Len(rows) >= MaxRows -> "budget"
      [] Len(rows) < MaxRows /\ ~(\E m \in Live : CanOwnReview(s, m)) -> "members"
      [] OTHER -> IF \E r \in Rows : rows[r].auto = <<s, rows[s].epoch>> THEN "automatic"
                  ELSE IF stalled THEN "none" ELSE "board-running"

Unfinished == {t \in Rows : rows[t].status \notin Terminal}
\* completionError: unfinished work, nothing delivered, or no one delivery.
Refusal ==
    {<<t, rows[t].status>> : t \in Unfinished}
      \cup (IF Unfinished = {} /\ Cardinality(Accepted(rows, "implementation")) # 1 THEN {<<0, "undelivered">>} ELSE {})

(* The interpretation of a board, which its judges share: the submissions  *)
(* no live review can accept and those of them the review admission may    *)
(* still serve, the work a live replacement covers, and the blocked work   *)
(* that waits on its owner.                                                *)
View(stalled, unreviewed, covered) ==
    [stalled |-> stalled, unreviewed |-> unreviewed, covered |-> covered,
     awaited |-> {s \in unreviewed : rows[s].need = "fresh" \/ Blocker(s, stalled) = "none"},
     roots |-> {t \in Rows \ covered :
                    rows[t].status = "blocked" /\ rows[t].of = 0 /\ rows[t].stop # "bounded"},
     waitsFor |-> [t \in Rows |-> {Effective(rows, d) : d \in rows[t].deps} \cap Unfinished],
     dispatchable |-> Dispatchable, dead |-> DeadWork, refusal |-> Refusal]
Interpret ==
    View(PathStalled, Unreviewable, UNION {ReplacedLineage(rows, t) \ {t} : t \in Unfinished})

(* Whether a task waits on something alive (waitsLegitimately).            *)
PendingWaits(v, t) ==
    LET s == rows[t].of
        m == rows[t].assignee
        stops == {u \in Rows : rows[u].stop # "none" /\ (u = t \/ (m # None /\ rows[u].stopper = m))}
    IN  IF s # 0 THEN rows[s].status \notin Terminal /\ LiveReviewOf(s) # {}
        ELSE \/ v.waitsFor[t] # {}
             \/ /\ DependenciesMet(rows, rows[t].deps)
                /\ \/ rows[t].backoff
                   \/ IF stops # {} THEN \A u \in stops : rows[u].stop = "bounded"
                      ELSE m # None /\ HoldsAttempt(m)
Waits(v, t) ==
    /\ t \in Unfinished
    /\ \/ t \in v.covered
       \/ rows[t].status = "running"
       \/ rows[t].status = "submitted" /\ (t \notin v.unreviewed \/ t \in v.awaited)
       \/ rows[t].status = "blocked" /\
            \/ rows[t].of # 0 /\ rows[t].of \in v.covered \cup v.roots
            \/ IF rows[t].stop # "none" THEN rows[t].stop = "bounded" ELSE v.waitsFor[t] # {}
       \/ rows[t].status = "pending" /\ PendingWaits(v, t)

-----------------------------------------------------------------------------
(* The facts.                                                              *)

At(t) == <<t, rows[t].epoch>>
Fact(family, S, why) == [family |-> family, subjects |-> {At(t) : t \in S}, why |-> why]
ReviewFact(s, blocker) == Fact("review-blocked", {s}, {<<s, blocker>>})
QuestionFact(t) == Fact("dispatch-question", {t}, {})

BoardFact(v) ==
    IF v.refusal = {} THEN {Fact("coverage-complete", Rows, {})}
    ELSE IF ~v.stalled \/ v.awaited # {} THEN {}
    ELSE {Fact("board-stall", IF v.dead # {} THEN v.dead ELSE Unfinished, v.refusal)}

Askable(v, wedged) ==
    IF wedged THEN {t \in Rows : rows[t].status = "pending" /\ \E m \in Live : Eligible(t, m)}
    ELSE v.dispatchable
Questions(askable, wedged) ==
    LET open == {t \in askable : QuestionFact(t) \notin facts}
    IN  IF open = {} \/ (~wedged /\ \A m \in Unoccupied : StartBlocked(m)) THEN {}
        ELSE {QuestionFact(Oldest(open))}
Unnamed(v, askable) ==
    LET dead == {t \in Unfinished : t \notin v.roots \cup askable /\ ~Waits(v, t)}
    IN  IF v.stalled \/ dead = {} THEN {} ELSE {Fact("fallthrough", dead, {})}

(* What a judged board owes its owner.                                     *)
\* Mutant: a task blocked by its own failure is the stall's to name.
OwedWithoutRoots(v, askable, wedged) ==
    BoardFact(v) \cup Questions(askable, wedged) \cup Unnamed(v, askable)
Owed(v, askable, wedged) ==
    LET refused == {s \in v.unreviewed : wedged /\ rows[s].need = "recorded" /\ Blocker(s, v.stalled) # "none"}
    IN  {Fact("stall-root", {t}, {}) : t \in v.roots}
          \cup {ReviewFact(s, Blocker(s, v.stalled)) : s \in refused}
          \cup BoardFact(v) \cup Questions(askable, wedged) \cup Unnamed(v, askable)
Judge(v, wedged) == IF rows = <<>> THEN {} ELSE Owed(v, Askable(v, wedged), wedged)

(* The tasks a fact still asserts its claim of (Notices.outstanding).      *)
Outstanding(v, f) ==
    LET now == {t \in Unfinished : At(t) \in f.subjects}
    IN  CASE f.family = "stall-root" -> now \cap v.roots
          [] f.family = "review-blocked" -> {s \in now \cap v.unreviewed : f = ReviewFact(s, Blocker(s, v.stalled))}
          [] f.family = "parked" -> {t \in now : rows[t].holder # None /\ member[rows[t].holder].phase = "parked"}
          [] f.family = "dispatch-question" -> {t \in now : rows[t].status = "pending"}
          [] f.family = "fallthrough" ->
                IF Cardinality({t \in now : ~Waits(v, t)}) = Cardinality(f.subjects) THEN now ELSE {}
          [] OTHER -> IF f \in BoardFact(v) THEN now ELSE {}
Named(v) == UNION {Outstanding(v, f) : f \in facts}

-----------------------------------------------------------------------------
(* What changes a board: every commit queues a publication.                *)

Commits == due' = (IF due = "close" THEN due ELSE "commit") /\ judged' = FALSE
Fault == faults > 0 /\ faults' = faults - 1
Put(t, row) == rows' = [rows EXCEPT ![t] = row]

Propose(p) ==
    /\ \A t \in Rows : <<rows[t].of, rows[t].deps, rows[t].replaces, rows[t].preferred>> # <<p.of, p.deps, p.replaces, p.preferred>>
    /\ Len(rows) < MaxRows /\ p.deps \cup p.replaces \cup ({p.of} \ {0}) \subseteq Rows
    /\ \A d \in p.deps : EffectiveStatus(rows, d) \notin Closed
    /\ \A t \in p.replaces : /\ rows[t].status \in Closed /\ rows[t].stop = "none"
                             /\ LiveReplacement(rows, t) = 0 /\ rows[t].kind = p.kind
    /\ p.of # 0 => /\ rows[p.of].status \in Waiting /\ rows[p.of].of = 0
                   /\ p.assignee = None \/ CanOwnReview(p.of, p.assignee)
                   /\ \A r \in Rows : rows[r].of # p.of \/ rows[r].status \in Terminal \cup {"blocked"}
    /\ p.assignee = None \/ p.assignee \in Live
    /\ rows' = Append(rows, Row(p, <<>>)) /\ Commits /\ UNCHANGED <<member, pass, facts, faults>>

\* The body dispatches what its predicates admit.
Dispatch(t, m) ==
    /\ pass = "live" /\ Eligible(t, m) /\ ~StartBlocked(m) /\ ~HoldsAttempt(m)
    /\ Put(t, [rows[t] EXCEPT !.status = "running", !.holder = m, !.assignee = m])
    /\ member' = [member EXCEPT ![m] = [phase |-> "active", busy |-> TRUE]]
    /\ Commits /\ UNCHANGED <<pass, facts, faults>>

Submit(t) ==
    /\ rows[t].status = "running" /\ rows[t].of = 0 /\ DependenciesMet(rows, rows[t].deps)
    /\ Put(t, [rows[t] EXCEPT !.status = "submitted", !.prior = @ \cup {rows[t].holder},
                              !.holder = None, !.need = "fresh"])
    /\ Commits /\ UNCHANGED <<member, pass, facts, faults>>

(* Closed work takes its open reviews with it, a running one fenced for    *)
(* its stop; a rejected source leaves its blocked reviews standing.        *)
Withdrawn(row) ==
    [row EXCEPT !.status = "cancelled", !.holder = None,
                !.prior = @ \cup ({row.holder} \ {None}),
                !.stop = IF row.status = "running" THEN "bounded" ELSE @,
                !.stopper = IF row.status = "running" THEN row.holder ELSE @]
RetireReviews(rs, S, keep) ==
    [t \in DOMAIN rs |->
        IF /\ rs[t].of \in S /\ t # keep
           /\ \/ rs[t].status \in {"pending", "running"}
              \/ rs[t].status = "blocked" /\ (rs[t].stop # "none" \/ rs[rs[t].of].status \in Terminal)
        THEN Withdrawn(rs[t]) ELSE rs[t]]

\* A verdict: an accepted repair retires the lineage it replaces.
Verdict(r, accept) ==
    LET s == rows[r].of
        status == IF accept THEN "accepted" ELSE "blocked"
        ended(row) == [row EXCEPT !.status = status, !.holder = None, !.prior = @ \cup ({row.holder} \ {None})]
        judgedRows == [rows EXCEPT ![r] = ended(@), ![s] = ended(@)]
        replaced == {t \in ReplacedLineage(rows, s) \ {s} :
                        accept /\ rows[t].status \in {"blocked", "pending"} /\ rows[t].stop = "none"}
        after == [t \in Rows |-> IF t \in replaced THEN Withdrawn(judgedRows[t]) ELSE judgedRows[t]]
    IN  /\ rows[r].status = "running" /\ s # 0 /\ rows[s].status = "submitted"
        /\ rows' = RetireReviews(after, replaced \cup {s}, r)
        /\ IF accept THEN UNCHANGED faults ELSE Fault
        /\ Commits /\ UNCHANGED <<member, pass, facts>>

\* A handoff, a close-out or an expired lease fences the attempt: the task
\* waits for its handle's stop; a ceiling or a spent recovery only blocks it.
Fence(t) ==
    /\ rows[t].status = "running" /\ rows[t].epoch < MaxEpoch /\ Fault
    /\ Put(t, [rows[t] EXCEPT !.status = "blocked", !.holder = None, !.prior = @ \cup {rows[t].holder},
                              !.epoch = @ + 1, !.stop = "bounded", !.stopper = rows[t].holder])
    /\ Commits /\ UNCHANGED <<member, pass, facts>>
StopSettles(t) ==
    /\ rows[t].stop # "none"
    /\ \E s \in IF rows[t].status = "blocked" THEN {"pending", "blocked"} ELSE {rows[t].status} :
        Put(t, [rows[t] EXCEPT !.stop = "none", !.stopper = None, !.status = s])
    /\ member' = [member EXCEPT ![rows[t].stopper].busy = FALSE]
    /\ Commits /\ UNCHANGED <<pass, facts, faults>>

PreparationFails(t) ==
    /\ pass = "live" /\ t \in Dispatchable /\ Fault
    /\ \/ Put(t, [rows[t] EXCEPT !.backoff = TRUE]) \/ Put(t, [rows[t] EXCEPT !.status = "blocked"])
    /\ Commits /\ UNCHANGED <<member, pass, facts>>

Cancel(t) ==
    /\ t \in Unfinished /\ Fault
    /\ rows' = RetireReviews([rows EXCEPT ![t] = Withdrawn(@)], {t}, t)
    /\ Commits /\ UNCHANGED <<member, pass, facts>>

Resume(t) ==
    /\ rows[t].status = "blocked" /\ rows[t].stop = "none" /\ rows[t].of = 0 /\ LiveReplacement(rows, t) = 0
    /\ rows[t].epoch < MaxEpoch /\ rows[t].need = "none"
    /\ Put(t, [rows[t] EXCEPT !.status = "pending", !.epoch = @ + 1])
    /\ Commits /\ UNCHANGED <<member, pass, facts, faults>>

(* Members.  A member that parks with an open attempt is told of.          *)
Park(m) ==
    /\ member[m].phase = "active" /\ Fault
    /\ member' = [member EXCEPT ![m].phase = "parked", ![m].busy = FALSE]
    /\ facts' = facts \cup {Fact("parked", {t}, {}) : t \in {u \in Rows : rows[u].status = "running" /\ rows[u].holder = m}}
    /\ Commits /\ UNCHANGED <<rows, pass>>
Unpark(m) ==
    /\ member[m].phase = "parked" /\ member' = [member EXCEPT ![m] = [phase |-> "active", busy |-> TRUE]]
    /\ Commits /\ UNCHANGED <<rows, pass, facts, faults>>
StopMember(m) ==
    /\ m \in Live /\ ~HoldsAttempt(m) /\ Fault
    /\ member' = [member EXCEPT ![m] = [phase |-> "stopped", busy |-> FALSE]]
    /\ Commits /\ UNCHANGED <<rows, pass, facts>>
Turn(m) ==
    /\ member[m].phase = "active" /\ ~HoldsAttempt(m)
    /\ IF member[m].busy THEN UNCHANGED faults ELSE Fault
    /\ member' = [member EXCEPT ![m].busy = ~@] /\ judged' = FALSE
    /\ UNCHANGED <<rows, pass, due, facts>>

-----------------------------------------------------------------------------
(* Time.  It publishes nothing by itself.                                  *)

Ages(t, row) == Put(t, row) /\ judged' = FALSE /\ UNCHANGED <<member, pass, due, facts, faults>>
Overdue(t) == rows[t].stop = "bounded" /\ Ages(t, [rows[t] EXCEPT !.stop = "overdue"])
BackoffEnds(t) == rows[t].backoff /\ Ages(t, [rows[t] EXCEPT !.backoff = FALSE])
Ripen(t) == rows[t].need = "fresh" /\ Ages(t, [rows[t] EXCEPT !.need = "ripe"])

-----------------------------------------------------------------------------
(* The scheduling body and the publication.                                *)

\* A timer or a commit's own kick: a close is published before either.
OpenPass ==
    /\ pass = "none" /\ due # "close" /\ pass' = "live" /\ UNCHANGED <<rows, member, due, judged, facts, faults>>

\* The watchdog names a body past its bound.
Wedge ==
    /\ pass = "live" /\ Fault /\ pass' = "wedged" /\ Commits /\ UNCHANGED <<rows, member, facts>>

(* The review admission, part of every pass: each ripe need is recorded,   *)
(* then served by a review or its blocker told.                            *)
AdmitMissing(s) ==
    /\ pass = "live" /\ s \in Unreviewable /\ rows[s].need \in {"ripe", "recorded"}
    /\ LET blocker == Blocker(s, PathStalled)
           noted == [rows EXCEPT ![s].need = "recorded"]
       IN  IF blocker = "none"
           THEN /\ rows' = Append(noted, Row([kind |-> "verification", of |-> s, deps |-> {}, replaces |-> {},
                                  assignee |-> None, preferred |-> FALSE], <<s, rows[s].epoch>>))
                /\ UNCHANGED facts
           ELSE rows' = noted /\ facts' = facts \cup {ReviewFact(s, blocker)}
    /\ <<rows, facts>>' # <<rows, facts>>
    /\ Commits /\ UNCHANGED <<member, pass, faults>>

\* A body that can still admit or dispatch has not settled.
Settled(stalled) ==
    /\ \A s \in Unreviewable : rows[s].need \in {"none", "fresh"}
         \/ (rows[s].need = "recorded" /\ ReviewFact(s, Blocker(s, stalled)) \in facts)
    /\ \A t \in Rows, m \in Members : ~(Eligible(t, m) /\ ~StartBlocked(m) /\ ~HoldsAttempt(m))
ClosePass ==
    /\ pass # "none" /\ (pass = "live" => Settled(PathStalled)) /\ pass' = "none" /\ due' = "close"
    /\ UNCHANGED <<rows, member, judged, facts, faults>>

\* A live body's commits are left to the publication of its close.
Publish ==
    /\ due # "none" /\ due' = "none"
    /\ IF pass = "live" THEN UNCHANGED <<judged, facts>>
       ELSE judged' = TRUE /\ facts' = facts \cup Judge(Interpret, pass = "wedged")
    /\ UNCHANGED <<rows, member, pass, faults>>

Commit ==
    \/ \E p \in plan : Propose(p)
    \/ \E t \in Rows : \/ Submit(t) \/ Fence(t) \/ StopSettles(t) \/ PreparationFails(t)
                       \/ Cancel(t) \/ Resume(t) \/ \E a \in BOOLEAN : Verdict(t, a)
    \/ \E m \in Members : Park(m) \/ Unpark(m) \/ StopMember(m) \/ Turn(m)
Time == \E t \in Rows : Overdue(t) \/ BackoffEnds(t) \/ Ripen(t)
Body == (\E t \in Rows, m \in Members : Dispatch(t, m)) \/ (\E s \in Rows : AdmitMissing(s))
Next ==
    /\ Commit \/ Time \/ Body \/ OpenPass \/ Wedge \/ ClosePass \/ Publish
    /\ UNCHANGED plan

Spec == Init /\ [][Next]_vars

-----------------------------------------------------------------------------
(* Only a running row has a holder, a stop has the member it is awaited    *)
(* of, and only submitted work has a review need.                          *)
TypeOK ==
    \A t \in Rows : /\ (rows[t].status = "running") = (rows[t].holder # None)
                    /\ (rows[t].stop = "none") = (rows[t].stopper = None)
                    /\ rows[t].holder # None => rows[t].assignee = rows[t].holder
                    /\ rows[t].epoch <= MaxEpoch /\ rows[t].of # t

Missed(v) == {t \in Unfinished : ~Waits(v, t)} \ (Named(v) \cup v.dispatchable)

\* A board judged while no body acts on it.
Told == judged /\ due = "none" /\ pass = "none"

(* tests/instruments.mjs calls a missed obligation unfinished work with no *)
(* live path that no owner decision names.  Once a board was judged none   *)
(* is missed, but a submission the next review admission speaks for, and   *)
(* stuck work on a stalled board where one is still to come (judge).       *)
NothingMissed ==
    LET holds(v) == Missed(v) \subseteq v.unreviewed \/ (v.stalled /\ v.awaited # {})
    IN  Told => holds(Interpret)

(* What a waiting task waits on, followed to its end, is work that runs, a *)
(* bounded stop, a back-off, a submission the review admission speaks for, *)
(* work a member may take, or work a decision names: no task waits on      *)
(* silence (waitsLegitimately, stallRoots, replacementCoverage).           *)
Grounded(v) ==
    LET base == {t \in Unfinished :
            \/ rows[t].status = "running" \/ rows[t].stop = "bounded" \/ rows[t].backoff
            \/ t \in Named(v) \cup v.unreviewed
            \/ rows[t].status = "pending" /\ \E m \in Live : AssignmentAllows(t, m) /\ Capable(t, m)}
        on(t) == v.waitsFor[t] \cup LiveReviewOf(t) \cup ({rows[t].of} \ {0})
                    \cup {u \in Unfinished : rows[t].assignee # None /\ rows[u].stopper = rows[t].assignee}
                    \cup {r \in Unfinished : {t, rows[t].of} \cap (ReplacedLineage(rows, r) \ {r}) # {}}
        found[i \in 0..Len(rows)] ==
            IF i = 0 THEN base ELSE LET F == found[i - 1] IN F \cup {t \in Unfinished : on(t) \cap F # {}}
    IN  found[Len(rows)]
WaitsOnNoSilence ==
    LET holds(v) == Unfinished \subseteq Grounded(v) \/ (v.stalled /\ v.awaited # {})
    IN  Told => holds(Interpret)

(* The families stall-root and fallthrough claim that no live path will    *)
(* advance a subject (NO_LIVE_PATH_FAMILIES): none is a task a member may  *)
(* take once its own work ends.  It fails for work anyone may take that    *)
(* waits for busy members (README, Findings).                              *)
FallthroughTrue ==
    [][\A f \in facts' \ facts : f.family = "fallthrough" =>
        \A t \in Rows, m \in Live : At(t) \in f.subjects => ~Eligible(t, m)]_vars
=============================================================================
