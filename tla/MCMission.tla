----------------------------- MODULE MCMission ------------------------------
(***************************************************************************)
(* A mission for TLC, one part of it in each behaviour: the content of its *)
(* plan, of every shape, repaired after a launch that failed, or generated *)
(* (PlanAdmission), the life of the plan once it runs (Lineage), and the   *)
(* queue the mission's calls wait in (MissionQueue).                       *)
(***************************************************************************)
EXTENDS MissionQueue, Sequences, FiniteSets

CONSTANTS
    Missions,
    k1, k2, k3  \* task keys

VARIABLES
    part,  \* the part this behaviour is about
    mission, rows, content, amends, delivered,
    drafted, staged, admitted, todo, refused, saves, cuts

planVars == <<mission, rows, content, amends, delivered>>
admissionVars == <<drafted, staged, admitted, todo, refused, saves, cuts>>

L == INSTANCE Lineage

\* A task, and the forms it takes beside another.
Task(k) ==
    [key |-> k, kind |-> "implementation", deps |-> <<>>, reviewOf |-> {}, assignee |-> {},
     scope |-> {"f"}, outputs |-> {{}}, covers |-> {}, acceptance |-> TRUE,
     assumes |-> FALSE, review |-> {}]
ReviewTask(k, of) == [Task(k) EXCEPT !.kind = "verification", !.reviewOf = {of}]
Forms(k, other) ==
    {[f EXCEPT !.deps = d, !.assignee = w, !.covers = c, !.acceptance = own] :
        f \in {Task(k), ReviewTask(k, other)}, d \in {<<>>, <<other>>},
        w \in {{}, {"m"}}, c \in {{}, {1}}, own \in BOOLEAN}
Chosen(k, other) ==
    {[f EXCEPT !.assumes = s, !.review = o] :
        f \in Forms(k, other), s \in BOOLEAN, o \in {{}, {{}}, {{"m"}}}}

\* Two tasks of every form, one of them under the key of the review the host adds.
Shapes ==
    {[tasks |-> <<s, t>>, limit |-> n] :
        s \in Chosen(k1, k2), t \in Forms(k2, k1), n \in {3, 4}}
    \cup {[tasks |-> <<t, s>>, limit |-> 4] :
        s \in Chosen(k1, <<k1, 1>>), t \in Forms(<<k1, 1>>, k1)}

Corrections ==
    {[tasks |-> <<[Task(k1) EXCEPT !.scope = {f}, !.outputs = {{f}}, !.deps = d], t>>,
      limit |-> 4] :
        f \in {"f", "g"}, d \in {<<>>, <<k2>>},
        t \in {Task(k2), [Task(k2) EXCEPT !.deps = <<k1>>], ReviewTask(k2, k1)}}
    \cup {[tasks |-> <<Task(k)>>, limit |-> n] : k \in {k1, k2}, n \in {2, 4}}

Citing(t, c) == [t EXCEPT !.covers = c, !.acceptance = FALSE]
Generations ==
    {[tasks |-> <<s, t>> \o last, limit |-> 6] :
        s \in {[Citing(Task(k1), c) EXCEPT !.assignee = w] : w \in {{}, {"m"}}, c \in {{1}, {1, 2}}},
        t \in {[Citing(Task(k2), c) EXCEPT !.assignee = {"m"}] : c \in {{1}, {2}}}
              \cup {Citing(ReviewTask(k2, k1), c) : c \in {{}, {2}}},
        last \in {<<>>} \cup
            {<<[Citing(Task(k3), {2}) EXCEPT !.kind = "integration", !.deps = d,
                                             !.assignee = {"m"}]>> :
                d \in {<<>>, <<k1>>, <<k2>>, <<k1, k2>>}}}

Planned == INSTANCE PlanAdmission WITH
    draft <- drafted, mission <- staged, rows <- admitted, faults <- cuts,
    Inputs <- Shapes, Criteria <- {1}, Automatic <- FALSE, MaxSaves <- 1, MaxFaults <- 1

Corrected == INSTANCE PlanAdmission WITH
    draft <- drafted, mission <- staged, rows <- admitted, faults <- cuts,
    Inputs <- Corrections, Criteria <- {1}, Automatic <- FALSE, MaxSaves <- 3, MaxFaults <- 2

Generated == INSTANCE PlanAdmission WITH
    draft <- drafted, mission <- staged, rows <- admitted, faults <- cuts,
    Inputs <- Generations, Criteria <- {1, 2}, Automatic <- TRUE, MaxSaves <- 2, MaxFaults <- 1

ASSUME L!LineageConstants
ASSUME Planned!PlanBounds /\ Corrected!PlanBounds /\ Generated!PlanBounds

MissionInit ==
    /\ part \in {"planned", "corrected", "generated", "plan", "queue"}
    /\ Init /\ L!Init /\ Planned!Init
    /\ part # "plan" => mission = CHOOSE m \in Missions : TRUE

OfQueue(Action) == part = "queue" /\ Action /\ UNCHANGED <<part, planVars, admissionVars>>

MissionNext ==
    \/ OfQueue(Next)
    \/ part = "plan" /\ L!Next /\ UNCHANGED <<part, vars, admissionVars>>
    \/ /\ \/ part = "planned" /\ Planned!Next
          \/ part = "corrected" /\ Corrected!Next
          \/ part = "generated" /\ Generated!Next
       /\ UNCHANGED <<part, vars, planVars>>

\* What FairSpec of MissionQueue is fair to. A call takes each of these steps at most once,
\* so to be fair to all of them together is to be fair to each.
Settles == \E k \in Calls : Start(k) \/ Settle(k) \/ Forget(k) \/ Refuse(k)

MissionSpec ==
    /\ MissionInit /\ [][MissionNext]_<<part, vars, planVars, admissionVars>>
    /\ WF_vars(OfQueue(Settles))

\* The repairs of a plan alone, for the run of OutputsAreThePlans.
CorrectedSpec ==
    /\ MissionInit /\ part = "corrected"
    /\ [][MissionNext]_<<part, vars, planVars, admissionVars>>

(* The missions. *)

Plan(kind, deps, replaces) ==
    [kind |-> kind, deps |-> deps, replaces |-> replaces, covers |-> {}]

Root == Plan("implementation", {}, {})
Repair(t) == Plan("implementation", {}, {t})
Integration(t) == Plan("integration", {t}, {})

Mission(proposals, criteria, rework, ownerAmends) ==
    [proposals |-> proposals, criteria |-> criteria, rework |-> rework, amends |-> ownerAmends]

Three(plans) == [i \in 1 .. 3 |-> plans]

\* One piece of work, an integration that depends on it, and repairs of either.
Repairs ==
    Mission(
        <<{Root}, {Integration(1)}, {Repair(1), Repair(2)}, {Repair(1), Repair(2), Repair(3)}>>,
        {}, 0, 0)

\* A piece of work that builds on another, its repair, and what integrates them;
\* the criterion is the first piece's.
Deliveries ==
    Mission(
        <<{[Root EXCEPT !.covers = {"c"}]}, {Plan("implementation", {1}, {})},
          {Repair(2), Integration(2)}, {Integration(2), Plan("integration", {1, 2}, {})}>>,
        {"c"}, 0, 0)

\* Two pieces of work, a repair, and an integration whose dependencies the owner
\* may amend.
Amendments == Mission(<<{Root}, {Root, Repair(1)}, {Integration(1)}>>, {}, 0, 1)

\* Dependent work, repaired by work that depends on anything but itself.
Stalls ==
    Mission(
        Three({Plan("implementation", deps, replaces) :
            deps \in SUBSET (1 .. 2), replaces \in {{}, {1}, {2}, {1, 2}}}),
        {}, 0, 0)

\* One piece of work and its integration, reworked once.
Reworked == Mission(<<{Root}, {Integration(1)}>>, {}, 1, 0)

\* Work, work that builds on it and a repair of either, reworked and amended: the owner's
\* amendment may meet a repair that was withdrawn while a stop was owed.
Withdrawals ==
    Mission(<<{Root}, {Plan("implementation", {1}, {})}, {Repair(1), Repair(2)}>>, {}, 1, 1)

AllMissions == {Repairs, Deliveries, Amendments, Stalls, Reworked, Withdrawals}

\* Two repairs of one piece of work, one through a withdrawn repair, and the integration
\* that depends on the work: a challenge that does not fence (README, Findings).
Fork ==
    Mission(
        <<{Root}, {Repair(1)}, {Repair(1), Integration(1)}, {Repair(2), Integration(1)},
          {Repair(2), Integration(1)}>>,
        {}, 0, 0)
Forks == {Fork}

\* Stalls with a rework and an amendment: a ring of pending tasks (README, Findings).
Rings == {[Stalls EXCEPT !.rework = 1, !.amends = 1]}
-----------------------------------------------------------------------------
\* A call never waits for ever (it waits once), even behind a body that hangs
\* (boundedQueueWait).
CallsAnswered == \A k \in Calls : []<>(call[k] # "waiting")

\* Live and accepted work rests on accepted prerequisites, whatever is challenged,
\* repaired or withdrawn after it started (SwarmRuntime.challenge).
RestsOnAccepted == L!RestsOnAccepted

\* A plan that validatePlan let through is admitted in full, its pairing is done once, and
\* its work can be delivered (pairReviews, propose); and the delivered artifact holds the
\* accepted submission of every implementation (selectAcceptedDelivery,
\* TaskGraphIndex.covers).
DeliversAcceptedContent ==
    /\ part = "plan" => L!DeliversAcceptedContent
    /\ part = "planned" =>
        Planned!NeverRefusedHalfway /\ Planned!PreparedOnce /\ Planned!ActiveIsDeliverable
    /\ part = "corrected" =>
        Corrected!NeverRefusedHalfway /\ Corrected!PreparedOnce /\ Corrected!ActiveIsDeliverable
    /\ part = "generated" =>
        Generated!NeverRefusedHalfway /\ Generated!PreparedOnce /\ Generated!ActiveIsDeliverable

\* The comment of validatePlan: "`outputs` is the only record of the files a task
\* writes, so a launched task must carry it".  A mission that is active after a repair
\* carries the outputs of the plan that was launched (repairDraftAdmissions).
OutputsAreThePlans == part = "corrected" => Corrected!OutputsAreThePlans

\* What of the plan cannot move is named unschedulable, or is stuck in or behind a ring
\* of pending tasks, and none closes but where a stop is confirmed and work in the ring
\* has a withdrawn repair: not by a plan, a repair, a withdrawal, a resume or an amendment
\* (assertEffectiveTaskGraph, unschedulable).
StallDiagnosed == L!StallDiagnosed

\* A challenge that reopens accepted work stops everything that merged it for an
\* obligation it still names (SwarmRuntime.challenge).
MergedWorkFenced == L!MergedWorkFenced

\* No two pending tasks wait on each other (assertEffectiveTaskGraph). It fails for Rings
\* and Withdrawals.
NoPendingCycle == L!NoPendingCycle
=============================================================================
