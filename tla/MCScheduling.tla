---------------------------- MODULE MCScheduling ----------------------------
(***************************************************************************)
(* The scheduling of a mission for TLC, one part of it in each behaviour:  *)
(* the bodies that sweep a team (SchedulingPass), and the boards they      *)
(* leave to be judged (Witness).                                           *)
(***************************************************************************)
EXTENDS SchedulingPass

CONSTANTS a, b, None  \* the members of a judged board

VARIABLES
    part,  \* the part this behaviour is about
    plan, rows, member, body, due, judged, facts, faults

boardVars == <<plan, rows, member, body, due, judged, facts, faults>>

Work(deps, assignee) ==
    [kind |-> "implementation", of |-> 0, deps |-> deps, replaces |-> {},
     assignee |-> assignee, preferred |-> FALSE]
Judging(s, assignee) == [Work({}, assignee) EXCEPT !.kind = "verification", !.of = s]
Repair(t) == [Work({}, None) EXCEPT !.replaces = {t}]

\* Work, what depends on it and a repair of it; and work with reviews by a member and by
\* anyone.
Plans ==
    {{Work({}, a), Work({1}, b), Repair(1)},
     {Work({}, a), Judging(1, b), Judging(1, None)}}

Board == INSTANCE Witness WITH
    pass <- body, Members <- {a, b}, MaxRows <- 3, MaxEpoch <- 1, MaxFaults <- 1

ASSUME Board!WitnessBounds

OfBodies(Action) == part = "bodies" /\ Action /\ UNCHANGED <<part, boardVars>>

SchedulingInit ==
    /\ part \in {"bodies", "board"}
    /\ Init /\ Board!Init
    /\ IF part = "board" THEN team = 1 ELSE plan = CHOOSE p \in Plans : TRUE

SchedulingNext ==
    \/ OfBodies(Next)
    \/ part = "board" /\ Board!Next /\ UNCHANGED <<part, vars>>

\* The fairness of SchedulingPass.
SchedulingSpec ==
    /\ SchedulingInit /\ [][SchedulingNext]_<<part, vars, boardVars>>
    /\ WF_vars(OfBodies(Publish)) /\ WF_vars(OfBodies(Clock)) /\ WF_vars(OfBodies(Watch))
    /\ WF_vars(OfBodies(TickKick)) /\ WF_vars(OfBodies(Body))
-----------------------------------------------------------------------------
\* Every member of an active mission is reached again and again, also behind one that
\* always holds its body for a whole bound (SwarmRuntime.kick, sweepFrom).
MembersReached == \A m \in 1 .. MaxTeam : []<>(part = "bodies" => Reached(m))

\* Once a board was judged while no body acts on it, no unfinished work is without a live
\* path and unnamed, and what each waits on ends in something that is alive or that a
\* decision names (judge, waitsLegitimately; "missed obligations", tests/instruments.mjs).
NoSilence == part = "board" => Board!NothingMissed /\ Board!WaitsOnNoSilence
=============================================================================
