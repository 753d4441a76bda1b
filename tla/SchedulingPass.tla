---------------------------- MODULE SchedulingPass ----------------------------
(***************************************************************************)
(* The scheduling bodies of one mission: the record a body holds from kick *)
(* to closePass, the sweep that stops early behind a slow member and hands *)
(* the rest of its rotation to the next body, the publication of committed *)
(* transitions, and the watchdog that names a body past its bound.         *)
(*                                                                         *)
(* Members are numbered in board order; rows are added, never removed, so  *)
(* a member keeps its number.  A body is as long as its awaits: Clock may  *)
(* move between any two steps.  The process's shutdown is not modelled.    *)
(***************************************************************************)
EXTENDS Naturals

CONSTANTS
    MaxTeam,      \* bound: the members a board comes to have
    Bound,        \* stallPassTimeoutMs, in units of the clock
    Grace,        \* stallPassLiveGraceMs, in units of the clock
    MaxFailures,  \* bound: the bodies that throw or are refused the queue
    MaxPauses     \* bound: the times the mission stops being active

ASSUME PassConstants ==
    /\ MaxTeam \in Nat \ {0}
    /\ Bound \in Nat \ {0}
    /\ Grace \in Nat
    /\ MaxFailures \in Nat
    /\ MaxPauses \in Nat

VARIABLES
    active,    \* mission.status = 'active'
    team,      \* the number of members on the board
    work,      \* whether the board has live work (liveWork)
    pass,      \* the record in passes, with the stage its body is in
    pending,   \* whether a publication is queued (pendingTransitions)
    naming,    \* whether a naming owes its publication (wedgedReleases)
    unasked,   \* whether a commit's board has not been judged since
    failures, pauses,   \* the bounded counters
    swept, roster       \* history: the members this chain reached; the board it began on

board == <<active, team, work>>
publication == <<pending, naming, unasked>>
history == <<swept, roster>>
vars == <<board, pass, publication, failures, pauses, history>>

Release == Bound + Grace

Stages == {"none", "queued", "recovering", "sweeping", "flushing", "over"}

\* 0 stands for no member, and for a stamp not made yet.
Pass == [stage : Stages, escalated : BOOLEAN,
         sweepFrom : 0 .. MaxTeam, chainFrom : 0 .. MaxTeam, stoppedBefore : 0 .. MaxTeam,
         at : 0 .. MaxTeam, last : 0 .. MaxTeam, held : 0 .. Bound,
         age : 0 .. Release, idle : 0 .. Bound + 1, late : BOOLEAN]

TypeOK ==
    /\ active \in BOOLEAN /\ team \in 1 .. MaxTeam /\ work \in BOOLEAN
    /\ pass \in Pass
    /\ pending \in BOOLEAN /\ naming \in BOOLEAN /\ unasked \in BOOLEAN
    /\ failures \in 0 .. MaxFailures /\ pauses \in 0 .. MaxPauses
    /\ swept \subseteq 1 .. MaxTeam /\ roster \in 1 .. MaxTeam

\* What openPass records: late is that the body's last stamp was made past its bound.
Opened(stage, from, chain) ==
    [stage |-> stage, escalated |-> FALSE,
     sweepFrom |-> from, chainFrom |-> chain, stoppedBefore |-> 0,
     at |-> 0, last |-> 0, held |-> 0, age |-> 0, idle |-> 0, late |-> FALSE]

NoPass == Opened("none", 0, 0)

Init ==
    /\ active = TRUE
    /\ team \in 1 .. MaxTeam
    /\ work = FALSE
    /\ pass = NoPass
    /\ pending = FALSE /\ naming = FALSE /\ unasked = FALSE
    /\ failures = 0 /\ pauses = 0
    /\ swept = {} /\ roster = team

Progressed(p) == [p EXCEPT !.idle = 0, !.late = IF p.age >= Bound THEN TRUE ELSE FALSE]
-----------------------------------------------------------------------------
(* Verdicts of the open body *)

PastBound == pass.age >= Bound

Live == ~pass.escalated /\ (PastBound => work /\ pass.age < Release)

\* A body past its bound that made progress within the last one is running.
StillMoving == pass.late /\ pass.idle <= Bound

\* The publication is left to the open body: it is live and not wedged.
LeftToBody == pass.stage # "none" /\ (StillMoving \/ (~PastBound /\ Live))
-----------------------------------------------------------------------------
(* Commits, the mission's status, the clock *)

Kicked ==
    IF pass.stage # "none" THEN UNCHANGED <<pass, history>>
    ELSE /\ pass' = Opened("queued", 0, 0)
         /\ swept' = {} /\ roster' = team

Committed == pending' = TRUE /\ unasked' = TRUE /\ UNCHANGED naming

\* A tool call, a control or a barrier commits, and may kick.
Commit ==
    /\ Committed
    /\ work' \in BOOLEAN
    /\ Kicked \/ UNCHANGED <<pass, history>>
    /\ UNCHANGED <<active, team, failures, pauses>>

\* An admission commits the member inside the mission queue, where no body runs,
\* and kicks once the member has started.
AddMember ==
    /\ active
    /\ team < MaxTeam
    /\ pass.stage \in {"none", "queued", "over"}
    /\ team' = team + 1
    /\ Committed
    /\ UNCHANGED <<active, work, pass, failures, pauses, history>>

\* A pause or a budget block commits outside the mission queue.
Suspend ==
    /\ active
    /\ pauses < MaxPauses
    /\ active' = FALSE
    /\ pauses' = pauses + 1
    /\ Committed
    /\ UNCHANGED <<team, work, pass, failures, history>>

Resume ==
    /\ ~active
    /\ active' = TRUE
    /\ Committed
    /\ Kicked
    /\ UNCHANGED <<team, work, failures, pauses>>

\* The tick kicks every mission that is not over.
TickKick ==
    /\ pass.stage = "none"
    /\ Kicked
    /\ UNCHANGED <<board, publication, failures, pauses>>

Later(t, cap) == IF t < cap THEN t + 1 ELSE cap

\* Time passes; a lease that held live work may lapse.
Clock ==
    /\ pass.stage # "none"
    /\ pass' = [pass EXCEPT !.age = Later(@, Release), !.idle = Later(@, Bound + 1),
                            !.held = IF pass.stage = "sweeping" THEN Later(@, Bound) ELSE 0]
    /\ work' \in {work, FALSE}
    /\ UNCHANGED <<active, team, publication, failures, pauses, history>>
-----------------------------------------------------------------------------
(* The body *)

\* The queue lets the body run.  Off an active mission it only flushes the outbox.
Begin ==
    /\ pass.stage = "queued"
    /\ pass' = [Progressed(pass) EXCEPT !.stage = IF active THEN "recovering" ELSE "flushing"]
    /\ UNCHANGED <<board, publication, failures, pauses, history>>

\* The bounded wait refuses the body the queue, and says so unless it did before.
Refused ==
    /\ pass.stage = "queued"
    /\ PastBound
    /\ failures < MaxFailures
    /\ failures' = failures + 1
    /\ pass' = [pass EXCEPT !.stage = "over"]
    /\ Committed \/ UNCHANGED publication
    /\ UNCHANGED <<board, pauses, history>>

Throws ==
    /\ pass.stage \in {"recovering", "sweeping", "flushing"}
    /\ failures < MaxFailures
    /\ failures' = failures + 1
    /\ pass' = [pass EXCEPT !.stage = "over"]
    /\ UNCHANGED <<board, publication, pauses, history>>

\* One of the body's own awaits returns and its result is committed.
AwaitReturns ==
    /\ pass.stage \in {"recovering", "sweeping", "flushing"}
    /\ pass' = Progressed(pass)
    /\ Committed
    /\ work' \in BOOLEAN
    /\ UNCHANGED <<active, team, failures, pauses, history>>

\* The sweep's order runs from First, wraps after the last member, and ends before End.
First == IF pass.sweepFrom \in 1 .. team THEN pass.sweepFrom ELSE 1

End == IF pass.chainFrom \in 1 .. pass.last THEN pass.chainFrom ELSE First

After(m) == IF m = pass.last THEN 1 ELSE m + 1

Reach(p, m) ==
    /\ pass' = [Progressed(p) EXCEPT !.stage = "sweeping", !.at = m, !.held = 0]
    /\ swept' = swept \cup {m}
    /\ UNCHANGED roster

Abandon(p) == pass' = [p EXCEPT !.stage = "over"] /\ UNCHANGED history

SweepOpens ==
    /\ pass.stage = "recovering"
    /\ IF active THEN Reach([pass EXCEPT !.last = team], First) ELSE Abandon(pass)
    /\ UNCHANGED <<board, publication, failures, pauses>>

\* Mutant: the next body starts past the member this one stopped before.
HandOnPast(p, m) ==
    /\ pass' = [p EXCEPT !.stage = "over", !.stoppedBefore = After(m), !.chainFrom = End]
    /\ UNCHANGED <<publication, history>>

HandOn(p, m) ==
    /\ pass' = [p EXCEPT !.stage = "over", !.stoppedBefore = m, !.chainFrom = End]
    /\ UNCHANGED <<publication, history>>

\* The sweep is complete: the board is judged, then the outbox is flushed.
Complete(p) ==
    /\ pass' = [p EXCEPT !.stage = "flushing"]
    /\ unasked' = FALSE
    /\ UNCHANGED <<pending, naming, history>>

\* A member's step is over, and the sweep is at its next boundary or at its end.
MemberDone ==
    /\ pass.stage = "sweeping"
    /\ LET next == After(pass.at)
           p == Progressed(pass)
       IN  \/ next = End /\ Complete(p)
           \/ next # End /\ active /\ pass.held >= Bound /\ HandOn(p, next)
           \/ next # End /\ active /\ pass.held < Bound /\ Reach(p, next) /\ UNCHANGED publication
           \/ ~active /\ Abandon(p) /\ UNCHANGED publication
    /\ UNCHANGED <<board, failures, pauses>>

Flushed ==
    /\ pass.stage = "flushing"
    /\ pass' = [Progressed(pass) EXCEPT !.stage = "over"]
    /\ UNCHANGED <<board, publication, failures, pauses, history>>

\* Mutant: the body after a stopped one starts its sweep afresh.
SuccessorAfresh == Opened("queued", 0, pass.chainFrom)

Successor == Opened("queued", pass.stoppedBefore, pass.chainFrom)

\* Mutant: the close publishes only what no successor will.
CloseIfLast ==
    /\ pass.stage = "over"
    /\ pass' = IF active /\ pass.stoppedBefore # 0 THEN Successor ELSE NoPass
    /\ pending' = (pending \/ pass.stoppedBefore # 0)
    /\ UNCHANGED <<board, naming, unasked, failures, pauses, history>>

\* The body settles: its record is removed and, after an early stop, the next
\* body's opened in the same step.
Close ==
    /\ pass.stage = "over"
    /\ pass' = IF active /\ pass.stoppedBefore # 0 THEN Successor ELSE NoPass
    /\ pending' = TRUE
    /\ UNCHANGED <<board, naming, unasked, failures, pauses, history>>
-----------------------------------------------------------------------------
(* Publication and watchdog *)

\* The microtask: the board is judged, unless a live body is left to publish it.
Publish ==
    /\ pending
    /\ pending' = FALSE
    /\ naming' = FALSE
    /\ unasked' = (unasked /\ LeftToBody /\ ~naming)
    /\ UNCHANGED <<board, pass, failures, pauses, history>>

\* The tick's watchdog names a body it no longer counts live, once.
Watch ==
    /\ pass.stage # "none"
    /\ ~pass.escalated
    /\ active
    /\ ~Live
    /\ pass' = [pass EXCEPT !.escalated = TRUE]
    /\ naming' = TRUE
    /\ pending' = TRUE
    /\ UNCHANGED <<board, unasked, failures, pauses, history>>

Body == Begin \/ SweepOpens \/ MemberDone \/ Flushed \/ Close

Next ==
    \/ Commit \/ AddMember \/ Suspend \/ Resume \/ TickKick \/ Clock
    \/ Begin \/ Refused \/ Throws \/ AwaitReturns \/ SweepOpens \/ MemberDone \/ Flushed \/ Close
    \/ Publish \/ Watch

Spec == Init /\ [][Next]_vars

\* Microtasks run, and the timer ticks.  A body may stay in an await for ever.
WatchSpec == Spec /\ WF_vars(Publish) /\ WF_vars(Clock) /\ WF_vars(Watch) /\ WF_vars(TickKick)

\* Each await of a body has a bound of its own.
FairSpec == WatchSpec /\ WF_vars(Body)
-----------------------------------------------------------------------------
\* A chain of bodies that stopped early never reaches a member twice: it covers at
\* most one rotation, whatever joins the board meanwhile (Scheduling.dispatch).
OneRotation ==
    [][pass'.stage = "sweeping" /\ (pass.stage # "sweeping" \/ pass'.at # pass.at)
            => pass'.at \notin swept]_vars

\* The sweep ends with every member of the board it began on reached.
EndsWhole ==
    pass.stage = "sweeping" /\ pass'.stage = "flushing" => 1 .. roster \subseteq swept

\* The pass-end steps run only behind a whole rotation: the chain has reached every
\* member that was on the board when it began, by one body or by several
\* (Scheduling.dispatch, "the body that completes the rotation").
WholeRotation == [][EndsWhole]_vars

\* A commit whose board nobody has judged is always somebody's to judge: a
\* publication is queued, or a body is open whose close will queue one
\* (Scheduling.publish leaves a live body's commits to its close).
NothingUnpublished == unasked => pending \/ pass.stage # "none"

\* However slow its members are, a mission that stays active completes rotations
\* again and again, so automatic completion, the witness and the outbox flush are
\* not starved by early stops (Scheduling.dispatch, "the chain is bounded").
RotationsComplete == []<>(pass.stage = "flushing" \/ ~active)

Reached(m) == ~active \/ team < m \/ (pass.stage = "sweeping" /\ pass.at = m)

\* Every member is reached again and again, also behind one that always holds its
\* body for a whole bound (SwarmRuntime.kick, sweepFrom).
EveryMemberReached == \A m \in 1 .. MaxTeam : []<>Reached(m)

\* A body that never returns is named, even while live work goes on for ever
\* (Scheduling.checkSchedulingPasses, the release bound).
HungBodyNamed == []<>(pass.stage = "none" \/ pass.escalated \/ ~active)

\* What a body's live window left unpublished is judged in the end though the body
\* never returns: its naming owes a publication of its own, also when the body
\* made progress a moment ago (Scheduling.expectWedgedRelease).
WindowPublished ==
    [](unasked /\ pass.stage # "none" /\ ~pass.escalated => <>(~unasked \/ ~active))
=============================================================================
