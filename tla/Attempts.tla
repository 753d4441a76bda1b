------------------------------- MODULE Attempts -------------------------------
(***************************************************************************)
(* Attempts, stop markers and worker handles of one mission.               *)
(*                                                                         *)
(* A member's live turn, the mission queue's one operation in flight, the  *)
(* owner's controls, the tick and the stop barriers interleave freely; a   *)
(* commit is one step.  What a row becomes is TaskRow's; when, and on      *)
(* whose word, is decided here.                                            *)
(***************************************************************************)
EXTENDS TaskRow

CONSTANTS
    Tasks,             \* the mission's rows
    MaxEpoch,          \* bound: no assignment, failed preparation or amendment at or past it
    StartFailureLimit, \* START_FAILURE_REROUTE_LIMIT
    Targets,           \* the assignees a plan, a handoff or an amendment names
    Allowances         \* the recovery allowances left that an owner's change leaves

ASSUME BoardConstants ==
    /\ MaxEpoch \in Nat
    /\ StartFailureLimit \in Nat \ {0}
    /\ Targets \subseteq Members \cup {None}
    /\ Allowances \subseteq 0 .. MaxRecovery

VARIABLES
    mission,  \* mission.status of a launched mission
    row,      \* the task rows
    phase,    \* member.phase: the durable half of a member's status
    handle,   \* the adapter's resident: none, an idle agent, one in a turn, one that is
              \* ending, or one that a start waits to see ended before it opens another
    work,     \* <<task, epoch>> pairs the live turn of a member is executing
    strikes,  \* member.startFailures: consecutive counted start failures
    op,       \* the operation holding the mission queue across an await
    barrier   \* per task, where its stop barrier is (volatile)

vars == <<mission, row, phase, handle, work, strikes, op, barrier>>

\* A claim or a submission is a tool call of a live turn; live turns FALSE
\* when that turn is cancelled (the caller's abort signal).
Op == [kind: {"dispatch", "claim", "submit", "closeout", "expire"},
       task: Tasks, member: Members, epoch: Nat, assignee: Members \cup {None},
       planned: Members \cup {None}, parked: BOOLEAN, live: BOOLEAN]

ASSUME NoneIsNoOp == None \notin Op

InFlight == {"stopping", "saving", "releasing"}

TypeOK ==
    /\ mission \in {"active", "paused", "stopped"}
    /\ row \in [Tasks -> Row]
    /\ phase \in [Members -> {"active", "parked", "stopped"}]
    /\ handle \in [Members -> {"down", "idle", "busy", "ending", "awaited"}]
    /\ work \in [Members -> SUBSET (Tasks \X Nat)]
    /\ strikes \in [Members -> 0 .. StartFailureLimit]
    /\ op \in Op \cup {None}
    /\ barrier \in [Tasks -> InFlight \cup {"idle", "backoff"}]

Init ==
    /\ mission = "active"
    /\ \E bound \in [Tasks -> Targets] : row = [t \in Tasks |-> NewRow(bound[t])]
    /\ phase = [m \in Members |-> "active"]
    /\ handle = [m \in Members |-> "down"]
    /\ work = [m \in Members |-> {}]
    /\ strikes = [m \in Members |-> 0]
    /\ op = None
    /\ barrier = [t \in Tasks |-> "idle"]
-----------------------------------------------------------------------------
(***************************************************************************)
(* What the runtime asks the board.                                        *)
(***************************************************************************)

Live(m) == phase[m] # "stopped"

LiveMembers == {m \in Members : Live(m)}

OpenAttempts(m) == {t \in Tasks : OpenBy(row[t], m)}

PendingStopOwner(m) == \E t \in Tasks : OwesStop(row[t], m)

\* A parked member's handle is never asked about: an assignment unparks it.
StartBlocked(m) == phase[m] # "parked" /\ handle[m] # "idle"

\* Admission: no stop owed, and no lease already held.
Admitted(m) == ~PendingStopOwner(m) /\ OpenAttempts(m) = {}

QueueFree == op = None

\* The calls of m's live turn that hold the queue.
CallsOf(m) == {o \in {op} : o # None /\ o.member = m /\ o.kind \in {"claim", "submit"}}

EpochLeft(t) == row[t].epoch < MaxEpoch
-----------------------------------------------------------------------------
(***************************************************************************)
(* Shapes shared by the actions.                                           *)
(***************************************************************************)

\* Attempts.resumeStoppedAttempt: start the barrier of a row that owes a stop,
\* unless it is in flight, waiting out its backoff, or failed for good.  An
\* owner's forced retry clears the failure and the backoff.
Poked(b, r, force) ==
    IF /\ StopPending(r)
       /\ \/ force /\ b \notin InFlight
          \/ b = "idle" /\ r.stop.failure # "deterministic"
    THEN "stopping" ELSE b

Forgiven(b, r) ==
    IF StopPending(r) /\ b \notin InFlight THEN StopFailed(r, "none") ELSE r

\* Commit one row and poke its barrier.
Commit(t, r) ==
    /\ row' = [row EXCEPT ![t] = r]
    /\ barrier' = [barrier EXCEPT ![t] = Poked(@, r, FALSE)]

\* Commit every row and poke every barrier.
CommitAll(rows, force) ==
    /\ row' = [t \in Tasks |-> IF force THEN Forgiven(barrier[t], rows[t]) ELSE rows[t]]
    /\ barrier' = [t \in Tasks |-> Poked(barrier[t], rows[t], force)]

NewOp(kind, t, m, parked) ==
    [kind |-> kind, task |-> t, member |-> m, epoch |-> row[t].epoch,
     assignee |-> row[t].assignee, planned |-> row[t].planned,
     parked |-> parked, live |-> TRUE]

\* The member's turn ends with its handle: a call it was waiting on is aborted.
TurnAborted(m) ==
    /\ work' = [work EXCEPT ![m] = {}]
    /\ op' = IF CallsOf(m) # {} THEN [op EXCEPT !.live = FALSE] ELSE op

\* A stop joins the end of a resident that ends already.  It is over then, and
\* nothing has recalled the start that waited for it.
HandleDown(m) ==
    /\ handle' = [handle EXCEPT ![m] = IF @ = "awaited" THEN @ ELSE "down"]
    /\ TurnAborted(m)
-----------------------------------------------------------------------------
(***************************************************************************)
(* Worker handles.                                                         *)
(***************************************************************************)

\* What a start asks, last in the step that calls the adapter.
MayStart(m) == mission = "active" /\ Live(m) /\ ~PendingStopOwner(m)

StartWorker(m) ==
    /\ MayStart(m)
    /\ handle[m] = "down"
    /\ handle' = [handle EXCEPT ![m] = "idle"]
    /\ strikes' = [strikes EXCEPT ![m] = 0]
    /\ UNCHANGED <<mission, row, phase, work, op, barrier>>

\* The adapter finds the old resident ending and waits for that.
StartWaits(m) ==
    /\ MayStart(m)
    /\ handle[m] = "ending"
    /\ handle' = [handle EXCEPT ![m] = "awaited"]
    /\ UNCHANGED <<mission, row, phase, work, strikes, op, barrier>>

\* It then opens a fresh one, whatever its member came to owe meanwhile: only the
\* mission and the membership are asked again.
LateStart(m) ==
    /\ handle[m] = "awaited"
    /\ mission = "active"
    /\ Live(m)
    /\ handle' = [handle EXCEPT ![m] = "idle"]
    /\ strikes' = [strikes EXCEPT ![m] = 0]
    /\ UNCHANGED <<mission, row, phase, work, op, barrier>>

\* Where a failed start leaves a task: the planned member or else some other
\* live one, when the route is out or retired; otherwise where it was.
RerouteTargets(t, m, rerouted, retired) ==
    LET others == LiveMembers \ {m}
    IN  IF rerouted /\ others # {}
        THEN IF row[t].planned \in others THEN {row[t].planned} ELSE others
        ELSE {IF retired THEN None ELSE m}

\* A start fails where it began or, in flight, when a stop ends its opening, when
\* its time is up, or when the end it waits for is rejected; the old resident ends on.
StartFails(m, outage) ==
    LET count    == strikes[m] + 1
        retired  == ~outage /\ count = StartFailureLimit
        affected == {t \in Tasks : row[t].assignee = m /\ row[t].status \in {"pending", "running"}}
    IN  /\ mission = "active" /\ Live(m) /\ handle[m] \in {"down", "awaited"}
        /\ handle' = [handle EXCEPT ![m] = IF @ = "awaited" THEN "ending" ELSE @]
        /\ strikes' = [strikes EXCEPT ![m] = IF outage THEN @ ELSE count]
        /\ phase' = [phase EXCEPT ![m] = IF retired THEN "stopped" ELSE @]
        /\ \E target \in [affected -> Members \cup {None}] :
              /\ \A t \in affected : target[t] \in RerouteTargets(t, m, outage \/ retired, retired)
              /\ row' = [t \in Tasks |->
                           IF t \in affected THEN StartFailedRow(row[t], target[t]) ELSE row[t]]
        /\ UNCHANGED <<mission, work, op, barrier>>

Up(m) == handle[m] \in {"idle", "busy"}

\* The host ends an agent on its own account, or a stop has begun to.
HandleEnds(m) ==
    /\ Up(m)
    /\ handle' = [handle EXCEPT ![m] = "ending"]
    /\ TurnAborted(m)
    /\ UNCHANGED <<mission, row, phase, strikes, barrier>>

HandleEnded(m) ==
    /\ handle[m] = "ending"
    /\ handle' = [handle EXCEPT ![m] = "down"]
    /\ UNCHANGED <<mission, row, phase, work, strikes, op, barrier>>

\* Mutant: a step does not ask whether its member owes a stop.
StepUnbraked(m) ==
    /\ mission = "active"
    /\ Up(m)
    /\ handle' = [handle EXCEPT ![m] = "busy"]
    /\ phase' = [phase EXCEPT ![m] = IF @ = "parked" THEN "active" ELSE @]
    /\ work' = [work EXCEPT ![m] = {<<t, row[t].epoch>> : t \in OpenAttempts(m)}]
    /\ row' = [t \in Tasks |-> IF OpenBy(row[t], m)
                               THEN [row[t] EXCEPT !.attempt.lapsed = FALSE]
                               ELSE row[t]]
    /\ UNCHANGED <<mission, strikes, op, barrier>>

\* A model step with input to consume; an assignment or a message unparks.
Step(m) ==
    /\ mission = "active"
    /\ Up(m)
    /\ ~PendingStopOwner(m)
    /\ handle' = [handle EXCEPT ![m] = "busy"]
    /\ phase' = [phase EXCEPT ![m] = IF @ = "parked" THEN "active" ELSE @]
    /\ work' = [work EXCEPT ![m] = {<<t, row[t].epoch>> : t \in OpenAttempts(m)}]
    /\ row' = [t \in Tasks |-> IF OpenBy(row[t], m)
                               THEN [row[t] EXCEPT !.attempt.lapsed = FALSE]
                               ELSE row[t]]
    /\ UNCHANGED <<mission, strikes, op, barrier>>

\* The step is refused instead: the task reached its own ceiling.
Ceiling(m, t) ==
    /\ mission = "active"
    /\ Up(m)
    /\ ~PendingStopOwner(m)
    /\ OpenBy(row[t], m)
    /\ Commit(t, CeilingBlocked(row[t]))
    /\ UNCHANGED <<mission, phase, handle, work, strikes, op>>

\* A recorded tool run, or the renewal of a live operation, extends the lease.
Renew(m, t) ==
    /\ handle[m] = "busy"
    /\ OpenBy(row[t], m)
    /\ row[t].attempt.lapsed
    /\ row' = [row EXCEPT ![t].attempt.lapsed = FALSE]
    /\ UNCHANGED <<mission, phase, handle, work, strikes, op, barrier>>

\* A turn cannot end under a tool call it awaits.
EndTurn(m) ==
    /\ handle[m] = "busy"
    /\ \A o \in CallsOf(m) : ~o.live
    /\ handle' = [handle EXCEPT ![m] = "idle"]
    /\ work' = [work EXCEPT ![m] = {}]
    /\ row' = [t \in Tasks |-> IF OpenBy(row[t], m) /\ Live(m)
                               THEN [row[t] EXCEPT !.attempt.ended = TRUE]
                               ELSE row[t]]
    /\ UNCHANGED <<mission, phase, strikes, op, barrier>>

\* The member's route refuses a step for good: the member is retired.
RouteRefused(m) ==
    /\ mission # "stopped"
    /\ handle[m] = "busy"
    /\ Live(m)
    /\ phase' = [phase EXCEPT ![m] = "stopped"]
    /\ row' = [t \in Tasks |-> RouteRefusedRow(row[t], m)]
    /\ barrier' = [t \in Tasks |->
                     IF OpenBy(row[t], m) THEN Poked(barrier[t], row'[t], FALSE) ELSE barrier[t]]
    /\ UNCHANGED <<mission, handle, work, strikes, op>>
-----------------------------------------------------------------------------
(***************************************************************************)
(* A worker's tool calls.                                                  *)
(***************************************************************************)

\* SwarmRuntime.active, for a member's live turn.
Acts(m) == mission = "active" /\ handle[m] = "busy" /\ Live(m)

Handoff(m, t, to) ==
    /\ Acts(m)
    /\ OpenBy(row[t], m)
    /\ ~row[t].attempt.lapsed
    /\ to \in LiveMembers \cup {None}
    /\ Commit(t, HandedOff(row[t], to))
    /\ UNCHANGED <<mission, phase, handle, work, strikes, op>>

\* A park must never strand a running attempt.
Wait(m) ==
    /\ Acts(m)
    /\ OpenAttempts(m) = {}
    /\ phase' = [phase EXCEPT ![m] = "parked"]
    /\ UNCHANGED <<mission, row, handle, work, strikes, op, barrier>>

ClaimBegin(m, t) ==
    /\ QueueFree
    /\ Acts(m)
    /\ Ready(row[t], m)
    /\ Admitted(m)
    /\ EpochLeft(t)
    /\ op' = NewOp("claim", t, m, FALSE)
    /\ UNCHANGED <<mission, row, phase, handle, work, strikes, barrier>>

SubmitBegin(m, t) ==
    /\ QueueFree
    /\ Acts(m)
    /\ OpenBy(row[t], m)
    /\ ~row[t].attempt.lapsed
    /\ op' = NewOp("submit", t, m, FALSE)
    /\ UNCHANGED <<mission, row, phase, handle, work, strikes, barrier>>

\* What a submission asks again of the row its commit reads.
SubmissionFence ==
    /\ op.live
    /\ mission = "active"
    /\ Live(op.member)
    /\ HoldsAttempt(row[op.task], op.epoch)
    /\ row[op.task].attempt.owner = op.member
    /\ ~row[op.task].attempt.lapsed

SubmitFinish ==
    /\ op # None
    /\ op.kind = "submit"
    /\ SubmissionFence
    /\ row' = [row EXCEPT ![op.task].status = "submitted"]
    /\ work' = [work EXCEPT ![op.member] = {}]
    /\ op' = None
    /\ UNCHANGED <<mission, phase, handle, strikes, barrier>>

\* The call fails: its fence, its capture or its preparation throws.
CallRefused ==
    /\ op # None
    /\ op.kind \in {"claim", "submit"}
    /\ op' = None
    /\ UNCHANGED <<mission, row, phase, handle, work, strikes, barrier>>
-----------------------------------------------------------------------------
(***************************************************************************)
(* The dispatch sweep and lease recovery, in the mission queue.            *)
(***************************************************************************)

DispatchBegin(m, t) ==
    /\ QueueFree
    /\ mission = "active"
    /\ Up(m)
    /\ Live(m)
    /\ ~StartBlocked(m)
    /\ Admitted(m)
    /\ Ready(row[t], m)
    /\ EpochLeft(t)
    /\ op' = NewOp("dispatch", t, m, FALSE)
    /\ UNCHANGED <<mission, row, phase, handle, work, strikes, barrier>>

\* The chosen row and member, re-read after the preparation's await.
StillDispatchable ==
    /\ mission = "active"
    /\ Live(op.member)
    /\ ~PendingStopOwner(op.member)
    /\ SameChoice(row[op.task], op.epoch, op.assignee, op.planned)
    /\ Ready(row[op.task], op.member)

Assignable == StillDispatchable /\ Admitted(op.member) /\ op.live

Assign ==
    /\ op # None
    /\ op.kind \in {"dispatch", "claim"}
    /\ Assignable
    /\ row' = [row EXCEPT ![op.task] = Assigned(@, op.member)]
    /\ work' = IF op.kind = "claim"
               THEN [work EXCEPT ![op.member] = {<<op.task, row'[op.task].epoch>>}]
               ELSE work
    /\ op' = None
    /\ UNCHANGED <<mission, phase, handle, strikes, barrier>>

PrepareFails(transient) ==
    /\ op # None
    /\ op.kind = "dispatch"
    /\ StillDispatchable
    /\ row' = [row EXCEPT ![op.task] = PreparationFailure(@, transient)]
    /\ op' = None
    /\ UNCHANGED <<mission, phase, handle, work, strikes, barrier>>

\* The idle close-out is due: the owner's turn ended on its open attempt.
CloseOutDue(m, t) ==
    /\ QueueFree
    /\ mission = "active"
    /\ phase[m] = "active"
    /\ handle[m] = "idle"
    /\ ~PendingStopOwner(m)
    /\ OpenBy(row[t], m)
    /\ row[t].attempt.ended

Nudge(m, t) ==
    /\ CloseOutDue(m, t)
    /\ row[t].attempt.nudges < MaxIdleCloseouts
    /\ row' = [row EXCEPT ![t] = Nudged(@)]
    /\ UNCHANGED <<mission, phase, handle, work, strikes, op, barrier>>

CloseOutBegin(m, t) ==
    /\ CloseOutDue(m, t)
    /\ row[t].attempt.nudges = MaxIdleCloseouts
    /\ op' = NewOp("closeout", t, m, FALSE)
    /\ UNCHANGED <<mission, row, phase, handle, work, strikes, barrier>>

\* The workspace was captured, or could not be.
CloseOutFinish(captured) ==
    /\ op # None
    /\ op.kind = "closeout"
    /\ HoldsAttempt(row[op.task], op.epoch)
    /\ Commit(op.task, IF captured THEN ClosedOut(row[op.task], op.member)
                       ELSE CloseOutFailed(row[op.task]))
    /\ op' = None
    /\ UNCHANGED <<mission, phase, handle, work, strikes>>

LeaseRunsOut(t) ==
    /\ HoldsOpen(row[t])
    /\ ~row[t].attempt.lapsed
    /\ row' = [row EXCEPT ![t].attempt.lapsed = TRUE]
    /\ UNCHANGED <<mission, phase, handle, work, strikes, op, barrier>>

LeaseLapsed(t) ==
    QueueFree /\ mission = "active" /\ HoldsOpen(row[t]) /\ row[t].attempt.lapsed

\* No idle handle to capture from: the row is fenced at once.
ExpireNow(t) ==
    /\ LeaseLapsed(t)
    /\ handle[row[t].attempt.owner] # "idle"
    /\ Commit(t, Expired(row[t], phase[row[t].attempt.owner] = "parked", LiveMembers))
    /\ UNCHANGED <<mission, phase, handle, work, strikes, op>>

\* Mutant: a parked owner's lease is left alone.
ExpireBeginUnlessParked(t) ==
    /\ LeaseLapsed(t)
    /\ handle[row[t].attempt.owner] = "idle"
    /\ phase[row[t].attempt.owner] = "active"
    /\ op' = NewOp("expire", t, row[t].attempt.owner, FALSE)
    /\ UNCHANGED <<mission, row, phase, handle, work, strikes, barrier>>

ExpireBegin(t) ==
    /\ LeaseLapsed(t)
    /\ handle[row[t].attempt.owner] = "idle"
    /\ op' = NewOp("expire", t, row[t].attempt.owner, phase[row[t].attempt.owner] = "parked")
    /\ UNCHANGED <<mission, row, phase, handle, work, strikes, barrier>>

\* After the capture only the attempt is asked again, not its lease; whether the
\* owner was parked is what was read before it.
ExpireFinish ==
    /\ op # None
    /\ op.kind = "expire"
    /\ HoldsAttempt(row[op.task], op.epoch)
    /\ Commit(op.task, Expired(row[op.task], op.parked, LiveMembers))
    /\ op' = None
    /\ UNCHANGED <<mission, phase, handle, work, strikes>>

\* A write between the await and the commit took the row or the member.
Moot ==
    /\ op # None
    /\ \/ op.kind = "dispatch" /\ ~Assignable
       \/ op.kind \in {"closeout", "expire"} /\ ~HoldsAttempt(row[op.task], op.epoch)
    /\ op' = None
    /\ UNCHANGED <<mission, row, phase, handle, work, strikes, barrier>>
-----------------------------------------------------------------------------
(***************************************************************************)
(* The stop barrier of one row.                                            *)
(***************************************************************************)

\* Mutant: a stop that was rejected once is not retried.
SweepStopUnlessFailed(t) ==
    /\ StopPending(row[t])
    /\ row[t].stop.failure = "none"
    /\ barrier[t] = "backoff"
    /\ barrier' = [barrier EXCEPT ![t] = "stopping"]
    /\ UNCHANGED <<mission, row, phase, handle, work, strikes, op>>

\* The tick and every pass retry a stop whose backoff has passed.
SweepStop(t) ==
    /\ StopPending(row[t])
    /\ row[t].stop.failure # "deterministic"
    /\ barrier[t] = "backoff"
    /\ barrier' = [barrier EXCEPT ![t] = "stopping"]
    /\ UNCHANGED <<mission, row, phase, handle, work, strikes, op>>

\* Mutant: the checkpoint does not wait for the stop.
StopNotAwaited(t) ==
    /\ barrier[t] = "stopping"
    /\ barrier' = [barrier EXCEPT ![t] = "saving"]
    /\ UNCHANGED <<mission, row, phase, handle, work, strikes, op>>

StopConfirmed(t) ==
    /\ barrier[t] = "stopping"
    /\ HandleDown(row[t].stop.member)
    /\ barrier' = [barrier EXCEPT ![t] = "saving"]
    /\ UNCHANGED <<mission, row, phase, strikes>>

Backoff(t, failure) ==
    /\ row' = [row EXCEPT ![t] = StopFailed(@, failure)]
    /\ barrier' = [barrier EXCEPT ![t] = "backoff"]

\* The adapter's stop rejects; it has released the handle all the same.  A start
\* that waits for it has failed with it.
StopFails(t) ==
    /\ barrier[t] = "stopping"
    /\ handle[row[t].stop.member] # "awaited"
    /\ HandleDown(row[t].stop.member)
    /\ Backoff(t, "transient")
    /\ UNCHANGED <<mission, phase, strikes>>

CheckpointDone(t) ==
    /\ barrier[t] = "saving"
    /\ barrier' = [barrier EXCEPT ![t] = "releasing"]
    /\ UNCHANGED <<mission, row, phase, handle, work, strikes, op>>

CheckpointFails(t, failure) ==
    /\ barrier[t] = "saving"
    /\ Backoff(t, failure)
    /\ UNCHANGED <<mission, phase, handle, work, strikes, op>>

Release(t) ==
    LET m == row[t].stop.member
    IN  /\ QueueFree
        /\ barrier[t] = "releasing"
        /\ row' = [row EXCEPT ![t] = Released(@, ~Live(m))]
        /\ phase' = [phase EXCEPT ![m] = IF mission = "stopped" THEN "stopped" ELSE @]
        /\ barrier' = [barrier EXCEPT ![t] = "idle"]
        /\ UNCHANGED <<mission, handle, work, strikes, op>>

\* The queue's bounded wait refuses the barrier's last step.
ReleaseRefused(t) ==
    /\ ~QueueFree
    /\ barrier[t] = "releasing"
    /\ Backoff(t, "transient")
    /\ UNCHANGED <<mission, phase, handle, work, strikes, op>>
-----------------------------------------------------------------------------
(***************************************************************************)
(* The owner, and the host.                                                *)
(***************************************************************************)

Cancel(t) ==
    /\ mission # "stopped"
    /\ row[t].status # "cancelled"
    /\ Commit(t, FenceForStop(row[t], "cancelled", "handoff"))
    /\ UNCHANGED <<mission, phase, handle, work, strikes, op>>

Amendable(t) ==
    mission # "stopped" /\ row[t].status \in {"pending", "running", "blocked"}

\* controlTask resume, with the allowance the owner leaves the row.
ResumeTask(t, credit) ==
    /\ Amendable(t)
    /\ credit > 0
    /\ LET r == ResumeCleared(row[t], credit)
       IN  /\ row' = [row EXCEPT ![t] = Forgiven(barrier[t], r)]
           /\ barrier' = [barrier EXCEPT ![t] = Poked(@, r, TRUE)]
    /\ UNCHANGED <<mission, phase, handle, work, strikes, op>>

\* A bare resume of withdrawn work only retries the stop it owes.
RetryCleanup(t) ==
    /\ StopPending(row[t])
    /\ mission = "stopped" \/ row[t].status = "cancelled"
    /\ row' = [row EXCEPT ![t] = Forgiven(barrier[t], @)]
    /\ barrier' = [barrier EXCEPT ![t] = Poked(@, row[t], TRUE)]
    /\ UNCHANGED <<mission, phase, handle, work, strikes, op>>

SetAllowance(t, credit) ==
    /\ mission # "stopped"
    /\ row[t].status # "cancelled"
    /\ Commit(t, AllowanceSet(row[t], credit))
    /\ UNCHANGED <<mission, phase, handle, work, strikes, op>>

\* A structural change: the assignee and its plan, or another field of the contract.
Amend(t, a, p) ==
    /\ Amendable(t)
    /\ StopPending(row[t]) \/ HoldsOpen(row[t]) \/ EpochLeft(t)
    /\ row[t].status = "blocked" => row[t].credit > 0
    /\ a \in LiveMembers \cup {None} \/ <<a, p>> = <<row[t].assignee, row[t].planned>>
    /\ Commit(t, Amended(row[t], a, p))
    /\ UNCHANGED <<mission, phase, handle, work, strikes, op>>

\* A control aborts the starts in flight.
StartsAborted == handle' = [m \in Members |-> IF handle[m] = "awaited" THEN "ending" ELSE handle[m]]

Pause ==
    /\ mission = "active"
    /\ mission' = "paused"
    /\ CommitAll([t \in Tasks |-> ControlFenced(row[t], "blocked")], FALSE)
    /\ StartsAborted
    /\ UNCHANGED <<phase, work, strikes, op>>

\* Also the owner's forced retry of every stop of an active mission.
ResumeMission ==
    /\ mission # "stopped"
    /\ mission' = "active"
    /\ CommitAll(row, TRUE)
    /\ UNCHANGED <<phase, handle, work, strikes, op>>

StopMission ==
    /\ mission # "stopped"
    /\ mission' = "stopped"
    /\ CommitAll([t \in Tasks |-> ControlFenced(row[t], "cancelled")], FALSE)
    /\ StartsAborted
    /\ UNCHANGED <<phase, work, strikes, op>>

\* A handle with no stop marker is stopped by the control or the retirement
\* itself; only a terminal mission ends the membership with it.
IdleStop(m) ==
    /\ mission # "active" \/ ~Live(m)
    /\ ~PendingStopOwner(m)
    /\ handle[m] # "down" \/ (mission = "stopped" /\ Live(m))
    /\ HandleDown(m)
    /\ phase' = [phase EXCEPT ![m] = IF mission = "stopped" THEN "stopped" ELSE @]
    /\ UNCHANGED <<mission, row, strikes, barrier>>

\* The process dies between two commits and a cold host recovers the store.
Restart ==
    LET recovered == [t \in Tasks |-> IF mission = "stopped" THEN row[t] ELSE RestartedRow(row[t])]
    IN  /\ row' = recovered
        /\ barrier' = [t \in Tasks |-> Poked("idle", recovered[t], FALSE)]
        /\ phase' = [m \in Members |-> IF mission = "stopped" THEN "stopped" ELSE phase[m]]
        /\ handle' = [m \in Members |-> "down"]
        /\ work' = [m \in Members |-> {}]
        /\ op' = None
        /\ UNCHANGED <<mission, strikes>>
-----------------------------------------------------------------------------
WorkerStep(m) ==
    \/ StartWorker(m)
    \/ StartWaits(m)
    \/ LateStart(m)
    \/ \E outage \in BOOLEAN : StartFails(m, outage)
    \/ HandleEnds(m)
    \/ HandleEnded(m)
    \/ Step(m)
    \/ EndTurn(m)
    \/ RouteRefused(m)
    \/ Wait(m)
    \/ IdleStop(m)
    \/ \E t \in Tasks :
         \/ Ceiling(m, t)
         \/ Renew(m, t)
         \/ ClaimBegin(m, t)
         \/ SubmitBegin(m, t)
         \/ DispatchBegin(m, t)
         \/ Nudge(m, t)
         \/ CloseOutBegin(m, t)
         \/ \E to \in Targets : Handoff(m, t, to)

\* The queue's operation settles.
FinishOp ==
    \/ SubmitFinish
    \/ CallRefused
    \/ Assign
    \/ \E transient \in BOOLEAN : PrepareFails(transient)
    \/ \E captured \in BOOLEAN : CloseOutFinish(captured)
    \/ ExpireFinish
    \/ Moot

BarrierStep(t) ==
    \/ SweepStop(t)
    \/ StopConfirmed(t)
    \/ StopFails(t)
    \/ CheckpointDone(t)
    \/ \E failure \in {"transient", "deterministic"} : CheckpointFails(t, failure)
    \/ Release(t)
    \/ ReleaseRefused(t)

RowStep(t) ==
    \/ LeaseRunsOut(t)
    \/ ExpireNow(t)
    \/ ExpireBegin(t)
    \/ Cancel(t)
    \/ \E credit \in Allowances : ResumeTask(t, credit) \/ SetAllowance(t, credit)
    \/ RetryCleanup(t)
    \/ \E a \in Targets : Amend(t, a, a)
    \/ Amend(t, row[t].assignee, row[t].planned)

Control == Pause \/ ResumeMission \/ StopMission \/ Restart

Next ==
    \/ \E m \in Members : WorkerStep(m)
    \/ FinishOp
    \/ \E t \in Tasks : BarrierStep(t) \/ RowStep(t)
    \/ Control

Spec == Init /\ [][Next]_vars
-----------------------------------------------------------------------------
(***************************************************************************)
(* Safety.                                                                 *)
(***************************************************************************)

\* A marker is at its row's epoch, or the stop it records is owed to nobody
\* (Attempts.fenceForStop, controlTask's epoch bump): a row carries an open
\* attempt or a stop marker, never both, at its own epoch, and only a blocked
\* or a cancelled row owes a stop.
StopNeverOrphaned ==
    \A t \in Tasks :
        /\ row[t].status = "running" => row[t].attempt # None
        /\ row[t].attempt # None =>
             /\ row[t].status \in {"running", "submitted"}
             /\ row[t].attempt.epoch = row[t].epoch
        /\ row[t].stop # None =>
             /\ StopPending(row[t])
             /\ row[t].attempt = None
             /\ row[t].status \in {"blocked", "cancelled"}

\* "A member with a pending stop cannot take another task" (docs/design.md), and
\* a member holds one open attempt at most (openAttempt, assertAdmission):
\* whatever fences, restarts and claims interleave, the rows a member holds open
\* or still owes a stop for are at most one.
MemberExclusive ==
    \A m \in Members : \A t, u \in Tasks :
        (OpenBy(row[t], m) \/ OwesStop(row[t], m)) /\ (OpenBy(row[u], m) \/ OwesStop(row[u], m))
            => t = u

\* A live turn executes only the attempt its member holds, or one whose stop it
\* still owes (beforeStep's step brake, Attempts.resumeStoppedAttempt).
HandleQuiescence ==
    \A m \in Members : \A x \in work[m] :
        \/ OpenBy(row[x[1]], m) /\ row[x[1]].epoch = x[2]
        \/ OwesStop(row[x[1]], m)

\* Two handles never work on one task, however its attempt changed hands.
OneHandlePerTask ==
    \A m, n \in Members : \A x \in work[m], y \in work[n] : x[1] = y[1] => m = n

\* A pause, a stop or a budget block lands outside the mission queue; a body that
\* was awaiting then assigns nothing more (Scheduling.activeBoard, SwarmRuntime.active).
NoWorkWhilePaused == mission # "active" => \A t \in Tasks : ~HoldsOpen(row[t])

\* An open attempt belongs to a member that is not retired and is its row's
\* assignee, which every path that retires or re-routes a member relies on to
\* find the work (onStartFailure, onRouteRefused, Scheduling.dispatch).
OwnerIsLiveAssignee ==
    \A t \in Tasks : HoldsOpen(row[t]) =>
        Live(row[t].attempt.owner) /\ row[t].assignee = row[t].attempt.owner

\* No work that the host gave up on returns to the board by itself: a pending or
\* running row has neither reached its ceiling nor failed its preparation for
\* good (stopOutcome, preparationFailure, controlTask).
NothingRunsBlocked ==
    \A t \in Tasks : row[t].status \in {"pending", "running"} =>
        BlockCauses(row[t]) \subseteq {"recovery-exhausted"}

\* Cancellation wins over queued or late results (docs/design.md; submit,
\* recoverExpired and the barrier's release all commit after an await).
CancelledIsFinal ==
    [][\A t \in Tasks : row[t].status = "cancelled" =>
        row'[t].status = "cancelled" /\ row'[t].attempt = None]_vars

\* A stop marker keeps its epoch and its member until the barrier releases it, and
\* the barrier releases it only while that member is in no turn, though a start that
\* was asked before the fence may have opened it a fresh handle behind the stop
\* (Attempts.fenceForStop, resumeStoppedAttempt, beforeStep, HarnessWorkers.start).
QuiescentRelease ==
    [][\A t \in Tasks : StopPending(row[t]) =>
        \/ /\ StopPending(row'[t])
           /\ row'[t].stop.member = row[t].stop.member
           /\ row'[t].epoch = row[t].epoch
        \/ /\ barrier[t] = "releasing"
           /\ handle[row[t].stop.member] # "busy"]_vars

\* "Worker is waiting for its previous attempt to stop" (Refusals.stopOwed): no handle
\* is there under a barrier that checkpoints.  It fails: the adapter does not ask again.
NoHandleUnderBarrier ==
    \A t \in Tasks : barrier[t] \in {"saving", "releasing"} => ~Up(row[t].stop.member)

\* Reviewer independence rests on it (dropAttempt, authorIdsOf): a row never
\* forgets a member that held one of its attempts.
OwnershipNeverForgotten ==
    [][\A t \in Tasks : Authors(row[t]) \subseteq Authors(row'[t])]_vars

\* Automatic recovery is bounded (stopOutcome, controlTask): a row with no credit
\* left that its lease or its close-out blocked is not pending again until the
\* owner raises its allowance.
ExhaustedStaysBlocked ==
    [][\A t \in Tasks :
        (/\ row[t].status = "blocked"
         /\ row[t].credit = 0
         /\ row[t].stop # None => row[t].stop.reason \in {"lease-expired", "worker-closeout"}
         /\ row'[t].status = "pending")
            => row'[t].credit > 0]_vars
-----------------------------------------------------------------------------
(***************************************************************************)
(* Liveness.  An adapter call that is made again for as long as it fails   *)
(* is answered in the end (the strong fairness); the queue's operation     *)
(* settles; the tick keeps sweeping.                                       *)
(***************************************************************************)

CloseOutStep(t) == \E m \in Members : Nudge(m, t) \/ CloseOutBegin(m, t)

Fairness ==
    /\ WF_vars(FinishOp)
    /\ \A t \in Tasks :
         /\ WF_vars(SweepStop(t))
         /\ SF_vars(StopConfirmed(t))
         /\ SF_vars(CheckpointDone(t))
         /\ SF_vars(Release(t))
         /\ SF_vars(ExpireNow(t) \/ ExpireBegin(t))
         /\ SF_vars(CloseOutStep(t))

FairSpec == Spec /\ Fairness

\* A stop owed is settled: a rejected stop is retried, a restart reconstructs it,
\* and only a recorded deterministic failure leaves it to the owner
\* (resumeStoppedAttempt, sweepDecisions, start).
StopSettles ==
    \A t \in Tasks :
        StopPending(row[t]) ~> (~StopPending(row[t]) \/ row[t].stop.failure = "deterministic")

\* A lapsed lease of an active mission is renewed by its worker or taken away
\* (recoverExpired), whatever else holds the mission queue.
LapsedLeaseRecovered ==
    \A t \in Tasks :
        (HoldsOpen(row[t]) /\ row[t].attempt.lapsed /\ mission = "active")
            ~> (~HoldsOpen(row[t]) \/ ~row[t].attempt.lapsed \/ mission # "active")

\* An attempt whose owner keeps ending its turn without a terminal call is closed
\* out (closeOutIdleAttempt): it is not held for ever and due for ever again, unless
\* the mission's owner keeps resuming the task, which restarts the count.
IdleAttemptClosedOut ==
    \A t \in Tasks : \A m \in Members :
        \/ []<><<\E c \in Allowances : ResumeTask(t, c)>>_vars
        \/ []<>~OpenBy(row[t], m)
        \/ <>[]~CloseOutDue(m, t)
=============================================================================
