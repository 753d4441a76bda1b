----------------------------- MODULE BudgetGate -----------------------------
(***************************************************************************)
(* The aggregate budget of src/gates.ts and the mission controls of        *)
(* src/runtime.ts: workers spend one pool, exhaustion blocks the mission   *)
(* under a budget pause that preserves the open attempts, a stop outside   *)
(* the mission queue quiesces every handle, and an extension of the owner  *)
(* lets the next scheduling body continue the preserved attempts.          *)
(*                                                                         *)
(* The pool is one dimension: tokens, steps and the deadline are tested    *)
(* together by the code.  A task whose stop a mission pause owes comes     *)
(* back to the board in one step here; module Attempts has that barrier.   *)
(***************************************************************************)
EXTENDS Integers, FiniteSets

CONSTANTS
    Members,     \* the mission's workers, each with one task
    Limit,       \* the pool at launch
    MaxLimit,    \* bound on what extensions raise the pool to
    MaxPauses,   \* bound on budget pauses
    MaxOwner,    \* bound on the owner's pauses, resumes and stops
    MaxFaults    \* bound on failed stops and restarts

ASSUME BudgetBounds ==
    /\ Members # {}
    /\ Limit \in Nat \ {0} /\ MaxLimit \in Nat /\ Limit <= MaxLimit
    /\ MaxPauses \in Nat \ {0} /\ MaxOwner \in Nat /\ MaxFaults \in Nat

VARIABLES
    status,      \* the mission's status
    pause,       \* mission.budgetPause; id 0 when there is none
    work,        \* each member's task
    by,          \* attempt.pausedBy, 0 when the attempt is not preserved
    handle,      \* each member's native handle
    req,         \* members with a model request in flight
    owed,        \* members whose session log holds usage the store has not seen
    stops,       \* the deferred stops in flight
    used,        \* what the pool has spent
    limit,       \* mission.budget
    stale,       \* history: handles whose activity precedes the current pause
    told,        \* history: mission/budget-quiesced events of each pause
    userPaused,  \* history: the owner paused and did not resume
    left         \* owner actions and faults left

vars == <<status, pause, work, by, handle, req, owed, stops, used, limit,
          stale, told, userPaused, left>>

NoPause == [id |-> 0, quiesced |-> FALSE, claim |-> "none"]
Pauses == 1..MaxPauses
NextPause == Cardinality({p \in Pauses : told[p] >= 0}) + 1

Terminal == status = "stopped"
Open(m) == work[m] = "running"
Exhausted == used >= limit
InFlight(m) == Cardinality(req \ {m})

Init ==
    /\ status = "active" /\ pause = NoPause
    /\ work = [m \in Members |-> "pending"]
    /\ by = [m \in Members |-> 0]
    /\ handle = [m \in Members |-> "down"]
    /\ req = {} /\ owed = {} /\ stops = {} /\ stale = {}
    /\ used = 0 /\ limit = Limit
    /\ told = [p \in Pauses |-> -1]
    /\ userPaused = FALSE
    /\ left = [owner |-> MaxOwner, faults |-> MaxFaults]

-----------------------------------------------------------------------------
(* The stop of a pause: the claim is durable before the first await, and   *)
(* every handle that is up is asked to stop in the same turn of the loop.  *)
BatchesOf(p) == {b \in stops : b.id = p}
StopBatch(p) == [id |-> p, todo |-> {m \in Members : handle[m] # "down"},
                 first |-> \A b \in BatchesOf(p) : ~b.first]
Stopping == [m \in Members |-> IF handle[m] = "down" THEN "down" ELSE "stopping"]

(* Mutant: only attempts no pause preserves yet are marked.                *)
MarkedUnmarked(m, p) == IF Open(m) /\ by[m] = 0 THEN p ELSE by[m]
Marked(m, p) == IF Open(m) THEN p ELSE 0

Blockable == ~Terminal /\ status # "blocked" /\ NextPause <= MaxPauses

BlockBudget ==
    LET p == NextPause IN
    /\ status' = "blocked"
    /\ pause' = [id |-> p, quiesced |-> FALSE, claim |-> "fresh"]
    /\ by' = [m \in Members |-> Marked(m, p)]
    /\ stops' = stops \cup {StopBatch(p)}
    /\ handle' = Stopping
    /\ stale' = {m \in Members : handle[m] # "down"}
    /\ told' = [told EXCEPT ![p] = 0]

Unblocked == UNCHANGED <<status, pause, by, stops, handle, stale, told>>

(* Usage reaches the mission row whatever its status, and blocks it when   *)
(* the pool is spent.                                                      *)
Spend(n) ==
    /\ used' = used + n
    /\ IF used + n >= limit /\ Blockable THEN BlockBudget ELSE Unblocked

-----------------------------------------------------------------------------
(* Dispatch and turns.                                                     *)
Dispatch(m) ==
    /\ status = "active" /\ pause.id = 0 /\ ~Exhausted
    /\ work[m] = "pending" /\ handle[m] \in {"down", "up"} /\ m \notin owed
    /\ work' = [work EXCEPT ![m] = "running"]
    /\ handle' = [handle EXCEPT ![m] = "turn"]
    /\ UNCHANGED <<status, pause, by, req, owed, stops, used, limit, stale, told,
                   userPaused, left>>

(* An activation reconciles the usage the session log holds and the store  *)
(* never saw.                                                              *)
Reconcile(m) ==
    /\ status = "active" /\ handle[m] = "down" /\ m \in owed
    /\ owed' = owed \ {m}
    /\ Spend(1)
    /\ UNCHANGED <<work, req, limit, userPaused, left>>

(* The step gate.  A step of a mission that is not active throws, one      *)
(* under a pause or owed a stop is refused: the turn ends either way.      *)
StepRefused(m) ==
    /\ handle[m] = "turn" /\ m \notin req
    /\ status # "active" \/ pause.id # 0 \/ work[m] = "fenced"
    /\ handle' = [handle EXCEPT ![m] = "up"]
    /\ UNCHANGED <<status, pause, work, by, req, owed, stops, used, limit, stale,
                   told, userPaused, left>>

Admits(m) == status = "active" /\ pause.id = 0 /\ work[m] = "running"

StepGranted(m) ==
    /\ handle[m] = "turn" /\ m \notin req /\ Admits(m)
    /\ used + InFlight(m) < limit
    /\ req' = req \cup {m}
    /\ UNCHANGED <<status, pause, work, by, handle, owed, stops, used, limit, stale,
                   told, userPaused, left>>

StepBlocks(m) ==
    /\ handle[m] = "turn" /\ m \notin req /\ Admits(m)
    /\ used + InFlight(m) >= limit /\ Blockable
    /\ BlockBudget
    /\ UNCHANGED <<work, req, owed, used, limit, userPaused, left>>

(* A request settles while its handle lives: a stop drains observations.   *)
Settle(m) ==
    /\ m \in req
    /\ req' = req \ {m}
    /\ Spend(1)
    /\ UNCHANGED <<work, owed, limit, userPaused, left>>

Submit(m) ==
    /\ handle[m] = "turn" /\ m \notin req /\ Admits(m)
    /\ work' = [work EXCEPT ![m] = "done"]
    /\ handle' = [handle EXCEPT ![m] = "up"]
    /\ UNCHANGED <<status, pause, by, req, owed, stops, used, limit, stale, told,
                   userPaused, left>>

-----------------------------------------------------------------------------
(* Stops settle handle by handle; a rejected one ends its batch early,     *)
(* while the other handles still stop.                                     *)
Drained(m) == m \notin req

Settled(m) == {[b EXCEPT !.todo = @ \ {m}] : b \in stops}

HandleDown(m) ==
    /\ handle[m] = "stopping" /\ Drained(m)
    /\ handle' = [handle EXCEPT ![m] = "down"]
    /\ stale' = stale \ {m}
    /\ stops' = Settled(m)
    /\ UNCHANGED <<status, pause, work, by, req, owed, used, limit, told, userPaused,
                   left>>

StopRejects(m) ==
    /\ handle[m] = "stopping" /\ Drained(m) /\ left.faults > 0
    /\ handle' = [handle EXCEPT ![m] = "down"]
    /\ stale' = stale \ {m}
    /\ stops' = {b \in stops : m \notin b.todo}
    /\ left' = [left EXCEPT !.faults = @ - 1]
    /\ UNCHANGED <<status, pause, work, by, req, owed, used, limit, told, userPaused>>

(* Mutant: the stop is taken as confirmed once it was asked for.           *)
ConfirmedEarly(b) == TRUE
Confirmed(b) == b.todo = {}

Awaited(b) == pause.id = b.id /\ ~pause.quiesced

Quiesced(b) ==
    /\ Confirmed(b)
    /\ stops' = stops \ {b}
    /\ IF Awaited(b)
       THEN /\ pause' = [pause EXCEPT !.quiesced = TRUE, !.claim = "none"]
            /\ told' = [told EXCEPT ![b.id] = @ + 1]
       ELSE UNCHANGED <<pause, told>>
    /\ UNCHANGED <<status, work, by, handle, req, owed, used, limit, stale,
                   userPaused, left>>

ClaimAges ==
    /\ pause.id # 0 /\ pause.claim = "fresh"
    /\ pause' = [pause EXCEPT !.claim = "aged"]
    /\ UNCHANGED <<status, work, by, handle, req, owed, stops, used, limit, stale,
                   told, userPaused, left>>

-----------------------------------------------------------------------------
(* The scheduling body's budget gate.                                      *)
Reclaimable == pause.claim # "fresh"

BeginStopAgain ==
    /\ status = "active" /\ pause.id # 0 /\ ~pause.quiesced /\ Reclaimable
    /\ Cardinality(BatchesOf(pause.id)) < 2          \* bound on stops at once
    /\ pause' = [pause EXCEPT !.claim = "fresh"]
    /\ stops' = stops \cup {StopBatch(pause.id)}
    /\ handle' = Stopping
    /\ UNCHANGED <<status, work, by, req, owed, used, limit, stale, told, userPaused,
                   left>>

Preserved(m) == Open(m) /\ by[m] = pause.id

ResumeTasks ==
    /\ status = "active" /\ pause.id # 0 /\ pause.quiesced
    /\ by' = [m \in Members |-> IF Preserved(m) THEN 0 ELSE by[m]]
    /\ handle' = [m \in Members |->
                    IF Preserved(m) /\ handle[m] \in {"down", "up"} THEN "turn"
                                                                   ELSE handle[m]]
    /\ pause' = NoPause
    /\ UNCHANGED <<status, work, req, owed, stops, used, limit, stale, told,
                   userPaused, left>>

ScheduleBlocks ==
    /\ status = "active" /\ pause.id = 0 /\ Exhausted /\ Blockable
    /\ BlockBudget
    /\ UNCHANGED <<work, req, owed, used, limit, userPaused, left>>

-----------------------------------------------------------------------------
(* The owner.                                                              *)
UpdateBudget ==
    /\ ~Terminal
    /\ \E n \in used..MaxLimit :
         /\ n # limit /\ n > 0
         /\ limit' = n
         /\ status' = IF status = "blocked" /\ pause.id # 0 /\ used < n THEN "active"
                                                                     ELSE status
    /\ UNCHANGED <<pause, work, by, handle, req, owed, stops, used, stale, told,
                   userPaused, left>>

Acting == left.owner > 0 /\ left' = [left EXCEPT !.owner = @ - 1]

(* A pause fences the open attempts and stops each handle through its own  *)
(* barrier; the preservation of a fenced attempt goes with the attempt.    *)
FencedBy == by' = [m \in Members |-> 0]

Pause ==
    /\ status \notin {"stopped", "paused"} /\ Acting
    /\ status' = "paused" /\ userPaused' = TRUE
    /\ work' = [m \in Members |-> IF Open(m) THEN "fenced" ELSE work[m]]
    /\ FencedBy
    /\ handle' = Stopping
    /\ UNCHANGED <<pause, req, owed, stops, used, limit, stale, told>>

Resume ==
    /\ status \in {"paused", "blocked"} /\ ~Exhausted /\ Acting
    /\ status' = "active" /\ userPaused' = FALSE
    /\ UNCHANGED <<pause, work, by, handle, req, owed, stops, used, limit, stale, told>>

Stop ==
    /\ ~Terminal /\ Acting
    /\ status' = "stopped" /\ pause' = NoPause
    /\ work' = [m \in Members |-> IF work[m] = "done" THEN "done" ELSE "fenced"]
    /\ FencedBy
    /\ handle' = Stopping
    /\ UNCHANGED <<req, owed, stops, used, limit, stale, told, userPaused>>

(* The barrier of a fenced task, once its handle stopped.                  *)
BarrierDone(m) ==
    /\ work[m] = "fenced" /\ handle[m] = "down" /\ ~Terminal
    /\ work' = [work EXCEPT ![m] = "pending"]
    /\ UNCHANGED <<status, pause, by, handle, req, owed, stops, used, limit, stale,
                   told, userPaused, left>>

(* A restart: no handle survives, running work returns to the board, and a *)
(* pause is quiesced by the death of its handles.                          *)
Restart ==
    /\ ~Terminal /\ left.faults > 0
    /\ left' = [left EXCEPT !.faults = @ - 1]
    /\ handle' = [m \in Members |-> "down"]
    /\ stops' = {} /\ stale' = {} /\ req' = {}
    /\ \E kept \in SUBSET req : owed' = owed \cup kept
    /\ pause' = IF pause.id = 0 THEN pause ELSE [pause EXCEPT !.quiesced = TRUE]
    /\ work' = [m \in Members |-> IF Open(m) THEN "pending" ELSE work[m]]
    /\ by' = [m \in Members |-> 0]
    /\ UNCHANGED <<status, used, limit, told, userPaused>>

-----------------------------------------------------------------------------
Worker(m) ==
    \/ Dispatch(m) \/ Reconcile(m) \/ StepRefused(m) \/ StepGranted(m)
    \/ StepBlocks(m) \/ Settle(m) \/ Submit(m) \/ BarrierDone(m)

Schedule == BeginStopAgain \/ ResumeTasks \/ ScheduleBlocks
Owner == UpdateBudget \/ Pause \/ Resume \/ Stop

Next ==
    \/ \E m \in Members : Worker(m) \/ HandleDown(m) \/ StopRejects(m)
    \/ \E b \in stops : Quiesced(b)
    \/ Schedule \/ Owner
    \/ ClaimAges \/ Restart

Spec == Init /\ [][Next]_vars

(* A stop settles or rejects, requests settle, a claim grows past the pass *)
(* bound and ticks kick the body.                                          *)
FairSpec ==
    /\ Spec
    /\ \A m \in Members : WF_vars(HandleDown(m)) /\ WF_vars(Settle(m))
    /\ WF_vars(\E b \in stops : Quiesced(b))
    /\ WF_vars(ClaimAges) /\ WF_vars(BeginStopAgain) /\ WF_vars(ResumeTasks)

-----------------------------------------------------------------------------
TypeOK ==
    /\ status \in {"active", "paused", "blocked", "stopped"}
    /\ pause \in [id : 0..MaxPauses, quiesced : BOOLEAN, claim : {"none", "fresh", "aged"}]
    /\ work \in [Members -> {"pending", "running", "fenced", "done"}]
    /\ by \in [Members -> 0..MaxPauses]
    /\ handle \in [Members -> {"down", "up", "turn", "stopping"}]
    /\ req \subseteq {m \in Members : handle[m] \in {"turn", "stopping"}}
    /\ owed \subseteq Members /\ stale \subseteq Members
    /\ \A b \in stops : b.id \in Pauses /\ b.todo \subseteq Members
    /\ used \in Nat /\ limit \in 1..MaxLimit
    /\ told \in [Pauses -> Nat \cup {-1}]
    /\ userPaused \in BOOLEAN

(* An attempt a pause preserved names the pause the mission row still      *)
(* holds, so the resume that deletes the row misses none: a second         *)
(* exhaustion, an owner's pause and a restart all stand in between.        *)
PreservedByCurrentPause ==
    \A m \in Members : by[m] # 0 => by[m] = pause.id /\ Open(m)

(* "The previous worker activity has fully stopped" when a preserved       *)
(* attempt is handed on: nothing its owner's handle began before the pause *)
(* is still running.                                                       *)
ResumedAfterQuiet ==
    [][\A m \in Members : by[m] # 0 /\ by'[m] = 0 /\ work'[m] = "running"
                            => m \notin stale]_vars

(* A pause is recorded as quiesced at most once, however many stops were   *)
(* claimed for it.                                                         *)
QuiescedOnce == \A p \in Pauses : told[p] <= 1

(* Usage that arrives after the owner stopped the mission does not bring   *)
(* it back as a blocked one an extension could continue.                   *)
StopIsFinal == [][status = "stopped" => status' = "stopped"]_vars

(* An extended mission leaves its pause: the stop is confirmed or claimed  *)
(* again, and the body continues the preserved attempts.                   *)
PauseEnds == (status = "active" /\ pause.id # 0) ~> (pause.id = 0 \/ status # "active")

(* "An extension never overrides a user pause" (src/gates.ts, the warning  *)
(* sent to the owner): a mission the owner paused is not active until the  *)
(* owner resumes it.                                                       *)
UserPauseKept == userPaused => status # "active"
=============================================================================
