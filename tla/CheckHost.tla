------------------------------ MODULE CheckHost ------------------------------
(***************************************************************************)
(* How one host runs the declared checks of artifacts: the disposable      *)
(* checkout of each run, the semaphore over the runs, and the cleanup that *)
(* also reclaims what earlier processes left (Workspaces.verifyArtifact).  *)
(*                                                                         *)
(* A member has one run at a time, named by its number.  A command is only *)
(* whether it succeeded; a run stops at the first that did not.            *)
(***************************************************************************)
EXTENDS Naturals, FiniteSets, SequencesExt

CONSTANTS
    Members,
    Limit,      \* checkConcurrency
    Commands,   \* how many checks the source declares; 0 is a source without any
    MaxRuns,    \* bound: runs of one member
    MaxCrashes  \* bound: restarts of the process

ASSUME CheckHostConstants ==
    /\ Limit \in Nat \ {0}
    /\ {Commands, MaxRuns, MaxCrashes} \subseteq Nat

VARIABLES
    run,      \* per member, its run
    active,   \* the semaphore's count
    waiters,  \* the members queued for a slot, oldest first
    owned,    \* the checkouts this process holds (verificationCheckouts)
    disk,     \* the checkouts that exist
    crashes

hostVars == <<run, active, waiters, owned, disk, crashes>>

Phases == {"idle", "validate", "own", "prepare", "acquire", "queued", "handed", "running", "remove", "sweep"}

Checkouts == Members \X (1 .. MaxRuns)

Idle(n) == [phase |-> "idle", n |-> n, done |-> 0, aborted |-> FALSE]

HostInit ==
    /\ run = [m \in Members |-> Idle(0)]
    /\ active = 0 /\ waiters = <<>>
    /\ owned = {} /\ disk = {} /\ crashes = 0

HostTypeOK ==
    /\ run \in [Members -> [phase : Phases, n : 0 .. MaxRuns, done : 0 .. Commands, aborted : BOOLEAN]]
    /\ active \in 0 .. Limit
    /\ waiters \in Seq(Members) /\ IsInjective(waiters)
    /\ owned \subseteq Checkouts /\ disk \subseteq Checkouts
    /\ crashes \in 0 .. MaxCrashes
-----------------------------------------------------------------------------
Checkout(m) == <<m, run[m].n>>

Goto(m, phase) == run' = [run EXCEPT ![m].phase = phase]

Finish(m) == run' = [run EXCEPT ![m] = Idle(@.n)]

Begin(m) ==
    /\ run[m].phase = "idle" /\ run[m].n < MaxRuns
    /\ run' = [run EXCEPT ![m] = [Idle(@.n + 1) EXCEPT !.phase = "validate"]]
    /\ UNCHANGED <<active, waiters, owned, disk, crashes>>

\* The artifact is proved first.  A refusal, a cancellation and the host's own git
\* deadline end the run here, and a source without checks is done.
Validate(m) ==
    /\ run[m].phase = "validate"
    /\ \/ Finish(m)
       \/ ~run[m].aborted /\ Commands # 0 /\ Goto(m, "own")
    /\ UNCHANGED <<active, waiters, owned, disk, crashes>>

\* The checkout is this process's before git makes it.
Own(m) ==
    /\ run[m].phase = "own"
    /\ owned' = owned \cup {Checkout(m)}
    /\ Goto(m, "prepare")
    /\ UNCHANGED <<active, waiters, disk, crashes>>

\* git worktree add and the dependency directories.  Where they fail, or the run
\* was cancelled, the checkout may be there in part and no command has run.
Prepare(m) ==
    /\ run[m].phase = "prepare"
    /\ \/ /\ disk' = disk \cup {Checkout(m)}
          /\ Goto(m, IF run[m].aborted THEN "remove" ELSE "acquire")
       \/ /\ disk' \in {disk, disk \cup {Checkout(m)}}
          /\ Goto(m, "remove")
    /\ UNCHANGED <<active, waiters, owned, crashes>>

\* A free slot is taken in the same turn; otherwise the run queues.
Acquire(m) ==
    /\ run[m].phase = "acquire"
    /\ IF run[m].aborted THEN Goto(m, "remove") /\ UNCHANGED <<active, waiters>>
       ELSE IF active < Limit
            THEN active' = active + 1 /\ Goto(m, "handed") /\ UNCHANGED waiters
            ELSE waiters' = Append(waiters, m) /\ Goto(m, "queued") /\ UNCHANGED active
    /\ UNCHANGED <<owned, disk, crashes>>

\* The slot's holder goes on in a later turn than the release that handed it over.
Resume(m) ==
    /\ run[m].phase = "handed"
    /\ Goto(m, "running")
    /\ UNCHANGED <<active, waiters, owned, disk, crashes>>

\* A released slot goes to the oldest waiter, or is freed.
Release(runs) ==
    IF waiters = <<>>
    THEN active' = active - 1 /\ run' = runs /\ UNCHANGED waiters
    ELSE /\ run' = [runs EXCEPT ![Head(waiters)].phase = "handed"]
         /\ waiters' = Tail(waiters)
         /\ UNCHANGED active

\* One command ends, at its deadline at the latest.  The run is over with the last,
\* the first that fails, or a cancellation; then it gives its slot back.
Command(m) ==
    /\ run[m].phase = "running"
    /\ \E ok \in BOOLEAN :
        LET over == ~ok \/ run[m].aborted \/ run[m].done + 1 = Commands
        IN  IF over THEN Release([run EXCEPT ![m].phase = "remove"])
            ELSE run' = [run EXCEPT ![m].done = @ + 1] /\ UNCHANGED <<active, waiters>>
    /\ UNCHANGED <<owned, disk, crashes>>

\* Mutant: an aborted waiter stays in the queue.
AbortInQueue(m) ==
    /\ run[m].phase # "idle" /\ ~run[m].aborted
    /\ run' = [run EXCEPT ![m].aborted = TRUE, ![m].phase = IF @ = "queued" THEN "remove" ELSE @]
    /\ UNCHANGED <<active, waiters, owned, disk, crashes>>

\* The caller's signal, or a stop of the member (cancel): a waiter leaves the queue
\* at once; one the slot was already handed to gives it back when it resumes.
Abort(m) ==
    /\ run[m].phase # "idle" /\ ~run[m].aborted
    /\ run' = [run EXCEPT ![m].aborted = TRUE, ![m].phase = IF @ = "queued" THEN "remove" ELSE @]
    /\ waiters' = RemoveFirst(waiters, m)
    /\ UNCHANGED <<active, owned, disk, crashes>>

\* The run's own checkout is removed, or resists.
RemoveOwn(m) ==
    /\ run[m].phase = "remove"
    /\ disk' \in {disk, disk \ {Checkout(m)}}
    /\ Goto(m, "sweep")
    /\ UNCHANGED <<active, waiters, owned, crashes>>

\* Every checkout no run of this process owns is a leftover; it may resist again.
Sweep(m) ==
    /\ run[m].phase = "sweep"
    /\ disk' \in {disk, disk \cap owned}
    /\ owned' = owned \ {Checkout(m)}
    /\ Finish(m)
    /\ UNCHANGED <<active, waiters, crashes>>

\* The process is lost; only the checkouts on disk stay.
Crash ==
    /\ crashes < MaxCrashes
    /\ crashes' = crashes + 1
    /\ run' = [m \in Members |-> Idle(run[m].n)]
    /\ active' = 0 /\ waiters' = <<>> /\ owned' = {}
    /\ UNCHANGED disk

Advance(m) ==
    \/ Validate(m) \/ Own(m) \/ Prepare(m) \/ Acquire(m) \/ Resume(m)
    \/ Command(m) \/ RemoveOwn(m) \/ Sweep(m)

HostNext == Crash \/ \E m \in Members : Begin(m) \/ Abort(m) \/ Advance(m)

HostSpec == HostInit /\ [][HostNext]_hostVars

\* Every await of a run but the semaphore's has a deadline of the host's.
HostFairSpec == HostSpec /\ \A m \in Members : WF_hostVars(Advance(m))
-----------------------------------------------------------------------------
\* The semaphore counts exactly the runs that hold a slot, and none waits while one
\* is free: no abort, hand-over or crash loses a slot (CheckSemaphore).
SlotsAccounted ==
    /\ active = Cardinality({m \in Members : run[m].phase \in {"handed", "running"}})
    /\ waiters # <<>> => active = Limit
    /\ ToSet(waiters) = {m \in Members : run[m].phase = "queued"}

\* What a run's commands need is there until the run removes it: no sweep of another
\* run takes a checkout in use for a leftover (cleanupVerification).
CheckoutStands ==
    \A m \in Members : run[m].phase \in {"acquire", "queued", "handed", "running"} => Checkout(m) \in disk

\* Every run ends: the queue is served, whoever fails or is aborted in it.
RunsEnd == \A m \in Members : run[m].phase # "idle" ~> run[m].phase = "idle"
=============================================================================
