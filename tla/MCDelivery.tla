---------------------------- MODULE MCDelivery -----------------------------
(***************************************************************************)
(* Work on disk for TLC, one part of it in each behaviour: what attempts    *)
(* leave for the next one, with a crash, an amended basis or a review of   *)
(* another source (Checkpoints), the check host's slots and checkouts      *)
(* (CheckHost), the verdict of a task's declared checks (DeclaredChecks),  *)
(* the application of a delivery to the owner's checkout, in which it      *)
(* removes or adds a file (DeliveryApply), and the lock around it          *)
(* (ApplyLock).                                                            *)
(***************************************************************************)
EXTENDS CheckHost, TLC

CONSTANTS
    None, e1, e2, h1, h2,  \* environments and hosts
    w1, w2, t1, t2, d1, v1,  \* members, tasks, and what tasks build on
    Checks,                \* how many checks the source of a verdict declares
    Failures,              \* bound: how a command of them fails
    MaxVerifications, MaxAttempts, MaxRestarts,  \* bounds of a verdict's behaviour
    Files,                 \* how many files a delivery changes
    Epochs,                \* bound: the attempts of a task
    Documented,            \* whether what an interrupted attempt left is owed at any rate
    MaxSaves, MaxApplications, MaxDeaths  \* bounds of its applications and of the lock's hosts

VARIABLES
    part,  \* the part this behaviour is about
    attempt, mail, calls, rows, verdict, restarts,
    diff, file, backup, aside, copies, receipt, app, applied, fresh, edits, alive, touched, before, left,
    lock, host, pid, runs, deaths,
    spaces, row, basis, writing, made, owed, loose, torn, reviews, changes

checkVars == <<attempt, mail, calls, rows, verdict, restarts>>
applyVars == <<diff, file, backup, aside, copies, receipt, app, applied, fresh, edits, alive, touched, before, left>>
lockVars == <<lock, host, pid, runs, deaths>>
workVars == <<spaces, row, basis, writing, made, owed, loose, torn, reviews, changes>>

Declared == INSTANCE DeclaredChecks WITH
    crashes <- restarts, Commands <- Checks, Envs <- {e1, e2}, Declared <- e1,
    MaxCalls <- MaxVerifications, MaxCrashes <- MaxRestarts

Applying == INSTANCE DeliveryApply WITH
    NP <- Files, MaxEdits <- MaxSaves, MaxApplies <- MaxApplications, MaxCrashes <- MaxDeaths,
    OpenEditors <- FALSE

\* A host that loses the lock it is about to own and applies again is the overlap the
\* README tells of: each host applies once.
Locked == INSTANCE ApplyLock WITH
    left <- deaths, Hosts <- {h1, h2}, Births <- TRUE, MaxCrashes <- MaxDeaths, MaxRuns <- 1, Retries <- 3

\* Work on one task, and a second one to leave it for.
Preserving == INSTANCE Checkpoints WITH
    disk <- spaces, edits <- made, left <- changes,
    Members <- {w1, w2}, Tasks <- {t1, t2},
    Bases <- {d1, v1}, First <- (t1 :> {d1}) @@ (t2 :> {}), MaxEdits <- 2,
    MaxEpoch <- (t1 :> Epochs) @@ (t2 :> 1), MaxAmends <- 1, MaxCrashes <- 1,
    Documented <- Documented

\* Work handed on and taken up again, with a crash after any write; a change of what it builds on; and a
\* review whose source is submitted again.
Scenario == [
    interrupted |-> [reviews |-> {}, changes |-> [edits |-> 2, amends |-> 0, crashes |-> 1]],
    amended |-> [reviews |-> {}, changes |-> [edits |-> 1, amends |-> 1, crashes |-> 0]],
    revised |-> [reviews |-> {t1}, changes |-> [edits |-> 2, amends |-> 1, crashes |-> 0]],
    carried |-> [reviews |-> {}, changes |-> [edits |-> 1, amends |-> 0, crashes |-> 0]]]

Preserved == {"interrupted", "amended", "revised"}

ASSUME WorkBounds == Preserving!CheckpointsBounds
ASSUME VerdictBounds == Declared!DeclaredChecksConstants
ASSUME ApplyingBounds == Applying!ApplyBounds
ASSUME LockingBounds == Locked!LockBounds

WorkInit(p) ==
    /\ Preserving!Init
    /\ reviews = Scenario[p].reviews
    /\ changes = Scenario[p].changes

DeliveryInit ==
    /\ part \in Preserved \cup {"host", "verdict", "apply", "lock"}
    /\ HostInit /\ Declared!Init /\ Locked!Init /\ Applying!Init
    /\ diff.added \cup diff.removed \subseteq IF part = "apply" THEN {Files} ELSE {}
    /\ WorkInit(IF part \in Preserved THEN part ELSE "carried")

DeliveryNext ==
    \/ part \in Preserved /\ Preserving!Next /\ UNCHANGED <<part, hostVars, checkVars, applyVars, lockVars>>
    \/ part = "host" /\ HostNext /\ UNCHANGED <<part, checkVars, applyVars, lockVars, workVars>>
    \/ part = "verdict" /\ Declared!Next /\ UNCHANGED <<part, hostVars, applyVars, lockVars, workVars>>
    \/ part = "apply" /\ Applying!Next /\ UNCHANGED <<part, hostVars, checkVars, lockVars, workVars>>
    \/ part = "lock" /\ Locked!Next /\ UNCHANGED <<part, hostVars, checkVars, applyVars, workVars>>

DeliverySpec == DeliveryInit /\ [][DeliveryNext]_<<part, hostVars, checkVars, applyVars, lockVars, workVars>>

\* The work of one task alone, for the run of WorkIsCarried.
CarriedSpec ==
    /\ part = "carried" /\ HostInit /\ Declared!Init /\ Locked!Init /\ Applying!Init
    /\ diff = [added |-> {}, removed |-> {}] /\ WorkInit(part)
    /\ [][Preserving!Next /\ UNCHANGED <<part, hostVars, checkVars, applyVars, lockVars>>]_workVars

\* The members that share the work are alike.
Symmetry == Permutations({w1, w2})
-----------------------------------------------------------------------------
\* Through stops, failed starts, hand-overs and reworks with a crash after any one write, or
\* with amended dependencies or a source submitted again and no crash, an attempt starts from
\* what its task's attempts left, on its present basis and nothing else, and no member is left
\* that can prepare nothing. A crash between a checkout and the second record of it costs
\* this to one task at most, the one left or the one prepared, and never to another; and no
\* edit is ever outside every worktree and ref (prepareTask, recoverTask, preserveWorkspace,
\* saveTaskWorkspace).
StartsFromItsWork ==
    part \in Preserved => Preserving!StartsFromItsWork /\ Preserving!NothingLost /\ Preserving!NeverStranded

\* A verdict rests on a pass of this attempt that judged every declared check in the
\* declared environment, and its one assignment is owed (verify, judgeChecks).
VerdictFounded == part = "verdict" => Declared!VerdictFounded /\ Declared!OneAssignmentOwed

\* What the owner wrote to the checkout is in it, or in a copy beside it, whatever failed
\* or died; an application that failed restored what it replaced (publish, rollback); and
\* one application runs per checkout at a time (docs/operations.md, acquire).
EditsSurvive ==
    /\ part = "apply" =>
        Applying!EditsSurvive /\ Applying!FailureRestores /\ Applying!SuccessIsWhole
    /\ part = "lock" => Locked!OneApplier

\* "A record of a later epoch is an attempt that did not end in a capture (a restart, a
\* failed start, ...), whose quiescent partial work it carries" (recoverTask): whatever the
\* record says, the next attempt starts from what the last one left.
WorkIsCarried == part = "carried" => Preserving!StartsFromItsWork
=============================================================================
