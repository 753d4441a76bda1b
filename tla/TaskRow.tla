------------------------------- MODULE TaskRow -------------------------------
(***************************************************************************)
(* One task row of a mission and the writes the runtime makes to it.       *)
(*                                                                         *)
(* A row is a pure value here: every operator takes the row a commit reads *)
(* and returns the row that commit writes.  The modules that own the board *)
(* decide when a write happens; this one says what it leaves behind.  The  *)
(* rows are those of an unpinned, unreviewed task without dependencies:    *)
(* review, lineage and budget fields belong to other modules.              *)
(***************************************************************************)
EXTENDS Naturals

CONSTANTS
    Members,           \* the members a mission may hand work to
    None,              \* the absent value of an optional field
    MaxRecovery,       \* the largest recovery allowance a row may have left
    MaxIdleCloseouts,  \* config.maxIdleCloseouts: nudges before a close-out
    PrepareLimit       \* preparation failures after which a row blocks

ASSUME RowConstants ==
    /\ MaxRecovery \in Nat \ {0}
    /\ MaxIdleCloseouts \in Nat
    /\ PrepareLimit \in Nat \ {0}

Statuses == {"pending", "running", "submitted", "blocked", "cancelled"}

Reasons == {"handoff", "lease-expired", "worker-closeout", "resource", "invalidated"}

\* The last failure of a stop, as its marker records it.
Failures == {"none", "transient", "deterministic"}

\* The epoch an attempt was minted at is its identity (the code's fresh id).
Attempt == [epoch: Nat, owner: Members, lapsed: BOOLEAN, ended: BOOLEAN,
            nudges: 0 .. MaxIdleCloseouts]

\* The durable stop marker: task.resumeAfterStop.
Stop == [epoch: Nat, member: Members, reason: Reasons, failure: Failures]

\* credit is what is left of the recovery allowance (0 also when overspent); prep
\* counts preparation failures, PrepareLimit being the one that blocked the row.
Row == [status: Statuses, epoch: Nat, attempt: Attempt \cup {None},
        stop: Stop \cup {None}, assignee: Members \cup {None},
        planned: Members \cup {None}, prior: SUBSET Members,
        credit: 0 .. MaxRecovery, prep: 0 .. PrepareLimit, ceiling: BOOLEAN]

ASSUME NoneIsNoValue == None \notin Members \cup Attempt \cup Stop

\* A row as a plan or a proposal admits it.
NewRow(m) ==
    [status |-> "pending", epoch |-> 0, attempt |-> None, stop |-> None,
     assignee |-> m, planned |-> m, prior |-> {}, credit |-> MaxRecovery,
     prep |-> 0, ceiling |-> FALSE]
-----------------------------------------------------------------------------
(***************************************************************************)
(* Questions asked of a row.                                               *)
(***************************************************************************)

HoldsOpen(r) == r.status = "running" /\ r.attempt # None

HoldsAttempt(r, e) == HoldsOpen(r) /\ r.attempt.epoch = e

StopPending(r) == r.stop # None /\ r.stop.epoch = r.epoch

OpenBy(r, m) == HoldsOpen(r) /\ r.attempt.owner = m

OwesStop(r, m) == StopPending(r) /\ r.stop.member = m

\* An unpinned row is bound to its assignee, if it has one.
Ready(r, m) == r.status = "pending" /\ r.assignee \in {None, m}

SameChoice(r, e, a, p) == r.epoch = e /\ r.assignee = a /\ r.planned = p

\* Who ever held an attempt of the row (authorIdsOf adds the present assignee).
Authors(r) == r.prior \cup (IF r.attempt = None THEN {} ELSE {r.attempt.owner})

BlockCauses(r) ==
    {c \in {"task-ceiling", "preparation-failed", "recovery-exhausted"} :
        \/ c = "task-ceiling" /\ r.ceiling
        \/ c = "preparation-failed" /\ r.prep = PrepareLimit
        \/ c = "recovery-exhausted" /\ r.credit = 0}

\* Mutant: a lease expiry is taken for a stop of the host's own.
RecoveryLimitExemptsExpiry(reason) == reason # "worker-closeout"

RecoveryLimitExempt(reason) == reason \in {"resource", "handoff", "invalidated"}

\* Where a confirmed stop lands a row that is not terminal.
StopOutcome(causes, reason) ==
    IF \/ reason = "invalidated"
       \/ "recovery-exhausted" \in causes /\ ~RecoveryLimitExempt(reason)
       \/ causes \ {"recovery-exhausted"} # {}
    THEN "blocked" ELSE "pending"
-----------------------------------------------------------------------------
(***************************************************************************)
(* Ending an attempt.                                                      *)
(***************************************************************************)

DropAttempt(r) ==
    IF r.attempt = None THEN r
    ELSE [r EXCEPT !.attempt = None, !.prior = @ \cup {r.attempt.owner}]

EndAttempt(r) == [DropAttempt(r) EXCEPT !.epoch = @ + 1]

\* Mutant: a cancelled row owes no stop.
FenceForStopUnlessCancelled(r, status, reason) ==
    [EndAttempt(r) EXCEPT
        !.status = status,
        !.stop = IF HoldsOpen(r) /\ status # "cancelled"
                 THEN [epoch |-> r.epoch + 1, member |-> r.attempt.owner,
                       reason |-> reason, failure |-> "none"]
                 ELSE @]

\* A stop already owed keeps its epoch, its owner and its reason, except that
\* an invalidation replaces the reason.
FenceForStop(r, status, reason) ==
    IF StopPending(r)
    THEN [DropAttempt(r) EXCEPT
            !.status = status,
            !.stop.reason = IF reason = "invalidated" THEN reason ELSE @]
    ELSE [EndAttempt(r) EXCEPT
            !.status = status,
            !.stop = IF HoldsOpen(r)
                     THEN [epoch |-> r.epoch + 1, member |-> r.attempt.owner,
                           reason |-> reason, failure |-> "none"]
                     ELSE @]

\* The barrier's release: the marker leaves with the row's next status.
Released(r, ownerStopped) ==
    [r EXCEPT
        !.stop = None,
        !.assignee = IF r.stop.reason = "worker-closeout" /\ ownerStopped
                     THEN None ELSE @,
        !.status = IF @ = "cancelled" THEN @
                   ELSE StopOutcome(BlockCauses(r), r.stop.reason)]

StopFailed(r, failure) == [r EXCEPT !.stop.failure = failure]
-----------------------------------------------------------------------------
(***************************************************************************)
(* The writes of the runtime's operations.                                 *)
(***************************************************************************)

Assigned(r, m) ==
    [r EXCEPT !.status = "running", !.epoch = @ + 1, !.assignee = m,
              !.attempt = [epoch |-> r.epoch + 1, owner |-> m, lapsed |-> FALSE,
                           ended |-> FALSE, nudges |-> 0]]

\* Only a transient failure below the limit leaves the row pending.
PreparationFailure(r, transient) ==
    LET retry == transient /\ r.prep + 1 < PrepareLimit
    IN  [r EXCEPT !.prep = IF retry THEN @ + 1 ELSE PrepareLimit,
                  !.epoch = @ + 1,
                  !.status = IF retry THEN "pending" ELSE "blocked"]

HandedOff(r, to) ==
    FenceForStop([r EXCEPT !.assignee = to, !.planned = IF to = None THEN @ ELSE to],
                 "blocked", "handoff")

CeilingBlocked(r) == FenceForStop([r EXCEPT !.ceiling = TRUE], "blocked", "resource")

\* Mutant: nudges are not counted.
NudgedUncounted(r) == r

Nudged(r) == [r EXCEPT !.attempt.nudges = @ + 1]

Spent(credit) == IF credit = 0 THEN 0 ELSE credit - 1

ClosedOut(r, m) ==
    FenceForStop([r EXCEPT !.credit = Spent(@), !.assignee = m,
                           !.planned = IF @ = None THEN m ELSE @],
                 "blocked", "worker-closeout")

CloseOutFailed(r) == FenceForStop(r, "blocked", "invalidated")

\* A parked owner's lease is the host's to lose: it spends no credit.
Expired(r, parked, liveMembers) ==
    FenceForStop([r EXCEPT !.credit = IF parked THEN @ ELSE Spent(@),
                           !.assignee = IF r.planned \in liveMembers THEN r.planned ELSE None],
                 "blocked", "lease-expired")

RouteRefusedRow(r, m) ==
    IF OpenBy(r, m) THEN FenceForStop([r EXCEPT !.assignee = None], "blocked", "handoff")
    ELSE IF r.status = "pending" /\ r.assignee = m THEN [r EXCEPT !.assignee = None]
    ELSE r

\* A failed start re-pends the member's work with its allowance intact.
StartFailedRow(r, target) ==
    [(IF r.attempt = None THEN r ELSE EndAttempt(r)) EXCEPT
        !.status = "pending", !.assignee = target]

ControlFenced(r, status) ==
    IF r.status = "running" \/ StopPending(r)
    THEN FenceForStop(r, IF r.status = "cancelled" THEN "cancelled" ELSE status, "handoff")
    ELSE r

\* What every resume of a task clears, and the credit an owner may set with it.
ResumeCleared(r, credit) ==
    [r EXCEPT !.ceiling = FALSE, !.prep = 0, !.credit = credit,
              !.attempt = IF @ = None THEN @ ELSE [r.attempt EXCEPT !.nudges = 0],
              !.stop = IF StopPending(r) /\ r.status = "blocked" /\ r.stop.reason = "invalidated"
                       THEN [r.stop EXCEPT !.reason = "handoff"] ELSE @,
              !.status = IF @ = "blocked" /\ ~StopPending(r) THEN "pending" ELSE @]

\* A raised allowance resumes blocked work; any other one is only recorded.
AllowanceSet(r, credit) ==
    IF r.status = "blocked" /\ credit > 0 THEN ResumeCleared(r, credit)
    ELSE [r EXCEPT !.credit = credit]

\* Mutant: a stop already owed does not keep the row at its epoch.
AmendedAlwaysMoves(r, a, p) ==
    LET next == [(IF r.status = "blocked" THEN ResumeCleared(r, r.credit) ELSE r)
                    EXCEPT !.assignee = a, !.planned = p]
    IN  IF HoldsOpen(r) THEN FenceForStop(next, "blocked", "handoff")
        ELSE [next EXCEPT !.epoch = @ + 1]

\* A structural amendment: running work is fenced, a stop already owed is left
\* to its barrier, anything else moves to a new epoch; blocked work resumes.
Amended(r, a, p) ==
    LET next == [(IF r.status = "blocked" THEN ResumeCleared(r, r.credit) ELSE r)
                    EXCEPT !.assignee = a, !.planned = p]
    IN  IF HoldsOpen(r) THEN FenceForStop(next, "blocked", "handoff")
        ELSE IF StopPending(r) THEN next
        ELSE [next EXCEPT !.epoch = @ + 1]

\* A cold host re-pends running work: the process that ran it is gone.
RestartedRow(r) ==
    IF r.status = "running" /\ ~StopPending(r)
    THEN [EndAttempt(r) EXCEPT !.status = "pending"]
    ELSE r
=============================================================================
