-------------------------- MODULE AttemptsRefinement --------------------------
(***************************************************************************)
(* Attempts implements TaskOwnership.                                      *)
(***************************************************************************)
EXTENDS Attempts

OwnershipOf(r) ==
    IF HoldsOpen(r) THEN [state |-> "held", by |-> r.attempt.owner]
    ELSE IF StopPending(r) THEN [state |-> "draining", by |-> r.stop.member]
    ELSE IF r.status \in {"submitted", "cancelled"} THEN [state |-> "done"]
    ELSE [state |-> "free"]

own == [t \in Tasks |-> OwnershipOf(row[t])]

busy == [m \in Members |-> {x[1] : x \in work[m]}]

Ownership == INSTANCE TaskOwnership WITH own <- own, busy <- busy

\* Every step of the runtime is a step of the ownership protocol: a member takes
\* a task with empty hands, and a task leaves a member that no longer runs it.
ImplementsTaskOwnership == Ownership!Spec
=============================================================================
