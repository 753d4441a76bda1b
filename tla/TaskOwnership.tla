---------------------------- MODULE TaskOwnership ----------------------------
(***************************************************************************)
(* What the attempt machinery promises: a task is free, held by a member,  *)
(* draining (taken from a member that may still be executing it), or done; *)
(* a member with a held or draining task takes no other; and a task leaves *)
(* a member only when that member has stopped executing it.                *)
(***************************************************************************)
CONSTANTS Tasks, Members

VARIABLES
    own,   \* per task, [state, by]: who has it and how
    busy   \* per member, the tasks its process is executing

vars == <<own, busy>>

Free == [state |-> "free"]
Done == [state |-> "done"]
Held(m) == [state |-> "held", by |-> m]
Draining(m) == [state |-> "draining", by |-> m]

Ownerships == {Free, Done} \cup {Held(m) : m \in Members} \cup {Draining(m) : m \in Members}

TypeOK ==
    /\ own \in [Tasks -> Ownerships]
    /\ busy \in [Members -> SUBSET Tasks]

Has(m, t) == own[t] \in {Held(m), Draining(m)}

Init ==
    /\ own = [t \in Tasks |-> Free]
    /\ busy = [m \in Members |-> {}]

\* A member takes a free task only with empty hands.
Take(m, t) ==
    /\ own[t] = Free
    /\ \A u \in Tasks : ~Has(m, u)
    /\ own' = [own EXCEPT ![t] = Held(m)]
    /\ busy' \in {busy, [busy EXCEPT ![m] = {t}]}

\* It executes what it holds.
Execute(m) ==
    /\ busy' = [busy EXCEPT ![m] = {t \in Tasks : own[t] = Held(m)}]
    /\ UNCHANGED own

\* What becomes of t in a step that takes work away and quiets some members.
Sheds(t) ==
    \/ own'[t] = own[t]
    \/ own[t] = Free /\ own'[t] = Done
    \/ \E m \in Members :
         /\ Has(m, t)
         /\ \/ own'[t] = Draining(m)
            \/ own'[t] \in {Free, Done} /\ t \notin busy'[m]

Shed ==
    /\ own' \in [Tasks -> Ownerships]
    /\ busy' \in [Members -> SUBSET Tasks]
    /\ \A m \in Members : busy'[m] \subseteq busy[m]
    /\ \A t \in Tasks : Sheds(t)

Next == Shed \/ \E m \in Members : Execute(m) \/ \E t \in Tasks : Take(m, t)

Spec == Init /\ [][Next]_vars

\* A member executes only a task it holds or is draining (Attempts.fenceForStop's
\* contract), so no two members ever execute one task.
ExecutesOnlyItsOwn == \A m \in Members : \A t \in busy[m] : Has(m, t)

EmptyHanded == \A m \in Members : \A t, u \in Tasks : Has(m, t) /\ Has(m, u) => t = u
=============================================================================
