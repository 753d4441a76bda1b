----------------------------- MODULE MissionQueue -----------------------------
(***************************************************************************)
(* The mission queue: SwarmRuntime.exclusive and its bounded wait.         *)
(*                                                                         *)
(* Calls are numbered in the order they are made.  A call waits for the    *)
(* tail it found, registers its own before it waits, and its tail settles  *)
(* when it is over and the tail it found has settled.  What a promise does *)
(* after it settles is a step of its own (a microtask); a timer fires only *)
(* when no such step is left.                                              *)
(***************************************************************************)
EXTENDS Naturals

CONSTANT MaxCalls  \* bound: the calls made of the queue

ASSUME QueueConstants == MaxCalls \in Nat

Calls == 1 .. MaxCalls

VARIABLES
    call,       \* each call: not made yet, waiting, its body running, over
    previous,   \* the tail a call found, 0 for none
    settled,    \* the calls whose tail has settled
    tail,       \* queues.get(missionId): the last call made, 0 once forgotten
    operation,  \* the identity of the physical head
    told        \* the identity a call was refused under, 0 if it was not

vars == <<call, previous, settled, tail, operation, told>>

TypeOK ==
    /\ call \in [Calls -> {"absent", "waiting", "running", "over"}]
    /\ previous \in [Calls -> 0 .. MaxCalls]
    /\ settled \subseteq Calls
    /\ tail \in 0 .. MaxCalls
    /\ operation \in Nat
    /\ told \in [Calls -> Nat]

Init ==
    /\ call = [k \in Calls |-> "absent"]
    /\ previous = [k \in Calls |-> 0]
    /\ settled = {}
    /\ tail = 0
    /\ operation = 0
    /\ told = [k \in Calls |-> 0]

IsNext(k) == call[k] = "absent" /\ \A j \in 1 .. k - 1 : call[j] # "absent"

\* A queue nobody holds runs the body in the call itself.
Enter(k) ==
    /\ IsNext(k)
    /\ tail = 0
    /\ call' = [call EXCEPT ![k] = "running"]
    /\ tail' = k
    /\ operation' = operation + 1
    /\ UNCHANGED <<previous, settled, told>>

Wait(k) ==
    /\ IsNext(k)
    /\ tail # 0
    /\ call' = [call EXCEPT ![k] = "waiting"]
    /\ previous' = [previous EXCEPT ![k] = tail]
    /\ tail' = k
    /\ UNCHANGED <<settled, operation, told>>

\* Mutant: a body does not take an identity of its own.
StartAnonymous(k) ==
    /\ call[k] = "waiting"
    /\ previous[k] \in settled
    /\ call' = [call EXCEPT ![k] = "running"]
    /\ UNCHANGED <<previous, settled, tail, operation, told>>

Start(k) ==
    /\ call[k] = "waiting"
    /\ previous[k] \in settled
    /\ call' = [call EXCEPT ![k] = "running"]
    /\ operation' = operation + 1
    /\ UNCHANGED <<previous, settled, tail, told>>

\* The body returns or throws.
Return(k) ==
    /\ call[k] = "running"
    /\ call' = [call EXCEPT ![k] = "over"]
    /\ UNCHANGED <<previous, settled, tail, operation, told>>

\* Mutant: a tail settles with its own call.
SettleableAlone(k) == call[k] = "over" /\ k \notin settled

Settleable(k) ==
    /\ call[k] = "over"
    /\ k \notin settled
    /\ previous[k] \in settled \cup {0}

Settle(k) ==
    /\ Settleable(k)
    /\ settled' = settled \cup {k}
    /\ UNCHANGED <<call, previous, tail, operation, told>>

Forgettable(k) == k \in settled /\ tail = k

Forget(k) ==
    /\ Forgettable(k)
    /\ tail' = 0
    /\ UNCHANGED <<call, previous, settled, operation, told>>

Drained ==
    \A k \in Calls :
        /\ ~Settleable(k)
        /\ ~Forgettable(k)
        /\ ~(call[k] = "waiting" /\ previous[k] \in settled)

\* Mutant: the wait is bounded only behind a running body.
RefuseBehindBody(k) ==
    /\ Drained
    /\ call[k] = "waiting"
    /\ call[previous[k]] = "running"
    /\ call' = [call EXCEPT ![k] = "over"]
    /\ told' = [told EXCEPT ![k] = operation]
    /\ UNCHANGED <<previous, settled, tail, operation>>

\* The wait reaches its bound: the call is refused and its body never runs.
Refuse(k) ==
    /\ Drained
    /\ call[k] = "waiting"
    /\ previous[k] \notin settled
    /\ call' = [call EXCEPT ![k] = "over"]
    /\ told' = [told EXCEPT ![k] = operation]
    /\ UNCHANGED <<previous, settled, tail, operation>>

Next == \E k \in Calls :
    Enter(k) \/ Wait(k) \/ Start(k) \/ Return(k) \/ Settle(k) \/ Forget(k) \/ Refuse(k)

Spec == Init /\ [][Next]_vars

\* Promises settle and timers fire; a body may run for ever.
FairSpec ==
    Spec /\ \A k \in Calls : WF_vars(Start(k)) /\ WF_vars(Settle(k)) /\ WF_vars(Forget(k))
                             /\ WF_vars(Refuse(k))
-----------------------------------------------------------------------------
\* A body runs only when every call made before it is over: two bodies never run
\* together, bodies run in the order of their calls, and a caller refused by the
\* bounded wait does not let the next one past the body still running ("cannot
\* release its still-running predecessor", SwarmRuntime.exclusive).
Serial ==
    \A k \in Calls : call[k] = "running" => \A j \in 1 .. k - 1 : call[j] = "over"

\* A call is refused only while an earlier call's body runs (boundedQueueWait): a
\* refused call holds nobody up, whatever calls are queued before and behind it.
RefusedBehindBody ==
    [][\A k \in Calls : told'[k] # told[k] => \E j \in 1 .. k - 1 : call[j] = "running"]_vars

\* No refusal was told under the identity a body starts under.
IdentityUntold ==
    \A k \in Calls : call[k] # "running" /\ call'[k] = "running"
        => \A j \in Calls : told[j] # operation'

\* A later hang gets its own notice (operation.id, the notice's key).
HangToldOnce == [][IdentityUntold]_vars

\* A call never waits for ever, even behind a body that hangs (boundedQueueWait).
EveryCallAnswered == \A k \in Calls : call[k] = "waiting" ~> call[k] # "waiting"

\* The map keeps no queue whose bodies are over, however its calls ended; dispose
\* and settle wait for what it holds (SwarmRuntime.exclusive, dispose, settle).
QueueForgotten ==
    (\E k \in Calls : <>[](call[k] = "running")) \/ <>[](tail = 0)
=============================================================================
