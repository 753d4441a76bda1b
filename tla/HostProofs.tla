----------------------------- MODULE HostProofs -----------------------------
(***************************************************************************)
(* What the host decides in turn: the calls of a mission (MissionQueue),   *)
(* the runs of declared checks (CheckHost), the verdicts that rest on      *)
(* them (DeclaredChecks), and the application of the result to the owner's *)
(* checkout (DeliveryApply) under its lock (ApplyLock).                    *)
(*                                                                         *)
(* Tails of calls settle in the order of the calls, so the settled calls   *)
(* are an initial segment of the calls made.  The first call past that     *)
(* segment is the head: it is the one whose body runs, or runs next.  The  *)
(* invariant carries the head's existence, which spares the proof an       *)
(* induction.                                                              *)
(*                                                                         *)
(* The slots of the checks are counted by sets: who holds one, who is      *)
(* queued.  What a step does to the queue as a sequence is in three lemmas *)
(* about its end, its head and a waiter in its middle.                     *)
(*                                                                         *)
(* A verdict is founded because what a call was given to judge was run:    *)
(* only its last command may have failed.  The letters of an attempt are   *)
(* two at most, and the first was sent when there are two.                 *)
(*                                                                         *)
(* No edit is lost because a plan adds and drops none: what is published   *)
(* holds the edits of the original beside it, so that either of the two    *)
(* may go.  A path the owner left alone is, at every point, where the      *)
(* application put it.                                                     *)
(***************************************************************************)
EXTENDS MissionQueue, MCDelivery, FiniteSetTheorems, SequenceTheorems, TLAPS

Made(k) == call[k] # "absent"

Contiguous == \A k, j \in Calls : Made(j) /\ k < j => Made(k)

\* A call found its immediate predecessor's tail, or a queue already forgotten.
Chained ==
    \A k \in Calls :
        \/ Made(k) /\ k > 1 /\ previous[k] = k - 1
        \/ Made(k) /\ previous[k] = 0 /\ call[k] # "waiting" /\ (k > 1 => k - 1 \in settled)
        \/ ~Made(k) /\ previous[k] = 0

SettledFirst == \A k \in settled : call[k] = "over" /\ \A j \in 1 .. k - 1 : j \in settled

RunningFirst == \A k \in Calls : call[k] = "running" => \A j \in 1 .. k - 1 : j \in settled

AllSettled == \A k \in Calls : Made(k) => k \in settled

TailLast ==
    /\ tail = 0 => AllSettled
    /\ tail # 0 => Made(tail) /\ \A j \in Calls : Made(j) => j <= tail

IsHead(h) == Made(h) /\ h \notin settled /\ \A j \in 1 .. h - 1 : j \in settled

HeadExists == AllSettled \/ \E h \in Calls : IsHead(h)

ToldBefore == \A k \in Calls : told[k] <= operation

QInv ==
    /\ TypeOK
    /\ Contiguous
    /\ Chained
    /\ SettledFirst
    /\ RunningFirst
    /\ TailLast
    /\ HeadExists
    /\ ToldBefore

\* The empty queue.
LEMMA QInvInit == Init => QInv
  BY QueueConstants, SMT DEF Init, QInv, TypeOK, Calls, Made, Contiguous, Chained, SettledFirst,
       RunningFirst, AllSettled, TailLast, IsHead, HeadExists, ToldBefore

\* The next call to make comes right after every call made.
LEMMA NextIsLast ==
    ASSUME QInv, NEW k \in Calls, IsNext(k)
    PROVE  /\ \A j \in Calls : Made(j) <=> j < k
           /\ k \notin settled
           /\ tail # 0 => k > 1 /\ tail = k - 1
           /\ \A j \in 1 .. k - 1 : j \in Calls
<1>1. \A j \in Calls : Made(j) <=> j < k
  BY QueueConstants DEF QInv, Contiguous, IsNext, Made, Calls
<1>2. k \notin settled
  BY DEF QInv, SettledFirst, IsNext
<1>3. ASSUME tail # 0 PROVE k > 1 /\ tail = k - 1
  <2>1. tail \in Calls /\ tail < k
    BY <1>1, <1>3, QueueConstants DEF QInv, TypeOK, TailLast, Calls
  <2>2. k - 1 \in Calls
    BY <2>1, QueueConstants DEF Calls
  <2>3. k - 1 <= tail
    BY <1>1, <1>3, <2>2 DEF QInv, TailLast, Calls
  <2> QED
    BY <2>1, <2>3, QueueConstants DEF Calls
<1> QED
  BY <1>1, <1>2, <1>3, QueueConstants DEF Calls

\* A call whose predecessor has settled follows settled calls only.
LEMMA SettledBefore ==
    ASSUME QInv, NEW k \in Calls, Made(k), previous[k] \in settled \cup {0}
    PROVE  \A j \in 1 .. k - 1 : j \in settled
<1>1. CASE k = 1
  BY <1>1
<1>2. CASE k > 1
  <2>1. k - 1 \in settled
    BY <1>2, QueueConstants DEF QInv, Chained, TypeOK, Calls
  <2>2. \A j \in 1 .. k - 1 : j = k - 1 \/ j \in 1 .. (k - 1) - 1
    BY <1>2, QueueConstants DEF Calls
  <2> QED
    BY <2>1, <2>2 DEF QInv, SettledFirst
<1> QED
  BY <1>1, <1>2, QueueConstants DEF Calls

\* A call enters a queue whose calls have all settled: it is the head.
LEMMA EnterKeeps ==
    ASSUME QInv, NEW k \in Calls, Enter(k)
    PROVE  QInv'
<1>0. IsNext(k) /\ tail = 0 /\ k \in Nat
  BY QueueConstants DEF Enter, Calls
<1>1. /\ \A j \in Calls : Made(j) <=> j < k
      /\ k \notin settled
      /\ \A j \in 1 .. k - 1 : j \in Calls
  BY <1>0, NextIsLast
<1>2. \A j \in 1 .. k - 1 : j \in settled
  BY <1>0, <1>1 DEF QInv, TailLast, AllSettled, Calls
<1>3. TypeOK'
  BY DEF Enter, QInv, TypeOK, Calls
<1>4. \A j \in Calls : Made(j)' <=> j <= k
  BY <1>0, <1>1, QueueConstants DEF Enter, Made, QInv, TypeOK, Calls
<1>5. Contiguous'
  BY <1>0, <1>4, QueueConstants DEF Contiguous, Calls
<1>6. previous[k] \in 0 .. MaxCalls /\ call'[k] = "running" /\ settled' = settled
  BY DEF Enter, QInv, TypeOK
<1>7. Chained'
  BY <1>0, <1>1, <1>2, <1>4, QueueConstants DEF Enter, QInv, TypeOK, Chained, Made, Calls
<1>8. SettledFirst'
  BY <1>1 DEF Enter, QInv, TypeOK, SettledFirst
<1>9. RunningFirst'
  BY <1>2, <1>1 DEF Enter, QInv, TypeOK, RunningFirst
<1>10. TailLast'
  BY <1>0, <1>4, QueueConstants DEF Enter, TailLast, Calls
<1>11. IsHead(k)'
  BY <1>0, <1>1, <1>2, <1>4, QueueConstants DEF Enter, IsHead, Calls
<1>12. ToldBefore'
  BY DEF Enter, QInv, TypeOK, ToldBefore
<1> QED
  BY <1>3, <1>5, <1>7, <1>8, <1>9, <1>10, <1>11, <1>12 DEF QInv, HeadExists

\* A call that waits is the head only when every call before it has settled.
LEMMA WaitKeeps ==
    ASSUME QInv, NEW k \in Calls, Wait(k)
    PROVE  QInv'
<1>0. IsNext(k) /\ tail # 0 /\ k \in Nat
  BY QueueConstants DEF Wait, Calls
<1>1. /\ \A j \in Calls : Made(j) <=> j < k
      /\ k \notin settled
      /\ k > 1 /\ tail = k - 1
      /\ \A j \in 1 .. k - 1 : j \in Calls
  BY <1>0, NextIsLast
<1>2. TypeOK'
  BY <1>0, QueueConstants DEF Wait, QInv, TypeOK, Calls
<1>3. \A j \in Calls : Made(j)' <=> j <= k
  BY <1>0, <1>1, QueueConstants DEF Wait, Made, QInv, TypeOK, Calls
<1>4. Contiguous'
  BY <1>0, <1>3, QueueConstants DEF Contiguous, Calls
<1>5. Chained'
  BY <1>1, <1>3, QueueConstants DEF Wait, QInv, TypeOK, Chained, Made, Calls
<1>6. SettledFirst'
  BY <1>1 DEF Wait, QInv, TypeOK, SettledFirst
<1>7. RunningFirst'
  BY DEF Wait, QInv, TypeOK, RunningFirst
<1>8. TailLast'
  BY <1>0, <1>3, QueueConstants DEF Wait, TailLast, Calls
<1>9. HeadExists'
  <2>1. CASE AllSettled
    <3>1. \A j \in 1 .. k - 1 : j \in settled
      BY <2>1, <1>0, <1>1, QueueConstants DEF AllSettled, Calls
    <3>2. IsHead(k)'
      BY <3>1, <1>0, <1>1, <1>3, QueueConstants DEF Wait, IsHead, Calls
    <3> QED
      BY <3>2 DEF HeadExists
  <2>2. ASSUME NEW h \in Calls, IsHead(h) PROVE HeadExists'
    <3>1. IsHead(h)'
      BY <2>2, <1>0, <1>1, <1>3, QueueConstants DEF Wait, IsHead, Calls
    <3> QED
      BY <3>1 DEF HeadExists
  <2> QED
    BY <2>1, <2>2 DEF QInv, HeadExists
<1>10. ToldBefore'
  BY DEF Wait, QInv, TypeOK, ToldBefore
<1> QED
  BY <1>2, <1>4, <1>5, <1>6, <1>7, <1>8, <1>9, <1>10 DEF QInv

\* A step that leaves the tails alone, makes no call and un-makes none, keeps
\* everything but what it says of the call it moves.
LEMMA MoveKeeps ==
    ASSUME QInv, NEW k \in Calls, NEW to \in {"running", "over"},
           call[k] \in {"waiting", "running"},
           call' = [call EXCEPT ![k] = to],
           UNCHANGED <<previous, settled, tail>>,
           to = "running" => \A j \in 1 .. k - 1 : j \in settled,
           operation' \in Nat, operation <= operation',
           told' \in [Calls -> Nat], \A j \in Calls : told'[j] <= operation'
    PROVE  QInv'
<1>1. \A j \in Calls : Made(j)' <=> Made(j)
  BY DEF Made, QInv, TypeOK
<1>2. TypeOK'
  BY DEF QInv, TypeOK
<1>3. Contiguous'
  BY <1>1 DEF QInv, Contiguous
<1>4. Chained'
  BY <1>1, QueueConstants DEF QInv, TypeOK, Chained, Calls
<1>5. k \notin settled
  BY DEF QInv, SettledFirst
<1>6. SettledFirst'
  BY <1>5 DEF QInv, TypeOK, SettledFirst
<1>7. RunningFirst'
  BY DEF QInv, TypeOK, RunningFirst
<1>8. AllSettled' <=> AllSettled
  BY <1>1 DEF AllSettled
<1>9. TailLast'
  BY <1>1, <1>8, QueueConstants DEF QInv, TypeOK, TailLast, Calls
<1>10. \A h \in Calls : IsHead(h)' <=> IsHead(h)
  BY <1>1 DEF IsHead
<1>11. HeadExists'
  BY <1>8, <1>10 DEF QInv, HeadExists
<1>12. ToldBefore'
  BY DEF ToldBefore
<1> QED
  BY <1>2, <1>3, <1>4, <1>6, <1>7, <1>9, <1>11, <1>12 DEF QInv

\* The head's tail settles: the next call made, if any, is the head.
LEMMA SettleKeeps ==
    ASSUME QInv, NEW k \in Calls, Settle(k)
    PROVE  QInv'
<1>0. /\ Made(k) /\ call[k] = "over" /\ k \notin settled /\ k \in Nat
      /\ settled' = settled \cup {k}
      /\ UNCHANGED <<call, previous, tail, operation, told>>
  BY QueueConstants DEF Settle, Settleable, Made, Calls
<1>1. \A j \in 1 .. k - 1 : j \in settled
  BY <1>0, SettledBefore DEF Settle, Settleable
<1>2. \A j \in Calls : Made(j)' <=> Made(j)
  BY <1>0 DEF Made
<1>3. TypeOK'
  BY <1>0 DEF QInv, TypeOK
<1>4. Contiguous'
  BY <1>2 DEF QInv, Contiguous
<1>5. Chained'
  BY <1>0, <1>2 DEF QInv, Chained
<1>6. SettledFirst'
  BY <1>0, <1>1 DEF QInv, SettledFirst
<1>7. RunningFirst'
  BY <1>0 DEF QInv, RunningFirst
<1>8. AllSettled => AllSettled'
  BY <1>0, <1>2 DEF AllSettled
<1>9. TailLast'
  BY <1>0, <1>2, <1>8, QueueConstants DEF QInv, TypeOK, TailLast, Calls
<1>10. HeadExists'
  <2>1. CASE k + 1 \in Calls /\ Made(k + 1)
    <3>1. k + 1 \notin settled
      BY <1>0, <2>1, QueueConstants DEF QInv, SettledFirst, Calls
    <3>2. \A j \in 1 .. k : j \in settled'
      BY <1>0, <1>1
    <3>3. IsHead(k + 1)'
      BY <1>0, <1>2, <2>1, <3>1, <3>2 DEF IsHead
    <3> QED
      BY <2>1, <3>3 DEF HeadExists
  <2>2. CASE ~(k + 1 \in Calls /\ Made(k + 1))
    <3>1. \A j \in Calls : Made(j) => j <= k
      BY <1>0, <2>2, QueueConstants DEF QInv, Contiguous, Calls
    <3>2. AllSettled'
      BY <1>0, <1>1, <1>2, <3>1, QueueConstants DEF AllSettled, Calls
    <3> QED
      BY <3>2 DEF HeadExists
  <2> QED
    BY <2>1, <2>2
<1>11. ToldBefore'
  BY <1>0 DEF QInv, ToldBefore
<1> QED
  BY <1>3, <1>4, <1>5, <1>6, <1>7, <1>9, <1>10, <1>11 DEF QInv

\* The map forgets a queue whose last call's tail has settled.
LEMMA ForgetKeeps ==
    ASSUME QInv, NEW k \in Calls, Forget(k)
    PROVE  QInv'
<1>0. /\ k \in settled /\ tail = k /\ tail' = 0 /\ k \in Nat /\ k # 0
      /\ UNCHANGED <<call, previous, settled, operation, told>>
  BY QueueConstants DEF Forget, Forgettable, Calls
<1>1. AllSettled
  BY <1>0, QueueConstants DEF QInv, TailLast, SettledFirst, AllSettled, Calls
<1>2. AllSettled'
  BY <1>0, <1>1 DEF AllSettled, Made
<1>3. TailLast' /\ HeadExists'
  BY <1>0, <1>2 DEF TailLast, HeadExists
<1>4. TypeOK' /\ Contiguous' /\ Chained' /\ SettledFirst' /\ RunningFirst' /\ ToldBefore'
  BY <1>0, QueueConstants
     DEF QInv, TypeOK, Contiguous, Chained, SettledFirst, RunningFirst, ToldBefore, Made
<1> QED
  BY <1>3, <1>4 DEF QInv

\* The invariant is inductive.
LEMMA QInvNext == QInv /\ [Next]_vars => QInv'
<1> SUFFICES ASSUME QInv, [Next]_vars PROVE QInv'
  OBVIOUS
<1>1. ASSUME NEW k \in Calls, Enter(k) PROVE QInv'
  BY <1>1, EnterKeeps
<1>2. ASSUME NEW k \in Calls, Wait(k) PROVE QInv'
  BY <1>2, WaitKeeps
<1>3. ASSUME NEW k \in Calls, Start(k) PROVE QInv'
  <2>1. \A j \in 1 .. k - 1 : j \in settled
    BY <1>3, SettledBefore DEF Start, Made
  <2>2. /\ operation + 1 \in Nat /\ operation <= operation + 1
        /\ \A j \in Calls : told[j] <= operation + 1
    BY DEF QInv, TypeOK, ToldBefore
  <2>3. told \in [Calls -> Nat]
    BY DEF QInv, TypeOK
  <2> QED
    BY <1>3, <2>1, <2>2, <2>3, MoveKeeps DEF Start
<1>4. ASSUME NEW k \in Calls, Return(k) PROVE QInv'
  <2>1. /\ operation \in Nat /\ operation <= operation /\ told \in [Calls -> Nat]
        /\ \A j \in Calls : told[j] <= operation
    BY DEF QInv, TypeOK, ToldBefore
  <2> QED
    BY <1>4, <2>1, MoveKeeps DEF Return
<1>5. ASSUME NEW k \in Calls, Settle(k) PROVE QInv'
  BY <1>5, SettleKeeps
<1>6. ASSUME NEW k \in Calls, Forget(k) PROVE QInv'
  BY <1>6, ForgetKeeps
<1>7. ASSUME NEW k \in Calls, Refuse(k) PROVE QInv'
  <2>1. /\ operation' \in Nat /\ operation <= operation' /\ told' \in [Calls -> Nat]
        /\ \A j \in Calls : told'[j] <= operation'
    BY <1>7 DEF Refuse, QInv, TypeOK, ToldBefore
  <2> QED
    BY <1>7, <2>1, MoveKeeps DEF Refuse
<1>8. CASE UNCHANGED vars
  BY <1>8 DEF vars, QInv, TypeOK, Made, Contiguous, Chained, SettledFirst, RunningFirst,
              AllSettled, TailLast, IsHead, HeadExists, ToldBefore
<1> QED
  BY <1>1, <1>2, <1>3, <1>4, <1>5, <1>6, <1>7, <1>8 DEF Next

\* QInv holds in every reachable state.
THEOREM QueueInvariant == Spec => []QInv
  BY QInvInit, QInvNext, PTL DEF Spec

\* Bodies never overlap and run in the order of their calls.
THEOREM QueueSerial == Spec => []Serial
<1>1. QInv => Serial
  BY QueueConstants DEF QInv, RunningFirst, SettledFirst, Serial, Calls
<1> QED
  BY <1>1, QueueInvariant, PTL

\* When the microtasks have drained, the head's body is running.
LEMMA HeadRuns ==
    ASSUME QInv, Drained, NEW h \in Calls, IsHead(h)
    PROVE  call[h] = "running"
<1>1. previous[h] \in settled \cup {0}
  BY QueueConstants DEF QInv, Chained, IsHead, Calls
<1>2. call[h] # "over"
  BY <1>1 DEF Drained, Settleable, IsHead
<1>3. call[h] # "waiting"
  <2>1. ASSUME call[h] = "waiting" PROVE previous[h] \in settled
    BY <1>1, <2>1, QueueConstants DEF QInv, Chained, IsHead, Calls
  <2> QED
    BY <2>1 DEF Drained
<1> QED
  BY <1>2, <1>3 DEF QInv, TypeOK, IsHead, Made

\* Nobody is refused unless an earlier body runs.
THEOREM QueueRefusals == Spec => RefusedBehindBody
<1>1. ASSUME QInv, Next, NEW k \in Calls, told'[k] # told[k]
      PROVE  \E j \in 1 .. k - 1 : call[j] = "running"
  <2>1. PICK i \in Calls : Refuse(i)
    BY <1>1 DEF Next, Enter, Wait, Start, Return, Settle, Forget
  <2>2. i = k
    BY <1>1, <2>1 DEF Refuse, QInv, TypeOK
  <2>3. k > 1 /\ previous[k] = k - 1 /\ k - 1 \in Calls /\ k - 1 \notin settled
    BY <1>1, <2>1, <2>2, QueueConstants DEF Refuse, QInv, Chained, Made, Calls
  <2>4. Made(k - 1)
    BY <1>1, <2>1, <2>2, <2>3, QueueConstants DEF Refuse, QInv, Contiguous, Made, Calls
  <2>5. PICK h \in Calls : IsHead(h)
    BY <1>1, <2>3, <2>4 DEF QInv, HeadExists, AllSettled
  <2>6. h <= k - 1
    BY <2>3, <2>5, QueueConstants DEF IsHead, Calls
  <2>7. call[h] = "running"
    BY <1>1, <2>1, <2>5, HeadRuns DEF Refuse
  <2> QED
    BY <2>6, <2>7, QueueConstants DEF Calls
<1>2. QInv /\ [Next]_vars =>
        [\A k \in Calls : told'[k] # told[k] => \E j \in 1 .. k - 1 : call[j] = "running"]_vars
  BY <1>1
<1> QED
  BY <1>2, QueueInvariant, PTL DEF Spec, RefusedBehindBody

\* Every body starts under an identity of its own.
THEOREM QueueIdentities == Spec => HangToldOnce
<1>1. ASSUME QInv, Next, NEW k \in Calls, call[k] # "running", call'[k] = "running",
             NEW j \in Calls
      PROVE  told[j] # operation'
  <2>1. \E i \in Calls : Enter(i) \/ Start(i)
    BY <1>1 DEF Next, Enter, Wait, Start, Return, Settle, Forget, Refuse, QInv, TypeOK
  <2>2. operation' = operation + 1
    BY <2>1 DEF Enter, Start
  <2> QED
    BY <1>1, <2>2 DEF QInv, TypeOK, ToldBefore
<1>2. QInv /\ [Next]_vars =>
        [\A k \in Calls : call[k] # "running" /\ call'[k] = "running"
            => \A j \in Calls : told[j] # operation']_vars
  BY <1>1
<1> QED
  BY <1>2, QueueInvariant, PTL DEF Spec, HangToldOnce, IdentityUntold
-----------------------------------------------------------------------------
\* One more waiter, at the end of the queue.
LEMMA Queueing ==
    ASSUME NEW S, NEW s \in Seq(S), IsInjective(s), NEW e \in S, e \notin ToSet(s)
    PROVE  /\ Append(s, e) \in Seq(S) /\ IsInjective(Append(s, e))
           /\ ToSet(Append(s, e)) = ToSet(s) \cup {e}
<1> DEFINE t == Append(s, e)
<1>1. /\ t \in Seq(S) /\ DOMAIN s = 1 .. Len(s) /\ DOMAIN t = 1 .. Len(s) + 1 /\ Len(s) \in Nat
      /\ \A i \in 1 .. Len(s) : t[i] = s[i]
      /\ t[Len(s) + 1] = e
  BY AppendProperties, LenProperties
<1>2. \A i \in DOMAIN s : s[i] # e
  BY DEF ToSet
<1> HIDE DEF t
<1>3. DOMAIN t = DOMAIN s \cup {Len(s) + 1}
  BY <1>1
<1>4. IsInjective(t)
  BY <1>1, <1>2, <1>3 DEF IsInjective
<1>5. ToSet(t) = ToSet(s) \cup {e}
  BY <1>1, <1>3 DEF ToSet
<1> QED
  BY <1>1, <1>4, <1>5 DEF t

\* The oldest waiter leaves.
LEMMA Serving ==
    ASSUME NEW S, NEW s \in Seq(S), IsInjective(s), s # <<>>
    PROVE  /\ Head(s) \in S /\ Head(s) \in ToSet(s)
           /\ Tail(s) \in Seq(S) /\ IsInjective(Tail(s))
           /\ ToSet(Tail(s)) = ToSet(s) \ {Head(s)}
<1> DEFINE t == Tail(s)
<1>1. /\ Head(s) = s[1] /\ Head(s) \in S /\ t \in Seq(S) /\ Len(s) \in Nat \ {0}
      /\ DOMAIN s = 1 .. Len(s) /\ DOMAIN t = 1 .. Len(s) - 1
      /\ \A i \in 1 .. Len(s) - 1 : t[i] = s[i + 1]
  BY HeadTailProperties, LenProperties, EmptySeq
<1> HIDE DEF t
<1>2. IsInjective(t)
  <2> SUFFICES ASSUME NEW i \in DOMAIN t, NEW j \in DOMAIN t, t[i] = t[j] PROVE i = j
    BY DEF IsInjective
  <2>1. i + 1 \in DOMAIN s /\ j + 1 \in DOMAIN s /\ s[i + 1] = s[j + 1]
    BY <1>1
  <2>2. i + 1 = j + 1
    BY <2>1 DEF IsInjective
  <2> QED
    BY <1>1, <2>2
<1>3. ASSUME NEW x \in ToSet(t) PROVE x \in ToSet(s) \ {s[1]}
  <2>1. PICK i \in DOMAIN t : x = t[i]
    BY <1>3 DEF ToSet
  <2>2. i + 1 \in DOMAIN s /\ 1 \in DOMAIN s /\ x = s[i + 1] /\ i + 1 # 1
    BY <1>1, <2>1
  <2> QED
    BY <2>2 DEF ToSet, IsInjective
<1>4. ASSUME NEW x \in ToSet(s), x # s[1] PROVE x \in ToSet(t)
  <2>1. PICK i \in DOMAIN s : x = s[i]
    BY <1>4 DEF ToSet
  <2>2. i # 1
    BY <1>4, <2>1
  <2>3. i - 1 \in DOMAIN t /\ t[i - 1] = s[i]
    BY <1>1, <2>2
  <2> QED
    BY <2>1, <2>3 DEF ToSet
<1>5. s[1] \in ToSet(s)
  BY <1>1 DEF ToSet
<1> QED
  BY <1>1, <1>2, <1>3, <1>4, <1>5 DEF t

\* A waiter leaves from wherever it stands.
LEMMA Withdrawing ==
    ASSUME NEW S, NEW s \in Seq(S), IsInjective(s), NEW e
    PROVE  /\ RemoveFirst(s, e) \in Seq(S) /\ IsInjective(RemoveFirst(s, e))
           /\ ToSet(RemoveFirst(s, e)) = ToSet(s) \ {e}
           /\ s = <<>> => RemoveFirst(s, e) = <<>>
<1>0. DOMAIN s = 1 .. Len(s) /\ Len(s) \in Nat /\ (s = <<>> => Len(s) = 0)
  BY LenProperties, EmptySeq
<1>1. CASE e \notin ToSet(s)
  <2>1. RemoveFirst(s, e) = s
    BY <1>0, <1>1 DEF RemoveFirst, ToSet
  <2> QED
    BY <1>1, <2>1
<1>2. CASE e \in ToSet(s)
  <2>1. PICK k \in 1 .. Len(s) : s[k] = e
    BY <1>0, <1>2 DEF ToSet
  <2>2. \A i \in 1 .. Len(s) : s[i] = e <=> i = k
    BY <1>0, <2>1 DEF IsInjective
  <2>3. SelectInSeq(s, LAMBDA v : v = e) = k
    <3>1. {i \in 1 .. Len(s) : s[i] = e} = {k}
      BY <2>2
    <3>2. Min({k}) = k
      BY <1>0 DEF Min
    <3> QED
      BY <3>1, <3>2 DEF SelectInSeq
  <2> DEFINE a == SubSeq(s, 1, k - 1)
             b == SubSeq(s, k + 1, Len(s))
             t == a \o b
  <2>4. RemoveFirst(s, e) = t
    BY <2>1, <2>3 DEF RemoveFirst, RemoveAt
  <2>5. a \in Seq(S) /\ Len(a) = k - 1 /\ \A i \in 1 .. k - 1 : a[i] = s[i]
    <3>1. \A i \in 1 .. k - 1 : s[i] \in S
      BY <1>0, <2>1, ElementOfSeq
    <3> QED
      BY <1>0, <3>1, SubSeqProperties
  <2>6. b \in Seq(S) /\ Len(b) = Len(s) - k /\ \A i \in 1 .. Len(s) - k : b[i] = s[k + i]
    <3>1. \A i \in k + 1 .. Len(s) : s[i] \in S
      BY <1>0, <2>1, ElementOfSeq
    <3>2. /\ b \in Seq(S) /\ Len(b) = IF k + 1 <= Len(s) THEN Len(s) - (k + 1) + 1 ELSE 0
          /\ \A i \in 1 .. Len(s) - (k + 1) + 1 : b[i] = s[k + 1 + i - 1]
      BY <1>0, <2>1, <3>1, SubSeqProperties
    <3>3. ASSUME NEW i \in 1 .. Len(s) - k
          PROVE  i \in 1 .. Len(s) - (k + 1) + 1 /\ k + 1 + i - 1 = k + i
      BY <1>0, <2>1
    <3>4. (IF k + 1 <= Len(s) THEN Len(s) - (k + 1) + 1 ELSE 0) = Len(s) - k
      <4> DEFINE n == Len(s)
      <4>1. n \in Nat /\ k \in 1 .. n
        BY <1>0
      <4> HIDE DEF n
      <4>2. (IF k + 1 <= n THEN n - (k + 1) + 1 ELSE 0) = n - k
        BY <4>1
      <4> QED
        BY <4>2 DEF n
    <3> HIDE DEF b
    <3> QED
      BY <3>2, <3>3, <3>4
  <2> HIDE DEF a, b
  <2>7. /\ t \in Seq(S) /\ DOMAIN t = 1 .. Len(s) - 1
        /\ \A i \in 1 .. Len(s) - 1 : t[i] = IF i < k THEN s[i] ELSE s[i + 1]
    <3>1. /\ t \in Seq(S) /\ Len(t) = Len(s) - 1
          /\ \A i \in 1 .. Len(s) - 1 : t[i] = IF i <= k - 1 THEN a[i] ELSE b[i - (k - 1)]
      <4>1. /\ t \in Seq(S) /\ Len(t) = Len(a) + Len(b)
            /\ \A i \in 1 .. Len(a) + Len(b) : t[i] = IF i <= Len(a) THEN a[i] ELSE b[i - Len(a)]
        BY <2>5, <2>6, ConcatProperties
      <4> HIDE DEF t
      <4>2. Len(a) + Len(b) = Len(s) - 1
        BY <1>0, <2>5, <2>6
      <4> QED
        BY <2>5, <4>1, <4>2
    <3>2. ASSUME NEW i \in 1 .. Len(s) - 1 PROVE t[i] = IF i < k THEN s[i] ELSE s[i + 1]
      <4> DEFINE n == Len(s)
      <4>1. n \in Nat /\ k \in 1 .. n /\ i \in 1 .. n - 1
        BY <1>0, <3>2
      <4>2. CASE i < k
        <5>1. i \in 1 .. k - 1 /\ i <= k - 1
          BY <4>1, <4>2
        <5> QED
          BY <2>5, <3>1, <4>2, <5>1
      <4>3. CASE ~(i < k)
        <5>1. /\ ~(i <= k - 1) /\ i - (k - 1) \in 1 .. n - k /\ k + (i - (k - 1)) = i + 1
          BY <4>1, <4>3
        <5>2. b[i - (k - 1)] = s[k + (i - (k - 1))]
          BY <2>6, <5>1
        <5> QED
          BY <3>1, <4>3, <5>1, <5>2
      <4> QED
        BY <4>2, <4>3
    <3> QED
      BY <3>1, <3>2, LenProperties
  <2> HIDE DEF t
  <2>8. IsInjective(t)
    <3> DEFINE at(i) == IF i < k THEN i ELSE i + 1
    <3>1. \A i \in DOMAIN t : at(i) \in DOMAIN s /\ t[i] = s[at(i)]
      BY <1>0, <2>7
    <3>2. \A i, j \in DOMAIN t : at(i) = at(j) => i = j
      BY <1>0, <2>7
    <3> HIDE DEF at
    <3> QED
      BY <3>1, <3>2 DEF IsInjective
  <2>9. ASSUME NEW x \in ToSet(t) PROVE x \in ToSet(s) \ {e}
    <3>1. PICK i \in DOMAIN t : x = t[i]
      BY <2>9 DEF ToSet
    <3>2. PICK j \in DOMAIN s : x = s[j] /\ j # k
      BY <1>0, <2>7, <3>1
    <3> QED
      BY <1>0, <2>2, <3>2 DEF ToSet
  <2>10. ASSUME NEW x \in ToSet(s), x # e PROVE x \in ToSet(t)
    <3>1. PICK j \in DOMAIN s : x = s[j]
      BY <2>10 DEF ToSet
    <3>2. j # k
      BY <2>1, <2>10, <3>1
    <3>3. PICK i \in DOMAIN t : t[i] = s[j]
      <4>1. CASE j < k
        BY <1>0, <2>7, <4>1
      <4>2. CASE j > k
        <5>1. j - 1 \in DOMAIN t /\ t[j - 1] = s[j]
          BY <1>0, <2>7, <4>2
        <5> QED
          BY <5>1
      <4> QED
        BY <1>0, <3>2, <4>1, <4>2
    <3> QED
      BY <3>1, <3>3 DEF ToSet
  <2>11. s # <<>>
    BY <1>0, <2>1
  <2> QED
    BY <2>4, <2>7, <2>8, <2>9, <2>10, <2>11
<1> QED
  BY <1>1, <1>2
-----------------------------------------------------------------------------
Holders == {m \in Members : run[m].phase \in {"handed", "running"}}

Queued == {m \in Members : run[m].phase = "queued"}

InUse == {"acquire", "queued", "handed", "running"}
Busy == InUse \cup {"own", "prepare"}

\* A run has a number, and the commands it still has to run.
Working ==
    \A m \in Members :
        /\ run[m].phase # "idle" => run[m].n # 0
        /\ run[m].phase = "validate" => run[m].done = 0
        /\ run[m].phase \in Busy => run[m].done < Commands

\* From its claim to its sweep a run's checkout is not a leftover.
OwnsCheckout ==
    \A m \in Members :
        run[m].phase \in InUse \cup {"prepare", "remove", "sweep"} => Checkout(m) \in owned

HInv ==
    /\ HostTypeOK
    /\ Working
    /\ IsFiniteSet(Holders)
    /\ SlotsAccounted
    /\ OwnsCheckout
    /\ CheckoutStands

Runs == [phase : Phases, n : 0 .. MaxRuns, done : 0 .. Commands, aborted : BOOLEAN]

LEMMA HostNumbers == Limit \in Nat \ {0} /\ {Commands, MaxRuns, MaxCrashes} \subseteq Nat
  BY CheckHostConstants

LEMMA HInvInit == HostInit => HInv
<1> SUFFICES ASSUME HostInit PROVE HInv
  OBVIOUS
<1>1. Holders = {} /\ Queued = {}
  BY DEF HostInit, Idle, Holders, Queued
<1>2. HostTypeOK
  BY HostNumbers, EmptySeq DEF HostInit, HostTypeOK, Idle, Phases, IsInjective
<1>3. SlotsAccounted
  BY <1>1, FS_EmptySet, HostNumbers DEF HostInit, SlotsAccounted, Holders, Queued, ToSet
<1> QED
  BY <1>1, <1>2, <1>3, FS_EmptySet DEF HInv, HostInit, Idle, Working, Busy, InUse, OwnsCheckout,
     CheckoutStands

\* What one run does to its own row, and not to the checkouts of the others.
LEMMA OneRun ==
    ASSUME HInv, NEW m \in Members, NEW r \in Runs, run' = [run EXCEPT ![m] = r],
           r.phase # "idle" => r.n # 0,
           r.phase = "validate" => r.done = 0,
           r.phase \in Busy => r.done < Commands,
           \A k \in Members \ {m} : Checkout(k) \in owned => Checkout(k) \in owned',
           \A k \in Members \ {m} : Checkout(k) \in owned \cap disk => Checkout(k) \in disk',
           r.phase \in InUse \cup {"prepare", "remove", "sweep"} => <<m, r.n>> \in owned',
           r.phase \in InUse => <<m, r.n>> \in disk'
    PROVE  run' \in [Members -> Runs] /\ Working' /\ OwnsCheckout' /\ CheckoutStands'
<1>1. /\ run' \in [Members -> Runs] /\ run'[m] = r
      /\ \A k \in Members \ {m} : run'[k] = run[k] /\ Checkout(k)' = Checkout(k)
      /\ Checkout(m)' = <<m, r.n>>
  BY DEF HInv, HostTypeOK, Runs, Checkout
<1>2. Working'
  BY <1>1 DEF HInv, Working
<1>3. OwnsCheckout'
  BY <1>1 DEF HInv, OwnsCheckout
<1>4. CheckoutStands'
  BY <1>1 DEF HInv, OwnsCheckout, CheckoutStands, InUse
<1> QED
  BY <1>1, <1>2, <1>3, <1>4

\* A run that neither takes nor leaves a slot or the queue leaves the slots as they are.
LEMMA SlotsKept ==
    ASSUME HInv, NEW m \in Members, NEW r \in Runs, run' = [run EXCEPT ![m] = r],
           UNCHANGED <<active, waiters>>,
           run[m].phase = "queued" <=> r.phase = "queued",
           run[m].phase \in {"handed", "running"} <=> r.phase \in {"handed", "running"}
    PROVE  IsFiniteSet(Holders)' /\ SlotsAccounted'
<1>1. run'[m] = r /\ \A k \in Members \ {m} : run'[k] = run[k]
  BY DEF HInv, HostTypeOK
<1>2. Holders' = Holders /\ Queued' = Queued
  BY <1>1 DEF Holders, Queued
<1> QED
  BY <1>2 DEF HInv, SlotsAccounted, Holders, Queued

\* A run that starts, waits for nothing and holds no slot before or after.
LEMMA PhaseStep ==
    ASSUME HInv, NEW m \in Members, Begin(m) \/ Validate(m) \/ Own(m) \/ Prepare(m) \/ Resume(m)
    PROVE  HInv'
<1>1. run[m] \in Runs /\ run \in [Members -> Runs]
  BY DEF HInv, HostTypeOK, Runs
<1>2. CASE Begin(m)
  <2> DEFINE r == [phase |-> "validate", n |-> run[m].n + 1, done |-> 0, aborted |-> FALSE]
  <2>1. r \in Runs /\ run' = [run EXCEPT ![m] = r] /\ r.n # 0
    <3>1. run[m].n \in Nat /\ run[m].n + 1 \in 1 .. MaxRuns /\ 0 \in 0 .. Commands
      BY <1>1, <1>2, HostNumbers DEF Begin, Runs
    <3>2. r = [Idle(run[m].n + 1) EXCEPT !.phase = "validate"]
      <4>1. ASSUME NEW n, NEW b
            PROVE  [[phase |-> "idle", n |-> n, done |-> 0, aborted |-> b]
                       EXCEPT !.phase = "validate"] =
                     [phase |-> "validate", n |-> n, done |-> 0, aborted |-> b]
        OBVIOUS
      <4> QED
        BY <4>1, Zenon DEF Idle
    <3>3. run' = [run EXCEPT ![m] = r]
      BY <1>2, <3>2 DEF Begin
    <3> QED
      BY <3>1, <3>3, HostNumbers DEF Runs, Phases
  <2>2. UNCHANGED <<active, waiters, owned, disk, crashes>> /\ run[m].phase = "idle"
    BY <1>2 DEF Begin
  <2>3. run' \in [Members -> Runs] /\ Working' /\ OwnsCheckout' /\ CheckoutStands'
    BY <2>1, <2>2, OneRun DEF Busy, InUse
  <2>4. IsFiniteSet(Holders)' /\ SlotsAccounted'
    BY <2>1, <2>2, SlotsKept
  <2> QED
    BY <2>2, <2>3, <2>4 DEF HInv, HostTypeOK, Runs, Checkouts
<1>3. CASE Validate(m)
  <2>1. PICK r \in Runs : /\ run' = [run EXCEPT ![m] = r]
                          /\ \/ r.phase = "idle"
                             \/ /\ r.phase = "own" /\ Commands # 0
                                /\ r.n = run[m].n /\ r.done = run[m].done
    <3>1. CASE Finish(m)
      <4>1. Idle(run[m].n) \in Runs /\ Idle(run[m].n).phase = "idle"
        BY <1>1, HostNumbers DEF Idle, Runs, Phases
      <4> QED
        BY <3>1, <4>1, <1>1 DEF Finish
    <3>2. CASE Goto(m, "own") /\ Commands # 0
      <4> DEFINE r == [run[m] EXCEPT !.phase = "own"]
      <4>1. r \in Runs /\ r.phase = "own" /\ r.n = run[m].n /\ r.done = run[m].done
        BY <1>1 DEF Runs, Phases
      <4>2. run' = [run EXCEPT ![m] = r]
        BY <3>2 DEF Goto
      <4> QED
        BY <3>2, <4>1, <4>2
    <3> QED
      BY <1>3, <3>1, <3>2 DEF Validate
  <2>2. UNCHANGED <<active, waiters, owned, disk, crashes>> /\ run[m].phase = "validate"
    BY <1>3 DEF Validate
  <2>3. r.phase = "own" => r.n # 0 /\ r.done < Commands
    BY <2>1, <2>2, HostNumbers DEF HInv, Working
  <2>4. run' \in [Members -> Runs] /\ Working' /\ OwnsCheckout' /\ CheckoutStands'
    BY <2>1, <2>2, <2>3, OneRun DEF Busy, InUse
  <2>5. IsFiniteSet(Holders)' /\ SlotsAccounted'
    BY <2>1, <2>2, SlotsKept
  <2> QED
    BY <2>2, <2>4, <2>5 DEF HInv, HostTypeOK, Runs, Checkouts
<1>4. ASSUME NEW p \in Phases, Goto(m, p)
      PROVE  \E r \in Runs : /\ run' = [run EXCEPT ![m] = r] /\ r = [run[m] EXCEPT !.phase = p]
                             /\ r.phase = p /\ r.n = run[m].n /\ r.done = run[m].done
  <2> DEFINE r == [run[m] EXCEPT !.phase = p]
  <2>1. r \in Runs /\ r.phase = p /\ r.n = run[m].n /\ r.done = run[m].done
    BY <1>1, <1>4 DEF Runs
  <2>2. run' = [run EXCEPT ![m] = r]
    BY <1>4 DEF Goto
  <2> QED
    BY <2>1, <2>2
<1>5. CASE Own(m)
  <2>1. PICK r \in Runs : /\ run' = [run EXCEPT ![m] = r]
                          /\ r.phase = "prepare" /\ r.n = run[m].n /\ r.done = run[m].done
    BY <1>4, <1>5 DEF Own, Phases
  <2>2. /\ UNCHANGED <<active, waiters, disk, crashes>> /\ run[m].phase = "own"
        /\ owned' = owned \cup {<<m, run[m].n>>}
    BY <1>5 DEF Own, Checkout
  <2>3. r.n \in 1 .. MaxRuns /\ r.n # 0 /\ r.done < Commands
    BY <1>1, <2>1, <2>2, HostNumbers DEF HInv, Working, Busy, Runs
  <2>4. run' \in [Members -> Runs] /\ Working' /\ OwnsCheckout' /\ CheckoutStands'
    BY <2>1, <2>2, <2>3, OneRun DEF Busy, InUse
  <2>5. IsFiniteSet(Holders)' /\ SlotsAccounted'
    BY <2>1, <2>2, SlotsKept
  <2>6. owned' \subseteq Checkouts
    BY <2>1, <2>2, <2>3 DEF HInv, HostTypeOK, Checkouts
  <2> QED
    BY <2>2, <2>4, <2>5, <2>6 DEF HInv, HostTypeOK, Runs, Checkouts
<1>6. CASE Prepare(m)
  <2>1. PICK r \in Runs : /\ run' = [run EXCEPT ![m] = r]
                          /\ r.phase \in {"remove", "acquire"} /\ r.n = run[m].n /\ r.done = run[m].done
                          /\ disk' \in {disk, disk \cup {<<m, run[m].n>>}}
                          /\ r.phase = "acquire" => disk' = disk \cup {<<m, run[m].n>>}
    BY <1>4, <1>6 DEF Prepare, Phases, Checkout
  <2>2. UNCHANGED <<active, waiters, owned, crashes>> /\ run[m].phase = "prepare"
    BY <1>6 DEF Prepare
  <2>3. r.n \in 1 .. MaxRuns /\ r.n # 0 /\ r.done < Commands /\ <<m, r.n>> \in owned
    BY <1>1, <2>1, <2>2, HostNumbers DEF HInv, Working, Busy, Runs, OwnsCheckout, Checkout
  <2>4. run' \in [Members -> Runs] /\ Working' /\ OwnsCheckout' /\ CheckoutStands'
    BY <2>1, <2>2, <2>3, OneRun DEF Busy, InUse
  <2>5. IsFiniteSet(Holders)' /\ SlotsAccounted'
    BY <2>1, <2>2, SlotsKept
  <2>6. disk' \subseteq Checkouts
    BY <2>1, <2>2, <2>3 DEF HInv, HostTypeOK, Checkouts
  <2> QED
    BY <2>2, <2>4, <2>5, <2>6 DEF HInv, HostTypeOK, Runs, Checkouts
<1>7. CASE Resume(m)
  <2>1. PICK r \in Runs : /\ run' = [run EXCEPT ![m] = r]
                          /\ r.phase = "running" /\ r.n = run[m].n /\ r.done = run[m].done
    BY <1>4, <1>7 DEF Resume, Phases
  <2>2. UNCHANGED <<active, waiters, owned, disk, crashes>> /\ run[m].phase = "handed"
    BY <1>7 DEF Resume
  <2>3. r.n # 0 /\ r.done < Commands /\ <<m, r.n>> \in owned /\ <<m, r.n>> \in disk
    BY <2>1, <2>2 DEF HInv, Working, Busy, InUse, OwnsCheckout, CheckoutStands, Checkout
  <2>4. run' \in [Members -> Runs] /\ Working' /\ OwnsCheckout' /\ CheckoutStands'
    BY <2>1, <2>2, <2>3, OneRun DEF Busy, InUse
  <2>5. IsFiniteSet(Holders)' /\ SlotsAccounted'
    BY <2>1, <2>2, SlotsKept
  <2> QED
    BY <2>2, <2>4, <2>5 DEF HInv, HostTypeOK, Runs, Checkouts
<1> QED
  BY <1>2, <1>3, <1>5, <1>6, <1>7

\* A run that finds a free slot takes it; it queues only where all are taken.
LEMMA AcquireStep == ASSUME HInv, NEW m \in Members, Acquire(m) PROVE HInv'
<1>1. /\ run[m] \in Runs /\ run \in [Members -> Runs] /\ run[m].phase = "acquire"
      /\ UNCHANGED <<owned, disk, crashes>>
  BY DEF HInv, HostTypeOK, Runs, Acquire
<1>2. PICK p \in {"remove", "handed", "queued"} :
        /\ Goto(m, p)
        /\ p = "remove" => UNCHANGED <<active, waiters>>
        /\ p = "handed" => active < Limit /\ active' = active + 1 /\ UNCHANGED waiters
        /\ p = "queued" => ~(active < Limit) /\ waiters' = Append(waiters, m) /\ UNCHANGED active
  BY DEF Acquire
<1> DEFINE r == [run[m] EXCEPT !.phase = p]
<1>3. r \in Runs /\ r.phase = p /\ r.n = run[m].n /\ r.done = run[m].done
  BY <1>1, <1>2 DEF Runs, Phases
<1>4. run' = [run EXCEPT ![m] = r]
  BY <1>2 DEF Goto
<1> HIDE DEF r
<1>5. r.n # 0 /\ r.done < Commands /\ <<m, r.n>> \in owned /\ <<m, r.n>> \in disk
  BY <1>1, <1>3 DEF HInv, Working, Busy, InUse, OwnsCheckout, CheckoutStands, Checkout
<1>6. run' \in [Members -> Runs] /\ Working' /\ OwnsCheckout' /\ CheckoutStands'
  BY <1>1, <1>2, <1>3, <1>4, <1>5, OneRun DEF Busy, InUse
<1>7. run'[m] = r /\ \A k \in Members \ {m} : run'[k] = run[k]
  BY <1>1, <1>4
<1>8. /\ active \in 0 .. Limit /\ waiters \in Seq(Members) /\ IsInjective(waiters)
      /\ IsFiniteSet(Holders) /\ active = Cardinality(Holders) /\ ToSet(waiters) = Queued
      /\ waiters # <<>> => active = Limit
      /\ m \notin Holders /\ m \notin Queued
  BY <1>1 DEF HInv, HostTypeOK, SlotsAccounted, Holders, Queued
<1>9. CASE p = "remove"
  <2>1. IsFiniteSet(Holders)' /\ SlotsAccounted'
    BY <1>1, <1>2, <1>3, <1>4, <1>9, SlotsKept
  <2> QED
    BY <1>1, <1>2, <1>6, <1>9, <2>1 DEF HInv, HostTypeOK, Runs, Checkouts
<1>10. CASE p = "handed"
  <2>1. Holders' = Holders \cup {m} /\ Queued' = Queued
    BY <1>1, <1>3, <1>7, <1>10 DEF Holders, Queued
  <2>2. IsFiniteSet(Holders') /\ Cardinality(Holders') = active'
    BY <1>2, <1>8, <1>10, <2>1, FS_AddElement
  <2>3. active' \in 0 .. Limit /\ waiters' = <<>>
    BY <1>2, <1>8, <1>10, HostNumbers
  <2>4. SlotsAccounted' /\ IsFiniteSet(Holders)'
    BY <1>2, <1>8, <1>10, <2>1, <2>2, <2>3 DEF SlotsAccounted, Holders, Queued
  <2> QED
    BY <1>1, <1>2, <1>6, <1>8, <1>10, <2>3, <2>4 DEF HInv, HostTypeOK, Runs, Checkouts
<1>11. CASE p = "queued"
  <2>1. Holders' = Holders /\ Queued' = Queued \cup {m}
    BY <1>1, <1>3, <1>7, <1>11 DEF Holders, Queued
  <2>2. /\ waiters' \in Seq(Members) /\ IsInjective(waiters')
        /\ ToSet(waiters') = Queued \cup {m}
    <3>1. /\ Append(waiters, m) \in Seq(Members) /\ IsInjective(Append(waiters, m))
          /\ ToSet(Append(waiters, m)) = Queued \cup {m}
      BY <1>8, Queueing
    <3> QED
      BY <1>2, <1>11, <3>1
  <2>3. active' = Limit
    BY <1>2, <1>8, <1>11, HostNumbers
  <2>4. SlotsAccounted' /\ IsFiniteSet(Holders)'
    BY <1>2, <1>8, <1>11, <2>1, <2>2, <2>3 DEF SlotsAccounted, Holders, Queued
  <2> QED
    BY <1>1, <1>2, <1>6, <1>8, <1>11, <2>2, <2>4 DEF HInv, HostTypeOK, Runs, Checkouts
<1> QED
  BY <1>2, <1>9, <1>10, <1>11

\* A run that is over hands its slot to the oldest waiter, or frees it.
LEMMA CommandStep == ASSUME HInv, NEW m \in Members, Command(m) PROVE HInv'
<1>1. /\ run[m] \in Runs /\ run \in [Members -> Runs] /\ run[m].phase = "running"
      /\ UNCHANGED <<owned, disk, crashes>>
  BY DEF HInv, HostTypeOK, Runs, Command
<1>2. /\ run[m].n # 0 /\ run[m].done < Commands
      /\ <<m, run[m].n>> \in owned /\ <<m, run[m].n>> \in disk
  BY <1>1 DEF HInv, Working, Busy, InUse, OwnsCheckout, CheckoutStands, Checkout
<1>3. /\ active \in 0 .. Limit /\ waiters \in Seq(Members) /\ IsInjective(waiters)
      /\ IsFiniteSet(Holders) /\ active = Cardinality(Holders) /\ ToSet(waiters) = Queued
      /\ waiters # <<>> => active = Limit
      /\ m \in Holders /\ m \notin Queued
  BY <1>1 DEF HInv, HostTypeOK, SlotsAccounted, Holders, Queued
<1> DEFINE over == [run[m] EXCEPT !.phase = "remove"]
           after == [run EXCEPT ![m] = over]
<1>4. over \in Runs /\ over.phase = "remove" /\ over.n = run[m].n
  BY <1>1 DEF Runs, Phases
<1>5. CASE /\ run' = [run EXCEPT ![m].done = @ + 1] /\ run[m].done + 1 # Commands
           /\ UNCHANGED <<active, waiters>>
  <2> DEFINE r == [run[m] EXCEPT !.done = @ + 1]
  <2>1. r \in Runs /\ r.phase = "running" /\ r.n = run[m].n /\ r.done < Commands
    <3>1. run[m].done + 1 \in 0 .. Commands /\ run[m].done + 1 < Commands
      BY <1>1, <1>2, <1>5, HostNumbers DEF Runs
    <3> QED
      BY <1>1, <3>1 DEF Runs
  <2>2. run' = [run EXCEPT ![m] = r]
    BY <1>5
  <2> HIDE DEF r
  <2>3. run' \in [Members -> Runs] /\ Working' /\ OwnsCheckout' /\ CheckoutStands'
    BY <1>1, <1>2, <2>1, <2>2, OneRun DEF Busy, InUse
  <2>4. IsFiniteSet(Holders)' /\ SlotsAccounted'
    BY <1>1, <1>5, <2>1, <2>2, SlotsKept
  <2> QED
    BY <1>1, <1>5, <2>3, <2>4 DEF HInv, HostTypeOK, Runs, Checkouts
<1>6. CASE waiters = <<>> /\ active' = active - 1 /\ run' = after /\ UNCHANGED waiters
  <2>1. run' \in [Members -> Runs] /\ Working' /\ OwnsCheckout' /\ CheckoutStands'
    <3>1. run' = [run EXCEPT ![m] = over]
      BY <1>6
    <3> HIDE DEF over
    <3> QED
      BY <1>1, <1>2, <1>4, <3>1, OneRun DEF Busy, InUse
  <2>2. run'[m] = over /\ \A k \in Members \ {m} : run'[k] = run[k]
    BY <1>1, <1>6
  <2>3. Holders' = Holders \ {m} /\ Queued' = Queued
    BY <1>1, <1>4, <2>2 DEF Holders, Queued
  <2>4. IsFiniteSet(Holders') /\ Cardinality(Holders') = active'
    BY <1>3, <1>6, <2>3, FS_RemoveElement
  <2>5. active' \in 0 .. Limit
    <3>1. active # 0
      BY <1>3, FS_EmptySet
    <3> QED
      BY <1>3, <1>6, <3>1, HostNumbers
  <2>6. SlotsAccounted' /\ IsFiniteSet(Holders)'
    BY <1>3, <1>6, <2>3, <2>4 DEF SlotsAccounted, Holders, Queued
  <2> QED
    BY <1>1, <1>3, <1>6, <2>1, <2>5, <2>6 DEF HInv, HostTypeOK, Runs, Checkouts
<1>7. CASE /\ waiters # <<>>
           /\ run' = [after EXCEPT ![Head(waiters)].phase = "handed"]
           /\ waiters' = Tail(waiters) /\ UNCHANGED active
  <2> DEFINE h == Head(waiters)
             given == [run[h] EXCEPT !.phase = "handed"]
  <2>1. /\ h \in Members /\ h \in Queued /\ waiters' \in Seq(Members) /\ IsInjective(waiters')
        /\ ToSet(waiters') = Queued \ {h}
    BY <1>3, <1>7, Serving
  <2>2. h # m /\ run[h].phase = "queued" /\ run[h] \in Runs
    BY <1>1, <1>3, <2>1 DEF Queued
  <2>3. given \in Runs /\ given.phase = "handed" /\ given.n = run[h].n /\ given.done = run[h].done
    BY <2>2 DEF Runs, Phases
  <2> HIDE DEF h
  <2>4. /\ run' \in [Members -> Runs] /\ run'[m] = over /\ run'[h] = given
        /\ \A k \in Members \ {m, h} : run'[k] = run[k]
    BY <1>1, <1>4, <1>7, <2>1, <2>2, <2>3 DEF h
  <2> HIDE DEF over, after, given
  <2>5. \A k \in Members : Checkout(k)' = Checkout(k)
    BY <1>4, <2>3, <2>4 DEF Checkout
  <2>6. Working'
    BY <1>2, <1>4, <2>2, <2>3, <2>4 DEF HInv, Working, Busy, InUse
  <2>7. OwnsCheckout' /\ CheckoutStands'
    BY <1>1, <1>4, <2>2, <2>3, <2>4, <2>5 DEF HInv, OwnsCheckout, CheckoutStands, InUse
  <2>8. Holders' = (Holders \ {m}) \cup {h} /\ Queued' = Queued \ {h} /\ h \notin Holders
    <3>1. \A k \in Members : k \in Holders' <=> k \in (Holders \ {m}) \cup {h}
      BY <1>4, <2>2, <2>3, <2>4 DEF Holders
    <3>2. \A k \in Members : k \in Queued' <=> k \in Queued \ {h}
      BY <1>1, <1>4, <2>2, <2>3, <2>4 DEF Queued
    <3>3. Holders \subseteq Members /\ Holders' \subseteq Members
      BY DEF Holders
    <3>4. Queued \subseteq Members /\ Queued' \subseteq Members
      BY DEF Queued
    <3>5. h \notin Holders
      BY <2>2 DEF Holders
    <3> QED
      BY <2>1, <3>1, <3>2, <3>3, <3>4, <3>5
  <2>9. IsFiniteSet(Holders') /\ Cardinality(Holders') = active'
    <3>1. IsFiniteSet(Holders \ {m}) /\ Cardinality(Holders \ {m}) = active - 1
      BY <1>3, FS_RemoveElement
    <3>2. h \notin Holders \ {m}
      BY <2>8
    <3>3. /\ IsFiniteSet((Holders \ {m}) \cup {h})
          /\ Cardinality((Holders \ {m}) \cup {h}) = active - 1 + 1
      BY <3>1, <3>2, FS_AddElement
    <3> QED
      BY <1>3, <1>7, <2>8, <3>3, HostNumbers
  <2>10. SlotsAccounted' /\ IsFiniteSet(Holders)'
    BY <1>3, <1>7, <2>1, <2>8, <2>9 DEF SlotsAccounted, Holders, Queued
  <2> QED
    BY <1>1, <1>3, <1>7, <2>1, <2>4, <2>6, <2>7, <2>10 DEF HInv, HostTypeOK, Runs, Checkouts
<1> QED
  BY <1>5, <1>6, <1>7 DEF Command, Release

\* An abort takes a run out of the queue, and no slot from anyone.
LEMMA AbortStep == ASSUME HInv, NEW m \in Members, Abort(m) PROVE HInv'
<1>1. /\ run[m] \in Runs /\ run \in [Members -> Runs] /\ run[m].phase # "idle"
      /\ UNCHANGED <<active, owned, disk, crashes>> /\ waiters' = RemoveFirst(waiters, m)
  BY DEF HInv, HostTypeOK, Runs, Abort
<1> DEFINE p == IF run[m].phase = "queued" THEN "remove" ELSE run[m].phase
           r == [run[m] EXCEPT !.aborted = TRUE, !.phase = p]
<1>2. r \in Runs /\ r.phase = p /\ r.n = run[m].n /\ r.done = run[m].done
  BY <1>1 DEF Runs, Phases
<1>3. run' = [run EXCEPT ![m] = r]
  BY <1>1 DEF Abort
<1> HIDE DEF r
<1>4. run' \in [Members -> Runs] /\ Working' /\ OwnsCheckout' /\ CheckoutStands'
  <2>1. /\ r.n # 0 /\ (r.phase = "validate" => r.done = 0) /\ (r.phase \in Busy => r.done < Commands)
        /\ r.phase \in InUse \cup {"prepare", "remove", "sweep"} => <<m, r.n>> \in owned
        /\ r.phase \in InUse => <<m, r.n>> \in disk
    BY <1>1, <1>2 DEF HInv, Working, OwnsCheckout, CheckoutStands, Checkout, Busy, InUse
  <2> QED
    BY <1>1, <1>2, <1>3, <2>1, OneRun
<1>5. run'[m] = r /\ \A k \in Members \ {m} : run'[k] = run[k]
  BY <1>1, <1>3
<1>6. Holders' = Holders /\ Queued' = Queued \ {m}
  <2>1. Holders' = Holders
    BY <1>1, <1>2, <1>5 DEF Holders
  <2>2. Queued' = Queued \ {m}
    BY <1>1, <1>2, <1>5 DEF Queued
  <2> QED
    BY <2>1, <2>2
<1>7. waiters \in Seq(Members) /\ IsInjective(waiters) /\ ToSet(waiters) = Queued
  BY DEF HInv, HostTypeOK, SlotsAccounted, Queued
<1>8. /\ waiters' \in Seq(Members) /\ IsInjective(waiters') /\ ToSet(waiters') = Queued \ {m}
      /\ waiters = <<>> => waiters' = <<>>
  <2>1. /\ RemoveFirst(waiters, m) \in Seq(Members) /\ IsInjective(RemoveFirst(waiters, m))
        /\ ToSet(RemoveFirst(waiters, m)) = Queued \ {m}
        /\ waiters = <<>> => RemoveFirst(waiters, m) = <<>>
    BY <1>7, Withdrawing
  <2> QED
    BY <1>1, <2>1
<1>9. SlotsAccounted' /\ IsFiniteSet(Holders)'
  BY <1>1, <1>6, <1>8 DEF HInv, SlotsAccounted, Holders, Queued
<1> QED
  BY <1>1, <1>4, <1>8, <1>9 DEF HInv, HostTypeOK, Runs, Checkouts

\* The cleanup of a run takes its own checkout and leftovers, and no one's in use.
LEMMA CleanupStep == ASSUME HInv, NEW m \in Members, RemoveOwn(m) \/ Sweep(m) PROVE HInv'
<1>1. /\ run[m] \in Runs /\ run \in [Members -> Runs] /\ run[m].phase \in {"remove", "sweep"}
      /\ UNCHANGED <<active, waiters, crashes>>
  BY DEF HInv, HostTypeOK, Runs, RemoveOwn, Sweep
<1>2. \A k \in Members \ {m} : Checkout(k) # Checkout(m)
  BY DEF Checkout
<1>3. PICK r \in Runs :
        /\ run' = [run EXCEPT ![m] = r]
        /\ \/ r.phase = "sweep" /\ r.n = run[m].n /\ run[m].phase = "remove" /\ UNCHANGED owned
              /\ disk' \in {disk, disk \ {Checkout(m)}}
           \/ r.phase = "idle" /\ owned' = owned \ {Checkout(m)} /\ disk' \in {disk, disk \cap owned}
  <2>1. CASE RemoveOwn(m)
    <3> DEFINE r == [run[m] EXCEPT !.phase = "sweep"]
    <3>1. r \in Runs /\ r.phase = "sweep" /\ r.n = run[m].n
      BY <1>1 DEF Runs, Phases
    <3>2. run' = [run EXCEPT ![m] = r]
      BY <2>1 DEF RemoveOwn, Goto
    <3> QED
      BY <2>1, <3>1, <3>2 DEF RemoveOwn
  <2>2. CASE Sweep(m)
    <3>1. Idle(run[m].n) \in Runs /\ Idle(run[m].n).phase = "idle"
      BY <1>1, HostNumbers DEF Idle, Runs, Phases
    <3>2. run' = [run EXCEPT ![m] = Idle(run[m].n)]
      BY <1>1, <2>2 DEF Sweep, Finish
    <3> QED
      BY <2>2, <3>1, <3>2 DEF Sweep
  <2> QED
    BY <2>1, <2>2
<1>4. \A k \in Members \ {m} :
        /\ Checkout(k) \in owned => Checkout(k) \in owned'
        /\ Checkout(k) \in owned \cap disk => Checkout(k) \in disk'
  BY <1>2, <1>3
<1>5. /\ r.phase = "sweep" => r.n # 0 /\ <<m, r.n>> \in owned'
      /\ r.phase \in {"idle", "sweep"}
  BY <1>1, <1>3 DEF HInv, Working, OwnsCheckout, Checkout
<1>6. run' \in [Members -> Runs] /\ Working' /\ OwnsCheckout' /\ CheckoutStands'
  BY <1>3, <1>4, <1>5, OneRun DEF Busy, InUse
<1>7. IsFiniteSet(Holders)' /\ SlotsAccounted'
  BY <1>1, <1>3, <1>5, SlotsKept
<1>8. owned' \subseteq Checkouts /\ disk' \subseteq Checkouts
  BY <1>3 DEF HInv, HostTypeOK
<1> QED
  BY <1>1, <1>6, <1>7, <1>8 DEF HInv, HostTypeOK, Runs, Checkouts

\* A lost process holds no slot, no queue and no checkout.
LEMMA CrashStep == ASSUME HInv, Crash PROVE HInv'
<1>1. /\ run' = [k \in Members |-> Idle(run[k].n)]
      /\ active' = 0 /\ waiters' = <<>> /\ owned' = {} /\ disk' = disk
      /\ crashes < MaxCrashes /\ crashes' = crashes + 1
  BY DEF Crash
<1>2. \A k \in Members : run'[k] \in Runs /\ run'[k].phase = "idle"
  BY <1>1, HostNumbers DEF HInv, HostTypeOK, Runs, Idle, Phases
<1>3. Holders' = {} /\ Queued' = {}
  BY <1>2 DEF Holders, Queued
<1>4. HostTypeOK'
  <2>1. run' \in [Members -> Runs]
    BY <1>1, <1>2
  <2>2. waiters' \in Seq(Members) /\ IsInjective(waiters')
    BY <1>1, EmptySeq DEF IsInjective
  <2> QED
    BY <1>1, <2>1, <2>2, HostNumbers DEF HInv, HostTypeOK, Runs, Checkouts
<1>5. SlotsAccounted' /\ IsFiniteSet(Holders)'
  <2>1. ToSet(waiters') = {}
    BY <1>1, EmptySeq DEF ToSet
  <2>2. Cardinality(Holders') = 0 /\ IsFiniteSet(Holders')
    BY <1>3, FS_EmptySet
  <2> QED
    BY <1>1, <1>3, <2>1, <2>2 DEF SlotsAccounted, Holders, Queued
<1>6. Working' /\ OwnsCheckout' /\ CheckoutStands'
  BY <1>2, Zenon DEF Working, OwnsCheckout, CheckoutStands, Busy, InUse
<1> QED
  BY <1>4, <1>5, <1>6 DEF HInv

LEMMA HInvStep == HInv /\ [HostNext]_hostVars => HInv'
<1> SUFFICES ASSUME HInv, [HostNext]_hostVars PROVE HInv'
  OBVIOUS
<1>1. CASE Crash
  BY <1>1, CrashStep
<1>2. ASSUME NEW m \in Members, Begin(m) \/ Validate(m) \/ Own(m) \/ Prepare(m) \/ Resume(m)
      PROVE  HInv'
  BY <1>2, PhaseStep
<1>3. ASSUME NEW m \in Members, Acquire(m) PROVE HInv'
  BY <1>3, AcquireStep
<1>4. ASSUME NEW m \in Members, Command(m) PROVE HInv'
  BY <1>4, CommandStep
<1>5. ASSUME NEW m \in Members, Abort(m) PROVE HInv'
  BY <1>5, AbortStep
<1>6. ASSUME NEW m \in Members, RemoveOwn(m) \/ Sweep(m) PROVE HInv'
  BY <1>6, CleanupStep
<1>7. CASE UNCHANGED hostVars
  BY <1>7 DEF hostVars, HInv, HostTypeOK, Working, Holders, SlotsAccounted, OwnsCheckout,
     CheckoutStands, Checkout
<1> QED
  BY <1>1, <1>2, <1>3, <1>4, <1>5, <1>6, <1>7 DEF HostNext, Advance
-----------------------------------------------------------------------------
\* The runs of the host, its slots, queue and checkouts agree throughout.
THEOREM HostInvariant == HostSpec => []HInv
  BY HInvInit, HInvStep, PTL DEF HostSpec

\* No abort, hand-over, failure or crash loses a slot of the host or lends one twice, and
\* none waits while one is free (CheckSemaphore).
THEOREM SlotsAreAccounted == HostSpec => []SlotsAccounted
<1>1. HInv => SlotsAccounted
  BY DEF HInv
<1> QED
  BY <1>1, HostInvariant, PTL

\* The checkout a run's commands need stands until the run removes it: no sweep of another
\* run takes it for a leftover (cleanupVerification).
THEOREM CheckoutsStand == HostSpec => []CheckoutStands
<1>1. HInv => CheckoutStands
  BY DEF HInv
<1> QED
  BY <1>1, HostInvariant, PTL
-----------------------------------------------------------------------------
\* The assignments of an attempt, in the environment the adapter declares or in none.
Letters == [env : {e1, None}, sent : BOOLEAN]

\* What a pass that was run ended with: only its last command may have failed.
Ran(results) ==
    /\ Len(results) \in 1 .. Checks
    /\ \A i \in 1 .. Len(results) - 1 : results[i] = "ok"
    /\ results[Len(results)] # "ok" \/ Len(results) = Checks

AttemptRows == [n : Nat, held : BOOLEAN]

Verifications ==
    [phase : {"authorize", "running", "judge", "decided", "over"}, attempt : Nat, pass : {1, 2},
     results : Seq(Declared!Outcomes), env : {e1, e2}]

\* The later of two assignments is the one that may be unsent.
LettersOwed ==
    /\ mail \in Seq(Letters) /\ Len(mail) <= 2
    /\ Len(mail) = 2 => mail[1].sent

VInv ==
    /\ attempt \in AttemptRows
    /\ LettersOwed
    /\ calls \in Seq(Verifications)
    /\ \A c \in 1 .. Len(calls) : calls[c].phase \in {"judge", "decided"} => Ran(calls[c].results)
    /\ Declared!VerdictFounded

LEMMA VerdictNumbers ==
    /\ Checks \in Nat \ {0} /\ None # e1
    /\ Failures \subseteq Declared!Unexecuted \cup {"assertion"}
  BY VerdictBounds DEF Declared!DeclaredChecksConstants

LEMMA LettersAre ==
    ASSUME LettersOwed
    PROVE  /\ mail \in [1 .. Len(mail) -> Letters] /\ DOMAIN mail = 1 .. Len(mail)
           /\ Len(mail) \in Nat /\ Len(mail) <= 2
  BY DEF LettersOwed

LEMMA SentLetters == ASSUME LettersOwed PROVE
    /\ Declared!Sent(mail) \in Seq(Letters) /\ Len(Declared!Sent(mail)) = Len(mail)
    /\ \A i \in 1 .. Len(mail) : Declared!Sent(mail)[i].sent /\ Declared!Sent(mail)[i].env = mail[i].env
<1>1. mail \in [1 .. Len(mail) -> Letters] /\ Len(mail) \in Nat /\ DOMAIN mail = 1 .. Len(mail)
  BY LettersAre
<1> DEFINE letter(i) == [mail[i] EXCEPT !.sent = TRUE]
<1>2. \A i \in 1 .. Len(mail) : letter(i) \in Letters /\ letter(i).sent /\ letter(i).env = mail[i].env
  BY <1>1 DEF Letters
<1>3. Declared!Sent(mail) = [i \in 1 .. Len(mail) |-> letter(i)]
  BY <1>1 DEF Declared!Sent
<1> HIDE DEF letter
<1> QED
  BY <1>1, <1>2, <1>3

LEMMA DeliveredIs ==
    ASSUME LettersOwed, NEW k \in 1 .. Len(mail), mail[k].env = e1 PROVE Declared!Delivered = e1
<1> DEFINE carry == {i \in DOMAIN mail : mail[i].env # None}
<1>0. mail \in [1 .. Len(mail) -> Letters] /\ Len(mail) \in Nat /\ Len(mail) <= 2
      /\ DOMAIN mail = 1 .. Len(mail)
  BY LettersAre
<1>1. carry \subseteq {1, 2} /\ k \in carry
  BY <1>0, VerdictNumbers
<1>2. \A i \in carry : mail[i].env = e1
  BY <1>0 DEF Letters
<1> DEFINE first == CHOOSE i \in carry : \A j \in carry : i <= j
<1>3. Declared!Delivered = mail[first].env
  BY <1>1 DEF Declared!Delivered
<1> HIDE DEF carry
<1>4. \E i \in carry : \A j \in carry : i <= j
  <2>1. CASE 1 \in carry
    BY <1>1, <2>1
  <2>2. CASE 1 \notin carry
    <3>1. \A j \in carry : j = 2
      BY <1>1, <2>2
    <3> QED
      BY <1>1, <3>1
  <2> QED
    BY <2>1, <2>2
<1>5. first \in carry
  BY <1>4
<1> QED
  BY <1>2, <1>3, <1>5

\* A step that moves neither the calls nor the verdict.
LEMMA OnlyLetters ==
    ASSUME VInv, LettersOwed', attempt' \in AttemptRows, UNCHANGED <<calls, verdict>>
    PROVE  VInv'
  BY DEF VInv, Declared!VerdictFounded, Declared!Passed

LEMMA Withheld ==
    ASSUME VInv PROVE \A b \in BOOLEAN : [attempt EXCEPT !.held = b] \in AttemptRows
  BY DEF VInv, AttemptRows

LEMMA AssignedStep == ASSUME VInv, NEW env \in {e1, None}, Declared!Assign(env) PROVE VInv'
<1>1. mail' = <<Declared!Letter(env)>> /\ UNCHANGED <<calls, verdict>>
  BY DEF Declared!Assign
<1>2. Declared!Letter(env) \in Letters
  BY DEF Declared!Letter, Letters
<1>3. LettersOwed'
  BY <1>1, <1>2 DEF LettersOwed
<1>4. attempt' \in AttemptRows
  <2>1. \A b \in BOOLEAN : [n |-> attempt.n + 1, held |-> b] \in AttemptRows
    BY DEF VInv, AttemptRows
  <2> QED
    BY <2>1, Zenon DEF Declared!Assign
<1> QED
  BY <1>1, <1>3, <1>4, OnlyLetters

LEMMA OneMore == ASSUME NEW S, NEW s \in Seq(S), Len(s) = 1, NEW e \in S
                 PROVE  Append(s, e) \in Seq(S) /\ Len(Append(s, e)) = 2 /\ Append(s, e)[1] = s[1]
<1>1. Append(s, e) \in Seq(S) /\ Len(Append(s, e)) = 2
  BY SMT
<1>2. Append(s, e)[1] = s[1]
  BY SMT
<1> QED
  BY <1>1, <1>2

LEMMA RedeliveredStep == ASSUME VInv, NEW env \in {e1, None}, Declared!Redeliver(env) PROVE VInv'
<1> DEFINE sent == Declared!Sent(mail)
<1>1. mail' = Append(sent, Declared!Letter(env)) /\ Len(mail) = 1 /\ UNCHANGED <<calls, verdict>>
  BY DEF Declared!Redeliver
<1>6. attempt' \in AttemptRows
  BY DEF Declared!Redeliver, VInv
<1>2. Declared!Letter(env) \in Letters
  BY DEF Declared!Letter, Letters
<1>3. sent \in Seq(Letters) /\ Len(sent) = 1 /\ sent[1].sent
  BY <1>1, SentLetters DEF VInv
<1> DEFINE letter == Declared!Letter(env)
<1> HIDE DEF sent, letter
<1>4. mail' \in Seq(Letters) /\ Len(mail') = 2 /\ mail'[1] = sent[1]
  <2>1. mail' = Append(sent, letter) /\ letter \in Letters
    BY <1>1, <1>2 DEF letter
  <2>2. /\ Append(sent, letter) \in Seq(Letters) /\ Len(Append(sent, letter)) = 2
        /\ Append(sent, letter)[1] = sent[1]
    BY <1>3, <2>1, OneMore
  <2> QED
    BY <1>3, <2>1, <2>2
<1>5. LettersOwed'
  BY <1>3, <1>4 DEF LettersOwed
<1> QED
  BY <1>1, <1>5, <1>6, OnlyLetters

LEMMA SendStep == ASSUME VInv, Declared!Send PROVE VInv'
<1>1. mail' = Declared!Sent(mail) /\ UNCHANGED <<calls, verdict>>
  BY DEF Declared!Send
<1>2. LettersOwed'
  BY <1>1, SentLetters DEF VInv, LettersOwed
<1>3. attempt' \in AttemptRows
  BY DEF Declared!Send, VInv
<1> QED
  BY <1>1, <1>2, <1>3, OnlyLetters

\* A step that moves calls, but not the letters: what a call it moved goes on with was run,
\* or it has no results that count.
LEMMA CallsMoved ==
    ASSUME VInv, UNCHANGED mail, attempt' \in AttemptRows,
           calls' \in Seq(Verifications), Declared!VerdictFounded',
           \A c \in 1 .. Len(calls') : calls'[c].phase \in {"judge", "decided"} => Ran(calls'[c].results)
    PROVE  VInv'
  BY DEF VInv, LettersOwed, Ran

LEMMA OneMoved ==
    ASSUME VInv, UNCHANGED mail, attempt' \in AttemptRows,
           Declared!VerdictFounded', NEW c \in 1 .. Len(calls),
           NEW one \in Verifications, calls' = [calls EXCEPT ![c] = one],
           one.phase \in {"judge", "decided"} => Ran(one.results)
    PROVE  VInv'
<1>1. calls \in [1 .. Len(calls) -> Verifications] /\ Len(calls) \in Nat /\ DOMAIN calls = 1 .. Len(calls)
  BY DEF VInv
<1>2. calls' \in [1 .. Len(calls) -> Verifications] /\ calls'[c] = one
      /\ \A k \in 1 .. Len(calls) : k # c => calls'[k] = calls[k]
  BY <1>1
<1>3. calls' \in Seq(Verifications) /\ Len(calls') = Len(calls)
  BY <1>1, <1>2
<1>4. \A k \in 1 .. Len(calls') : calls'[k].phase \in {"judge", "decided"} => Ran(calls'[k].results)
  BY <1>2, <1>3 DEF VInv
<1> QED
  BY <1>3, <1>4, CallsMoved

\* The calls that returned have no results.
LEMMA OverCalls ==
    ASSUME VInv, NEW ended PROVE
    LET over == Declared!Over(ended) IN
    /\ over \in Seq(Verifications) /\ Len(over) = Len(calls)
    /\ \A k \in 1 .. Len(calls) : over[k] = calls[k] \/ over[k].phase = "over"
<1>1. calls \in [1 .. Len(calls) -> Verifications] /\ Len(calls) \in Nat /\ DOMAIN calls = 1 .. Len(calls)
  BY DEF VInv
<1> DEFINE last(k) == [calls[k] EXCEPT !.phase = "over", !.results = <<>>, !.env = e1]
<1>2. \A k \in 1 .. Len(calls) : last(k) \in Verifications /\ last(k).phase = "over"
  <2>1. \A q \in Verifications : LET l == [q EXCEPT !.phase = "over", !.results = <<>>, !.env = e1]
                                 IN  l \in Verifications /\ l.phase = "over"
    <3>1. <<>> \in Seq(Declared!Outcomes)
      BY EmptySeq
    <3> QED
      BY <3>1 DEF Verifications
  <2> QED
    BY <1>1, <2>1
<1>3. Declared!Over(ended) = [k \in 1 .. Len(calls) |-> IF k \in ended THEN last(k) ELSE calls[k]]
  BY <1>1 DEF Declared!Over, Declared!Calls
<1> HIDE DEF last
<1> QED
  BY <1>1, <1>2, <1>3

LEMMA OverMoved ==
    ASSUME VInv, UNCHANGED mail, attempt' \in AttemptRows,
           NEW ended, calls' = Declared!Over(ended), Declared!VerdictFounded'
    PROVE  VInv'
<1>1. /\ calls' \in Seq(Verifications) /\ Len(calls') = Len(calls)
      /\ \A k \in 1 .. Len(calls) : calls'[k] = calls[k] \/ calls'[k].phase = "over"
  BY OverCalls
<1>2. \A k \in 1 .. Len(calls') : calls'[k].phase \in {"judge", "decided"} => Ran(calls'[k].results)
  BY <1>1 DEF VInv
<1> QED
  BY <1>1, <1>2, CallsMoved

LEMMA SameVerdict == ASSUME VInv, UNCHANGED verdict PROVE Declared!VerdictFounded'
  BY DEF VInv, Declared!VerdictFounded, Declared!Passed

LEMMA BeginStep == ASSUME VInv, Declared!Begin PROVE VInv'
<1> DEFINE new == [phase |-> "authorize", attempt |-> attempt.n, pass |-> 1, results |-> <<>>, env |-> e1]
<1>1. calls' = Append(calls, new) /\ UNCHANGED <<mail, verdict>>
  BY DEF Declared!Begin
<1>2. new \in Verifications /\ new.phase = "authorize"
  BY EmptySeq DEF VInv, Verifications, AttemptRows
<1> HIDE DEF new
<1>3. /\ calls' \in Seq(Verifications) /\ Len(calls') = Len(calls) + 1 /\ Len(calls) \in Nat
      /\ \A k \in 1 .. Len(calls) : calls'[k] = calls[k]
      /\ calls'[Len(calls) + 1] = new
  BY <1>1, <1>2, AppendProperties DEF VInv
<1>4. \A k \in 1 .. Len(calls') : calls'[k].phase \in {"judge", "decided"} => Ran(calls'[k].results)
  BY <1>2, <1>3 DEF VInv
<1>5. attempt' \in AttemptRows
  BY DEF Declared!Begin, VInv
<1> QED
  BY <1>1, <1>3, <1>4, <1>5, SameVerdict, CallsMoved

\* What a pass may end with was run.
LEMMA PassesRan == ASSUME NEW results \in Declared!Passes
                   PROVE  results \in Seq(Declared!Outcomes) /\ Ran(results)
<1>1. CASE results = [i \in 1 .. Checks |-> "ok"]
  <2>1. results \in [1 .. Checks -> Declared!Outcomes]
    BY <1>1 DEF Declared!Outcomes
  <2>2. results \in Seq(Declared!Outcomes) /\ Len(results) = Checks
    BY <2>1, VerdictNumbers
  <2> QED
    BY <1>1, <2>2, VerdictNumbers DEF Ran
<1>2. ASSUME NEW k \in 1 .. Checks, NEW f \in Failures, results = [i \in 1 .. k |-> IF i = k THEN f ELSE "ok"]
      PROVE  results \in Seq(Declared!Outcomes) /\ Ran(results)
  <2>1. f \in Declared!Outcomes /\ f # "ok"
    BY VerdictNumbers DEF Declared!Outcomes, Declared!Unexecuted
  <2>2. results \in [1 .. k -> Declared!Outcomes]
    BY <1>2, <2>1 DEF Declared!Outcomes
  <2>3. results \in Seq(Declared!Outcomes) /\ Len(results) = k /\ k \in Nat
    BY <2>2, VerdictNumbers
  <2> QED
    BY <1>2, <2>1, <2>3, VerdictNumbers DEF Ran
<1>3. \/ results = [i \in 1 .. Checks |-> "ok"]
      \/ \E k \in 1 .. Checks, f \in Failures : results = [i \in 1 .. k |-> IF i = k THEN f ELSE "ok"]
  BY SMT DEF Declared!Passes
<1> QED
  BY <1>1, <1>2, <1>3

LEMMA OneCall ==
    ASSUME VInv, NEW c \in Declared!Calls
    PROVE  c \in 1 .. Len(calls) /\ calls[c] \in Verifications
  BY DEF VInv, Declared!Calls

LEMMA AuthorizeStep == ASSUME VInv, NEW c \in Declared!Calls, Declared!Authorize(c) PROVE VInv'
<1>0. UNCHANGED <<mail, verdict>>
  BY DEF Declared!Authorize
<1>1. CASE calls' = [calls EXCEPT ![c].phase = "running"] /\ UNCHANGED attempt
  <2> DEFINE one == [calls[c] EXCEPT !.phase = "running"]
  <2>1. one \in Verifications /\ one.phase = "running"
    BY OneCall DEF Verifications
  <2>2. calls' = [calls EXCEPT ![c] = one]
    BY <1>1
  <2> HIDE DEF one
  <2> QED
    BY <1>0, <1>1, <2>1, <2>2, OneCall, OneMoved, SameVerdict DEF VInv
<1>2. CASE calls' = Declared!Over({c}) /\ attempt' = [attempt EXCEPT !.held = FALSE]
  <2>1. attempt' \in AttemptRows
    BY <1>2, Withheld
  <2> QED
    BY <1>0, <1>2, <2>1, OverMoved, SameVerdict
<1> QED
  BY <1>1, <1>2 DEF Declared!Authorize

LEMMA RunStep == ASSUME VInv, NEW c \in Declared!Calls, Declared!Run(c) PROVE VInv'
<1>0. UNCHANGED <<mail, verdict, attempt>>
  BY DEF Declared!Run
<1>1. PICK results \in Declared!Passes, env \in {e1, e2} :
        calls' = [calls EXCEPT ![c] = [@ EXCEPT !.phase = "judge", !.results = results, !.env = env]]
  BY DEF Declared!Run
<1> DEFINE one == [calls[c] EXCEPT !.phase = "judge", !.results = results, !.env = env]
<1>2. one \in Verifications /\ one.results = results
  BY OneCall, PassesRan DEF Verifications
<1>3. calls' = [calls EXCEPT ![c] = one]
  BY <1>1
<1> HIDE DEF one
<1> QED
  BY <1>0, <1>2, <1>3, OneCall, OneMoved, SameVerdict, PassesRan DEF VInv

LEMMA ThrowStep == ASSUME VInv, NEW c \in Declared!Calls, Declared!Throw(c) PROVE VInv'
<1>1. calls' = Declared!Over({c}) /\ UNCHANGED <<attempt, mail, verdict>>
  BY DEF Declared!Throw
<1> QED
  BY <1>1, OverMoved, SameVerdict DEF VInv

LEMMA JudgeStep == ASSUME VInv, NEW c \in Declared!Calls, Declared!Judge(c) PROVE VInv'
<1>0. UNCHANGED <<mail, verdict, attempt>> /\ calls[c].phase = "judge"
  BY DEF Declared!Judge
<1>1. CASE calls' = [calls EXCEPT ![c].phase = "decided"]
  <2> DEFINE one == [calls[c] EXCEPT !.phase = "decided"]
  <2>1. one \in Verifications /\ one.results = calls[c].results
    BY OneCall DEF Verifications
  <2>2. calls' = [calls EXCEPT ![c] = one]
    BY <1>1
  <2>3. Ran(calls[c].results)
    BY <1>0, OneCall DEF VInv
  <2> HIDE DEF one
  <2> QED
    BY <1>0, <1>1, <2>1, <2>2, <2>3, OneCall, OneMoved, SameVerdict DEF VInv
<1>2. CASE calls' = [calls EXCEPT ![c] = [@ EXCEPT !.phase = "authorize", !.pass = 2]]
  <2> DEFINE one == [calls[c] EXCEPT !.phase = "authorize", !.pass = 2]
  <2>1. one \in Verifications /\ one.phase = "authorize"
    BY OneCall DEF Verifications
  <2>2. calls' = [calls EXCEPT ![c] = one]
    BY <1>2
  <2> HIDE DEF one
  <2> QED
    BY <1>0, <1>2, <2>1, <2>2, OneCall, OneMoved, SameVerdict DEF VInv
<1> QED
  BY <1>1, <1>2 DEF Declared!Judge

LEMMA ReproducedTold ==
    ASSUME VInv, NEW c \in Declared!Calls, Declared!Reproduced(c)
    PROVE  {mail[i].env : i \in DOMAIN mail} \subseteq {None, calls[c].env}
<1>1. \A i \in DOMAIN mail : i \in 1 .. Len(mail) /\ mail[i].env \in {e1, None}
  BY LettersAre DEF VInv, Letters
<1>2. CASE \E i \in 1 .. Len(mail) : mail[i].env = e1
  <2>1. Declared!Delivered = e1
    BY <1>2, DeliveredIs DEF VInv
  <2>2. calls[c].env = e1
    BY <2>1, VerdictNumbers DEF Declared!Reproduced, Declared!Compared
  <2> QED
    BY <1>1, <2>2
<1> QED
  BY <1>1, <1>2

\* A verdict on what was run is founded.
LEMMA FoundedStep ==
    ASSUME VInv, NEW c \in Declared!Calls, NEW asked \in {"accept", "reject"}, NEW outcome,
           calls[c].phase = "decided", outcome = Declared!Outcome(c, asked), NEW envs,
           envs = {mail[i].env : i \in DOMAIN mail},
           verdict' = [outcome |-> outcome, asked |-> asked, results |-> calls[c].results,
                       env |-> calls[c].env, told |-> envs]
    PROVE  Declared!VerdictFounded'
<1> DEFINE results == calls[c].results
           last == Len(results)
<1>1. /\ results \in Seq(Declared!Outcomes) /\ Ran(results)
      /\ DOMAIN results = 1 .. last /\ last \in Nat \ {0}
  <2>1. results \in Seq(Declared!Outcomes)
    BY OneCall DEF Verifications
  <2>2. Ran(results)
    BY OneCall DEF VInv
  <2> HIDE DEF results
  <2> QED
    BY <2>1, <2>2, VerdictNumbers DEF Ran
<1>2. /\ verdict'.outcome = outcome /\ verdict'.asked = asked /\ verdict'.results = results
      /\ verdict'.env = calls[c].env /\ verdict'.told = envs
  OBVIOUS
<1>3. Declared!Passed(results) => last = Checks
  BY <1>1 DEF Declared!Passed, Ran
<1>4. ASSUME outcome = "accepted" PROVE Declared!Passed(results) /\ Declared!Reproduced(c)
  BY <1>4 DEF Declared!Outcome
<1>5. ASSUME outcome = "rejected"
      PROVE  /\ ~Declared!RecoveryRequired(results)
             /\ asked = "accept" => ~Declared!Passed(results)
  BY <1>5 DEF Declared!Outcome
<1>6. ASSUME ~Declared!Passed(results), ~Declared!RecoveryRequired(results)
      PROVE  results[last] \notin Declared!Unexecuted
  <2>1. \A i \in 1 .. last : results[i] # "ok" => i = last
    BY <1>1 DEF Ran
  <2>2. results[last] # "ok"
    BY <1>1, <1>6, <2>1 DEF Declared!Passed
  <2> QED
    BY <1>1, <1>6, <2>1, <2>2 DEF Declared!RecoveryRequired
<1> HIDE DEF results
<1>7. outcome = "accepted" =>
        Declared!Passed(results) /\ Len(results) = Checks /\ envs \subseteq {None, calls[c].env}
  BY <1>3, <1>4, ReproducedTold
<1>8. outcome = "rejected" =>
        IF Declared!Passed(results) THEN asked = "reject" ELSE results[Len(results)] \notin Declared!Unexecuted
  BY <1>5, <1>6
<1> QED
  BY <1>2, <1>7, <1>8 DEF Declared!VerdictFounded, Declared!Passed, Declared!Last

LEMMA VerdictStep ==
    ASSUME VInv, NEW c \in Declared!Calls, NEW asked \in {"accept", "reject"}, Declared!Verdict(c, asked)
    PROVE  VInv'
<1>1. calls' = Declared!Over({c}) /\ UNCHANGED mail /\ calls[c].phase = "decided"
  BY DEF Declared!Verdict
<1>2. CASE Declared!Holds(c)
  <2> DEFINE outcome == Declared!Outcome(c, asked)
             kept == outcome = "refused"
             envs == {mail[i].env : i \in DOMAIN mail}
  <2>1. /\ attempt' = [attempt EXCEPT !.held = kept]
        /\ verdict' = [outcome |-> outcome, asked |-> asked, results |-> calls[c].results,
                       env |-> calls[c].env, told |-> envs]
    BY <1>2 DEF Declared!Verdict
  <2>2. kept \in BOOLEAN
    OBVIOUS
  <2>3. Declared!VerdictFounded'
    <3> HIDE DEF envs
    <3> QED
      BY <1>1, <2>1, FoundedStep DEF envs
  <2> HIDE DEF kept
  <2>4. attempt' \in AttemptRows
    BY <2>1, <2>2, Withheld
  <2> QED
    BY <1>1, <2>3, <2>4, OverMoved
<1>3. CASE ~Declared!Holds(c)
  <2>1. UNCHANGED <<verdict, attempt>>
    BY <1>3 DEF Declared!Verdict
  <2> QED
    BY <1>1, <2>1, OverMoved, SameVerdict DEF VInv
<1> QED
  BY <1>2, <1>3

LEMMA FenceStep == ASSUME VInv, Declared!Fence PROVE VInv'
<1>1. attempt' = [attempt EXCEPT !.held = FALSE] /\ UNCHANGED <<mail, calls, verdict>>
  BY DEF Declared!Fence
<1>2. attempt' \in AttemptRows
  BY <1>1, Withheld
<1> QED
  BY <1>1, <1>2, OnlyLetters DEF VInv, LettersOwed

LEMMA VerdictCrashStep == ASSUME VInv, Declared!Crash PROVE VInv'
<1>1. /\ attempt' = [attempt EXCEPT !.held = FALSE] /\ calls' = Declared!Over(Declared!Calls)
      /\ UNCHANGED <<mail, verdict>>
  BY DEF Declared!Crash
<1>2. attempt' \in AttemptRows
  BY <1>1, Withheld
<1> QED
  BY <1>1, <1>2, OverMoved, SameVerdict

LEMMA VerdictInit == Declared!Init => VInv
<1> SUFFICES ASSUME Declared!Init PROVE VInv
  OBVIOUS
<1>1. mail = <<>> /\ calls = <<>> /\ verdict = [outcome |-> "none"]
  BY DEF Declared!Init
<1>2. attempt \in AttemptRows
  <2>1. \A b \in BOOLEAN : [n |-> 0, held |-> b] \in AttemptRows
    BY DEF AttemptRows
  <2> QED
    BY <2>1, Zenon DEF Declared!Init
<1>3. LettersOwed /\ calls \in Seq(Verifications) /\ Len(calls) = 0
  BY <1>1, EmptySeq DEF LettersOwed
<1>4. Declared!VerdictFounded
  BY <1>1 DEF Declared!VerdictFounded
<1> QED
  BY <1>2, <1>3, <1>4 DEF VInv

LEMMA VInvStep == VInv /\ Declared!Next => VInv'
<1> SUFFICES ASSUME VInv, Declared!Next PROVE VInv'
  OBVIOUS
<1>1. ASSUME NEW env \in {e1, None}, Declared!Assign(env) \/ Declared!Redeliver(env) PROVE VInv'
  BY <1>1, AssignedStep, RedeliveredStep
<1>2. CASE Declared!Send \/ Declared!Fence \/ Declared!Begin \/ Declared!Crash
  BY <1>2, SendStep, FenceStep, BeginStep, VerdictCrashStep
<1>3. ASSUME NEW c \in Declared!Calls,
             Declared!Authorize(c) \/ Declared!Run(c) \/ Declared!Throw(c) \/ Declared!Judge(c)
      PROVE  VInv'
  BY <1>3, AuthorizeStep, RunStep, ThrowStep, JudgeStep
<1>4. ASSUME NEW c \in Declared!Calls, NEW asked \in {"accept", "reject"}, Declared!Verdict(c, asked)
      PROVE  VInv'
  BY <1>4, VerdictStep
<1> QED
  BY <1>1, <1>2, <1>3, <1>4, Zenon DEF Declared!Next

\* What a verdict on declared checks rests on keeps to its invariant, for any number of
\* checks, attempts, verifications and restarts.
THEOREM VerdictInvariant == DeliverySpec => []VInv
<1>1. DeliveryInit => VInv
  BY VerdictInit DEF DeliveryInit
<1>2. VInv /\ [DeliveryNext]_<<part, hostVars, checkVars, applyVars, lockVars, workVars>> => VInv'
  <2> SUFFICES ASSUME VInv, [DeliveryNext]_<<part, hostVars, checkVars, applyVars, lockVars, workVars>>
               PROVE  VInv'
    OBVIOUS
  <2>1. CASE Declared!Next
    BY <2>1, VInvStep
  <2>2. CASE UNCHANGED checkVars
    <3>1. UNCHANGED <<attempt, mail, calls, verdict>>
      BY <2>2 DEF checkVars
    <3> QED
      BY <3>1, OnlyLetters DEF VInv, LettersOwed
  <2> QED
    BY <2>1, <2>2, Zenon DEF DeliveryNext
<1> QED
  BY <1>1, <1>2, PTL DEF DeliverySpec

\* Work is accepted only on a pass in which every declared check passed in the environment
\* its reviewer was told of, it is rejected by its reviewer or by a failure of its own, and
\* its worker is owed one assignment at most (verify, judgeChecks, redeliverAssignment).
THEOREM VerdictsAreFounded == DeliverySpec => []VerdictFounded
<1>1. VInv => VerdictFounded
  <2> SUFFICES ASSUME VInv PROVE VerdictFounded
    OBVIOUS
  <2>1. \A i, j \in 1 .. Len(mail) : mail[i].sent \/ mail[j].sent \/ i = j
    <3>1. \A i \in 1 .. Len(mail) : i = 1 \/ (i = 2 /\ Len(mail) = 2)
      BY LettersAre DEF VInv
    <3> QED
      BY <3>1 DEF VInv, LettersOwed
  <2>2. DOMAIN mail = 1 .. Len(mail)
    BY LettersAre DEF VInv
  <2> QED
    BY <2>1, <2>2 DEF VInv, VerdictFounded, Declared!OneAssignmentOwed
<1> QED
  BY <1>1, VerdictInvariant, PTL

-----------------------------------------------------------------------------
\* Applying a delivery (DeliveryApply): the points of an application.
Began == {"move", "moved", "publish", "published"}
Forward == {"next", "stage", "verify"} \cup Began
Undoing == {"undo", "displace", "displaced", "drop", "restore"}
Planned == {"check", "record", "clean"} \cup Forward \cup Undoing

Points == {"idle", "receipt", "plan", "done"} \cup Planned

AnyFile == [ino : Nat, has : SUBSET Int]

\* A file whose contents are the snapshot's, the result's and some of the first e edits.
FileOf(f, e) ==
    /\ f \in AnyFile /\ f.has \subseteq {Applying!Snapshot, Applying!Swarm} \cup 1 .. e
    /\ f.ino = 0 <=> f.has = {}

AppSet ==
    [at : Points, path : Int, hit : BOOLEAN, plan : [Applying!Paths -> AnyFile],
     read : [Applying!Paths -> AnyFile], published : [Applying!Paths -> AnyFile],
     written : SUBSET Applying!Paths, kept : SUBSET Applying!Paths, end : {"none", "applied", "conflicts", "failed"}]

Shaped ==
    /\ app \in AppSet
    /\ {file, backup, before} \subseteq [Applying!Paths -> AnyFile]
    /\ edits \in Nat /\ fresh \in Nat /\ alive \subseteq 1 .. edits
    /\ FileOf(aside, edits)
    /\ \A p \in Applying!Paths :
        /\ FileOf(file[p], edits) /\ FileOf(backup[p], edits) /\ FileOf(before[p], edits)
        /\ FileOf(app.read[p], edits) /\ FileOf(app.published[p], edits)
        /\ app.plan[p].has \subseteq {Applying!Snapshot, Applying!Swarm} \cup 1 .. edits

\* What is aside and what is written, at every point of an application.
Pointed ==
    /\ aside # Applying!Absent => app.at \in {"displaced", "drop"}
    /\ \A p \in Applying!Paths : backup[p] # Applying!Absent => p \in app.written /\ app.at # "done"
    /\ app.at \in {"idle", "receipt", "plan", "check"} => app.written = {}
    /\ app.at \in {"receipt", "plan", "check"} => \A p \in Applying!Paths : app.published[p] = Applying!Absent
    /\ app.at = "done" /\ app.end # "applied" => app.written = {}
    /\ app.at \in {"receipt", "plan"} => app.plan = Applying!Idle.plan
    /\ app.at \in Began \cup {"displace", "displaced", "drop", "restore"} => app.path \in app.written
    /\ app.at = "stage" => app.path \in Applying!Paths \ app.written
    /\ app.at = "move" => backup[app.path] = Applying!Absent
    /\ app.at \in {"publish", "published"} => backup[app.path] = app.read[app.path]
    /\ app.at \in {"displace", "displaced", "drop"} => app.published[app.path] # Applying!Absent
    /\ app.at = "drop" => aside = app.published[app.path]

Handled(p) == p = app.path /\ app.at \in Began

\* A plan adds and drops no edit of the owner.
SameEdits == \A p \in Applying!Paths :
    \A e \in Nat \ {0} : e \in app.read[p].has <=> e \in app.plan[p].has
Merges == app.at \in Planned => SameEdits

\* What was published is what was planned, beside the original that was read.
Works ==
    /\ app.at \in Forward => \A p \in Applying!Paths :
        /\ p \notin app.written \/ Handled(p) => app.published[p] = Applying!Absent
        /\ p \in app.written /\ ~Handled(p) =>
            app.published[p].has = app.plan[p].has /\ backup[p] = app.read[p]
    /\ app.at \in Undoing => \A p \in app.written :
        app.published[p] # Applying!Absent => app.published[p].has = app.plan[p].has /\ backup[p] = app.read[p]
    /\ app.at \in {"verify", "record", "clean"} =>
        \A p \in Applying!Paths \ app.written : app.read[p].has = app.plan[p].has
    /\ app.at \in {"record", "clean"} => \A p \in Applying!Paths : alive \cap backup[p].has \subseteq file[p].has

\* Where a path the owner left alone is.
Alone(p) ==
    /\ app.at # "idle" /\ p \notin app.written => file[p] = before[p]
    /\ app.at \in Planned => app.read[p] = before[p]
    /\ p \in app.written /\ p = app.path /\ app.at = "move" => file[p] = app.read[p]
    /\ p \in app.written /\ p = app.path /\ app.at \in {"moved", "publish", "displaced", "drop", "restore"}
        => file[p] = Applying!Absent /\ backup[p] = app.read[p]
    /\ p \in app.written /\ p = app.path /\ app.at = "published"
        => file[p].has = app.plan[p].has /\ backup[p] = app.read[p]
    /\ p \in app.written /\ app.at \in Forward \cup Undoing
       /\ (p # app.path \/ app.at \notin Began \cup {"displaced", "drop", "restore"})
        => file[p] = app.published[p] /\ backup[p] = app.read[p]
    /\ p = app.path /\ app.at = "displaced" => aside = app.published[p]
    /\ app.at \in {"record", "clean"} => file[p].has = app.plan[p].has
    /\ app.at = "done" /\ app.end = "applied" /\ app.plan # Applying!Idle.plan => file[p].has = app.plan[p].has
LeftAlone == \A p \in Applying!Paths \ touched : Alone(p)

Whole(p) == IF Applying!Result(p) = {} THEN app.plan[p].has = {} ELSE Applying!Swarm \in app.plan[p].has
Reaches ==
    app.at \in Planned \/ (app.at = "done" /\ app.plan # Applying!Idle.plan) =>
        \A p \in Applying!Paths \ app.kept : Whole(p)

\* An edit is in a file, a copy, an original moved aside or what a rollback moved aside.
Somewhere(e) ==
    \/ \E p \in Applying!Paths : e \in file[p].has \/ e \in backup[p].has
    \/ e \in aside.has \/ \E f \in copies : e \in f.has
Survive == \A e \in alive : Somewhere(e)

Diffs == diff \in [added : SUBSET Applying!Paths, removed : SUBSET Applying!Paths] /\ diff.added \cap diff.removed = {}

AInv == Diffs /\ Shaped /\ Pointed /\ Merges /\ Works /\ LeftAlone /\ Reaches /\ Survive

LEMMA ApplyNumbers == Files \in Nat \ {0} /\ {MaxSaves, MaxApplications, MaxDeaths} \subseteq Nat
  BY ApplyingBounds DEF Applying!ApplyBounds

\* No file is the one file without contents.
LEMMA NoFile ==
    /\ \A e \in Nat : FileOf(Applying!Absent, e)
    /\ Applying!Absent.has = {}
    /\ \A f, e : FileOf(f, e) /\ f.has = {} => f = Applying!Absent
    /\ \A f : \A e \in Nat : FileOf(f, e) => FileOf(f, e + 1)
  BY DEF FileOf, AnyFile, Applying!Absent, Applying!Snapshot, Applying!Swarm

\* Held, edit by edit.
LEMMA HeldIs == Survive => Applying!EditsSurvive
<1> SUFFICES ASSUME Survive, NEW e \in alive PROVE e \in Applying!Held
  BY DEF Applying!EditsSurvive
<1>1. Somewhere(e)
  BY DEF Survive
<1> QED
  BY <1>1 DEF Somewhere, Applying!Held

LEMMA AInvInit == Applying!Init => AInv
<1> SUFFICES ASSUME Applying!Init PROVE AInv
  OBVIOUS
<1>1. Applying!Idle \in AppSet /\ Applying!Idle.at = "idle" /\ Applying!Idle.written = {}
      /\ \A p \in Applying!Paths : Applying!Idle.plan[p] = Applying!Absent /\ Applying!Idle.read[p] = Applying!Absent /\ Applying!Idle.published[p] = Applying!Absent
  <2>1. Applying!Absent \in AnyFile
    BY DEF Applying!Absent, AnyFile
  <2>2. Applying!Idle \in AppSet
    <3>1. 0 \in Int /\ "idle" \in Points
      BY DEF Points
    <3> QED
      BY <2>1, <3>1, Zenon DEF Applying!Idle, AppSet
  <2> QED
    BY <2>1, <2>2 DEF Applying!Idle
<1>2. \A p \in Applying!Paths : file[p] = (IF Applying!Base(p) = {} THEN Applying!Absent ELSE [ino |-> p, has |-> Applying!Base(p)])
  BY DEF Applying!Init
<1>3. \A p \in Applying!Paths : Applying!Base(p) = {} \/ Applying!Base(p) = {Applying!Snapshot}
  BY DEF Applying!Base
<1>4. ASSUME NEW p \in Applying!Paths PROVE FileOf(file[p], 0)
  <2>1. CASE Applying!Base(p) = {}
    BY <1>2, <2>1, NoFile
  <2>2. CASE Applying!Base(p) = {Applying!Snapshot}
    <3>1. file[p] = [ino |-> p, has |-> {Applying!Snapshot}] /\ p \in Nat /\ p # 0
      BY <1>2, <2>2, ApplyNumbers DEF Applying!Paths
    <3> QED
      BY <3>1 DEF FileOf, AnyFile, Applying!Snapshot
  <2> QED
    BY <1>3, <2>1, <2>2
<1>5. file \in [Applying!Paths -> AnyFile] /\ backup \in [Applying!Paths -> AnyFile] /\ before = file
  BY <1>2, <1>4 DEF Applying!Init, FileOf, AnyFile, Applying!Absent
<1>6. Shaped
  BY <1>1, <1>4, <1>5, ApplyNumbers, NoFile DEF Applying!Init, Shaped
<1>7. Pointed /\ Merges /\ Works /\ Reaches /\ LeftAlone
  BY <1>1, <1>5 DEF Applying!Init, Pointed, Merges, Works, Reaches, LeftAlone, Alone, Planned, Forward, Began, Undoing
<1> QED
  BY <1>6, <1>7 DEF Applying!Init, AInv, Diffs, Survive

\* The application moves from one point to another and nothing else changes.
SameApp ==
    /\ app'.plan = app.plan /\ app'.read = app.read /\ app'.published = app.published
    /\ app'.kept = app.kept

LEMMA AppMoved ==
    ASSUME app \in AppSet, NEW at \in Points, app' = [app EXCEPT !.at = at]
    PROVE  app' \in AppSet /\ SameApp /\ app'.at = at /\ app'.path = app.path /\ app'.written = app.written
           /\ app'.end = app.end
  BY DEF AppSet, SameApp

\* A write fails: the rollback begins.
LEMMA FailStep ==
    ASSUME AInv, app.at \in Forward, app' = Applying!Fail, Applying!Quiet, diff' = diff,
           app.at \in Began => app.path \in touched
    PROVE  AInv'
<1>1. app' \in AppSet /\ SameApp /\ app'.at = "undo" /\ app'.path = app.path /\ app'.written = app.written
      /\ app'.end = app.end
  <2>1. app \in AppSet /\ app' = [app EXCEPT !.at = "undo"]
    BY DEF Applying!Fail, AInv, Shaped
  <2> QED
    BY <2>1, AppMoved, "undo" \in Points DEF Points, Planned, Undoing
<1>2. Shaped' /\ Merges' /\ Diffs'
  BY <1>1 DEF AInv, Shaped, Merges, SameEdits, SameApp, Applying!Quiet, Applying!owners, Diffs, Planned, Forward, Undoing, Began
<1>3. Pointed'
  BY <1>1 DEF AInv, Pointed, SameApp, Applying!Quiet, Applying!owners, Forward, Began
<1>4. Works'
  <2>1. \A p \in app.written : app.published[p] # Applying!Absent =>
            app.published[p].has = app.plan[p].has /\ backup[p] = app.read[p]
    BY DEF AInv, Works, Shaped, AppSet
  <2>2. app'.at = "undo" /\ backup' = backup /\ SameApp /\ app'.written = app.written
    BY <1>1 DEF Applying!Quiet
  <2> QED
    BY <2>1, <2>2 DEF Works, SameApp, Forward, Began
<1>5. LeftAlone'
  BY <1>1 DEF AInv, LeftAlone, Alone, SameApp, Applying!Quiet, Applying!owners, Forward, Undoing, Began, Planned
<1>6. Reaches' /\ Survive'
  BY <1>1 DEF AInv, Reaches, Whole, Applying!Result, Applying!Base, SameApp, Survive, Somewhere, Applying!Quiet, Applying!owners, Forward, Planned
<1> QED
  BY <1>2, <1>3, <1>4, <1>5, <1>6 DEF AInv

\* The owner acts on one path: an edit that was alive elsewhere still is, and what is alive
\* here is in the file.
LEMMA OwnerStep ==
    ASSUME AInv, NEW p \in Applying!Paths, NEW f, Applying!Acts(p), Applying!Elsewhere, backup' = backup, diff' = diff,
           fresh' \in Nat, file' = [file EXCEPT ![p] = f], FileOf(f, edits + 1),
           alive' \subseteq alive \cup {edits + 1},
           \A e \in alive' : e \in f.has \/ (e \in alive /\ e \notin file[p].has)
    PROVE  AInv'
<1>1. edits' = edits + 1 /\ edits \in Nat /\ touched' = touched \cup {p}
      /\ UNCHANGED <<aside, copies, receipt, app, applied, before, left>>
  BY DEF Applying!Acts, Applying!Elsewhere, AInv, Shaped
<1>2. file' \in [Applying!Paths -> AnyFile] /\ file'[p] = f /\ \A q \in Applying!Paths \ {p} : file'[q] = file[q]
  BY DEF AInv, Shaped, FileOf
<1>3. \A q \in Applying!Paths : FileOf(file'[q], edits + 1) /\ FileOf(backup[q], edits + 1) /\ FileOf(before[q], edits + 1)
        /\ FileOf(app.read[q], edits + 1) /\ FileOf(app.published[q], edits + 1)
  BY <1>1, <1>2, NoFile DEF AInv, Shaped
<1>4. \A q \in Applying!Paths : app.plan[q].has \subseteq {Applying!Snapshot, Applying!Swarm} \cup 1 .. (edits + 1)
  BY <1>1 DEF AInv, Shaped
<1>5. Shaped'
  <2>1. alive' \subseteq 1 .. (edits + 1)
    BY <1>1 DEF AInv, Shaped
  <2>2. FileOf(aside, edits + 1)
    BY <1>1, NoFile DEF AInv, Shaped
  <2> QED
    BY <1>1, <1>2, <1>3, <1>4, <2>1, <2>2 DEF AInv, Shaped
<1>6. Diffs' /\ Pointed' /\ Merges' /\ Reaches'
  BY <1>1 DEF AInv, Diffs, Pointed, Merges, SameEdits, Reaches, Whole, Applying!Result, Applying!Base
<1>7. Works'
  <2>1. ASSUME app.at \in {"record", "clean"}, NEW q \in Applying!Paths, NEW e \in alive', e \in backup[q].has
        PROVE  e \in file'[q].has
    <3>1. e # edits + 1
      BY <1>1, <2>1 DEF AInv, Shaped, FileOf, Applying!Snapshot, Applying!Swarm
    <3>2. e \in alive /\ e \in file[q].has
      BY <2>1, <3>1 DEF AInv, Works
    <3> QED
      BY <1>2, <3>2
  <2> QED
    BY <1>1, <2>1 DEF AInv, Works, Handled
<1>8. LeftAlone'
  BY <1>1, <1>2 DEF AInv, LeftAlone, Alone
<1>9. Survive'
  <2>1. ASSUME NEW e \in alive', e \in f.has PROVE Somewhere(e)'
    BY <1>2, <2>1 DEF Somewhere
  <2>2. ASSUME NEW e \in alive', e \in alive, e \notin file[p].has PROVE Somewhere(e)'
    <3>1. Somewhere(e)
      BY <2>2 DEF AInv, Survive
    <3> QED
      BY <1>1, <1>2, <2>2, <3>1 DEF Somewhere
  <2> QED
    BY <2>1, <2>2 DEF Survive
<1> QED
  BY <1>5, <1>6, <1>7, <1>8, <1>9 DEF AInv

LEMMA SaveStep == ASSUME AInv, NEW p \in Applying!Paths, Applying!Save(p), diff' = diff PROVE AInv'
<1>1. FileOf(file[p], edits) /\ edits \in Nat /\ fresh \in Nat
  BY DEF AInv, Shaped
<1>2. edits' = edits + 1 /\ alive' = alive \cup {edits + 1} /\ backup' = backup
      /\ Applying!Acts(p) /\ Applying!Elsewhere
  BY DEF Applying!Save, Applying!Acts
<1>3. CASE file[p] # Applying!Absent /\ file' = [file EXCEPT ![p].has = @ \cup {edits + 1}] /\ fresh' = fresh
  <2> DEFINE f == [file[p] EXCEPT !.has = @ \cup {edits + 1}]
  <2>1. f.has = file[p].has \cup {edits + 1} /\ f.ino = file[p].ino /\ f \in AnyFile
    BY <1>1 DEF FileOf, AnyFile
  <2>2. FileOf(f, edits + 1)
    BY <1>1, <1>3, <2>1, NoFile DEF FileOf
  <2>3. file' = [file EXCEPT ![p] = f]
    BY <1>3
  <2> HIDE DEF f
  <2> QED
    BY <1>1, <1>2, <1>3, <2>1, <2>2, <2>3, OwnerStep
<1>4. CASE fresh' = fresh + 1
           /\ file' = [file EXCEPT ![p] = [ino |-> fresh + 1, has |-> @.has \cup {edits + 1}]]
  <2> DEFINE f == [ino |-> fresh + 1, has |-> file[p].has \cup {edits + 1}]
  <2>1. f.has = file[p].has \cup {edits + 1} /\ f.ino = fresh + 1 /\ f \in AnyFile
    BY <1>1 DEF FileOf, AnyFile
  <2>2. FileOf(f, edits + 1)
    BY <1>1, <2>1 DEF FileOf
  <2>3. file' = [file EXCEPT ![p] = f]
    BY <1>4
  <2>4. fresh' \in Nat
    BY <1>1, <1>4
  <2> HIDE DEF f
  <2> QED
    BY <1>1, <1>2, <2>1, <2>2, <2>3, <2>4, OwnerStep
<1> QED
  BY <1>2, <1>3, <1>4 DEF Applying!Save

LEMMA DiscardsStep == ASSUME AInv, NEW p \in Applying!Paths, Applying!Discard(p), diff' = diff PROVE AInv'
<1>1. FileOf(file[p], edits) /\ edits \in Nat /\ fresh \in Nat
  BY DEF AInv, Shaped
<1>2. alive' = alive \ file[p].has /\ backup' = backup /\ Applying!Acts(p) /\ Applying!Elsewhere
  BY DEF Applying!Discard
<1>3. CASE file' = [file EXCEPT ![p] = Applying!Absent] /\ fresh' = fresh
  <2>1. FileOf(Applying!Absent, edits + 1)
    BY <1>1, NoFile
  <2> QED
    BY <1>1, <1>2, <1>3, <2>1, OwnerStep
<1>4. CASE Applying!Base(p) # {} /\ fresh' = fresh + 1
           /\ file' = [file EXCEPT ![p] = [ino |-> fresh + 1, has |-> Applying!Base(p)]]
  <2>1. Applying!Base(p) = {Applying!Snapshot}
    BY <1>4 DEF Applying!Base
  <2>2. FileOf([ino |-> fresh + 1, has |-> Applying!Base(p)], edits + 1)
    BY <1>1, <2>1 DEF FileOf, AnyFile, Applying!Snapshot
  <2>3. fresh' \in Nat
    BY <1>1, <1>4
  <2> QED
    BY <1>2, <1>4, <2>2, <2>3, OwnerStep
<1> QED
  BY <1>3, <1>4 DEF Applying!Discard

\* A path is dealt with by the rollback: what it holds is kept, and a path the owner left
\* alone is as it was.
LEMMA DealtStep ==
    ASSUME AInv, NEW p \in app.written, app.at \in Undoing, app.at = "undo" \/ p = app.path,
           app' = Applying!Dealt(p), Applying!Forget(p), aside' = Applying!Absent,
           file' \in [Applying!Paths -> AnyFile], FileOf(file'[p], edits), p \notin touched => file'[p] = before[p],
           \A q \in Applying!Paths \ {p} : file'[q] = file[q],
           \A e \in alive : Somewhere(e)',
           UNCHANGED <<diff, receipt, applied, fresh, edits, alive, touched, before, left>>
    PROVE  AInv'
<1>0. p \in Applying!Paths /\ app \in AppSet
  BY DEF AInv, Shaped, AppSet
<1>1. app' \in AppSet /\ SameApp /\ app'.at = "undo" /\ app'.path = app.path
      /\ app'.written = app.written \ {p} /\ app'.end = app.end
  <2>1. "undo" \in Points
    BY DEF Points, Planned, Undoing
  <2> QED
    BY <1>0, <2>1 DEF Applying!Dealt, AppSet, SameApp
<1>2. /\ backup' \in [Applying!Paths -> AnyFile] /\ backup'[p] = Applying!Absent
      /\ \A q \in Applying!Paths \ {p} : backup'[q] = backup[q]
  BY <1>0, NoFile DEF Applying!Forget, AInv, Shaped, FileOf
<1>3. Shaped' /\ Diffs'
  BY <1>0, <1>1, <1>2, NoFile DEF AInv, Shaped, SameApp, Diffs
<1>4. Merges' /\ Reaches'
  BY <1>1 DEF AInv, Merges, SameEdits, SameApp, Planned, Undoing, Reaches, Whole, Applying!Result, Applying!Base
<1>5. Pointed'
  BY <1>0, <1>1, <1>2 DEF AInv, Pointed, Began
<1>6. Works'
  BY <1>0, <1>1, <1>2 DEF AInv, Works, SameApp, Forward, Began, Undoing, Shaped, AppSet
<1>7. LeftAlone'
  <2> SUFFICES ASSUME NEW q \in Applying!Paths \ touched PROVE Alone(q)'
    BY DEF LeftAlone
  <2>1. Alone(q)
    BY DEF AInv, LeftAlone
  <2>2. CASE q = p
    BY <1>0, <1>1, <2>1, <2>2 DEF Alone, SameApp, Planned, Undoing, Forward, Began
  <2>3. CASE q # p
    BY <1>0, <1>1, <1>2, <2>1, <2>3 DEF Alone, SameApp, Planned, Undoing, Forward, Began
  <2> QED
    BY <2>2, <2>3
<1>8. Survive'
  BY DEF Survive
<1> QED
  BY <1>3, <1>4, <1>5, <1>6, <1>7, <1>8 DEF AInv

\* An application begins or is over: nothing is aside.
LEMMA BoundaryStep ==
    ASSUME AInv, app' \in AppSet, app'.at \in {"idle", "receipt"}, app'.written = {},
           \A p \in Applying!Paths : app'.published[p] = Applying!Absent /\ app'.plan[p] = Applying!Absent /\ app'.read[p] = Applying!Absent,
           app'.plan = Applying!Idle.plan,
           aside' = Applying!Absent, \A p \in Applying!Paths : backup'[p] = Applying!Absent, backup' \in [Applying!Paths -> AnyFile],
           app'.at = "receipt" => before' = file, app'.at = "idle" => before' = before,
           \A e \in alive : Somewhere(e)',
           UNCHANGED <<diff, file, fresh, edits, alive>>
    PROVE  AInv'
<1>1. Shaped' /\ Diffs'
  BY NoFile DEF AInv, Shaped, Diffs
<1>2. Pointed' /\ Merges' /\ Works' /\ Reaches' /\ Survive'
  BY DEF AInv, Pointed, Merges, Works, Reaches, Survive, Planned, Forward, Undoing, Began, Shaped
<1>3. LeftAlone'
  BY DEF LeftAlone, Alone, Planned, Forward, Undoing, Began
<1> QED
  BY <1>1, <1>2, <1>3 DEF AInv

LEMMA IdleIs ==
    /\ Applying!Idle \in AppSet /\ Applying!Idle.at = "idle" /\ Applying!Idle.written = {} /\ Applying!Idle.end = "none"
    /\ \A p \in Applying!Paths : Applying!Idle.plan[p] = Applying!Absent /\ Applying!Idle.read[p] = Applying!Absent /\ Applying!Idle.published[p] = Applying!Absent
    /\ LET started == [Applying!Idle EXCEPT !.at = "receipt"] IN
        /\ started \in AppSet /\ started.at = "receipt" /\ started.plan = Applying!Idle.plan
        /\ started.read = Applying!Idle.read /\ started.published = Applying!Idle.published /\ started.written = {}
<1>1. Applying!Absent \in AnyFile
  BY DEF Applying!Absent, AnyFile
<1>2. 0 \in Int /\ "idle" \in Points /\ "receipt" \in Points
  BY DEF Points
<1>3. Applying!Idle \in AppSet
  BY <1>1, <1>2, Zenon DEF Applying!Idle, AppSet
<1>4. [Applying!Idle EXCEPT !.at = "receipt"] \in AppSet
  BY <1>2, <1>3 DEF AppSet
<1> QED
  BY <1>3, <1>4 DEF Applying!Idle

LEMMA ApplyBeginStep == ASSUME AInv, Applying!Begin, diff' = diff PROVE AInv'
<1>1. app.at = "idle" /\ UNCHANGED <<file, backup, aside, fresh, edits, alive, copies>> /\ before' = file
  BY DEF Applying!Begin
<1>2. app' = [Applying!Idle EXCEPT !.at = "receipt"]
  BY DEF Applying!Begin
<1>3. /\ app' \in AppSet /\ app'.at = "receipt" /\ app'.plan = Applying!Idle.plan /\ app'.written = {}
      /\ \A p \in Applying!Paths : app'.published[p] = Applying!Absent /\ app'.plan[p] = Applying!Absent /\ app'.read[p] = Applying!Absent
  BY <1>2, IdleIs
<1>4. aside = Applying!Absent /\ backup \in [Applying!Paths -> AnyFile] /\ \A p \in Applying!Paths : backup[p] = Applying!Absent
  BY <1>1 DEF AInv, Pointed, Shaped
<1>5. \A e \in alive : Somewhere(e)'
  BY <1>1 DEF AInv, Survive, Somewhere
<1> QED
  BY <1>1, <1>3, <1>4, <1>5, BoundaryStep

LEMMA SettleStep == ASSUME AInv, Applying!Settle, diff' = diff PROVE AInv'
<1>1. app.at = "done" /\ app' = Applying!Idle /\ UNCHANGED <<file, backup, aside, fresh, edits, alive, copies, before>>
  BY DEF Applying!Settle, Applying!owners
<1>2. aside = Applying!Absent /\ backup \in [Applying!Paths -> AnyFile] /\ \A p \in Applying!Paths : backup[p] = Applying!Absent
  BY <1>1 DEF AInv, Pointed, Shaped
<1>3. \A e \in alive : Somewhere(e)'
  BY <1>1 DEF AInv, Survive, Somewhere
<1> QED
  BY <1>1, <1>2, <1>3, IdleIs, BoundaryStep

LEMMA ApplyDieStep == ASSUME AInv, Applying!Die, diff' = diff PROVE AInv'
<1>1. /\ app' = Applying!Idle /\ UNCHANGED <<file, fresh, edits, alive, before>> /\ aside' = Applying!Absent
      /\ backup' = [p \in Applying!Paths |-> Applying!Absent]
      /\ copies' = copies \cup (({backup[p] : p \in Applying!Paths} \cup {aside}) \ {Applying!Absent})
  BY DEF Applying!Die, Applying!owners
<1>2. backup' \in [Applying!Paths -> AnyFile] /\ \A p \in Applying!Paths : backup'[p] = Applying!Absent
  BY <1>1, NoFile DEF FileOf
<1>3. ASSUME NEW e \in alive PROVE Somewhere(e)'
  <2>1. CASE \E p \in Applying!Paths : e \in file[p].has
    BY <1>1, <2>1 DEF Somewhere
  <2>2. CASE \E p \in Applying!Paths : e \in backup[p].has
    <3>1. PICK p \in Applying!Paths : e \in backup[p].has
      BY <2>2
    <3>2. backup[p] \in copies'
      BY <1>1, <3>1, NoFile
    <3> QED
      BY <3>1, <3>2 DEF Somewhere
  <2>3. CASE e \in aside.has
    <3>1. aside \in copies'
      BY <1>1, <2>3, NoFile
    <3> QED
      BY <2>3, <3>1 DEF Somewhere
  <2>4. CASE \E f \in copies : e \in f.has
    BY <1>1, <2>4 DEF Somewhere
  <2> QED
    BY <2>1, <2>2, <2>3, <2>4 DEF AInv, Survive, Somewhere
<1> QED
  BY <1>1, <1>2, <1>3, IdleIs, BoundaryStep

\* The plan.
LEMMA ReadReceiptStep == ASSUME AInv, Applying!ReadReceipt, diff' = diff PROVE AInv'
<1>1. app.at = "receipt" /\ app \in AppSet /\ app.plan = Applying!Idle.plan
  BY DEF Applying!ReadReceipt, AInv, Shaped, Pointed
<1>2. /\ app' \in AppSet /\ SameApp /\ app'.at \in {"plan", "done"} /\ app'.written = app.written
      /\ app'.at = "done" => app'.end = "applied"
  <2>1. CASE app' = [app EXCEPT !.at = "done", !.end = "applied"]
    <3>1. "done" \in Points
      BY DEF Points
    <3> QED
      BY <1>1, <2>1, <3>1 DEF AppSet, SameApp
  <2>2. CASE app' = [app EXCEPT !.at = "plan", !.hit = receipt # <<>>]
    <3> DEFINE h == receipt # <<>>
    <3>1. "plan" \in Points /\ h \in BOOLEAN
      BY DEF Points
    <3>2. app' = [app EXCEPT !.at = "plan", !.hit = h]
      BY <2>2
    <3> HIDE DEF h
    <3> QED
      BY <1>1, <3>1, <3>2 DEF AppSet, SameApp
  <2> QED
    BY <2>1, <2>2 DEF Applying!ReadReceipt
<1>3. UNCHANGED <<file, backup, aside, copies, fresh, edits, alive, touched, before>>
  BY DEF Applying!ReadReceipt, Applying!Quiet, Applying!owners
<1>4. Shaped' /\ Diffs' /\ Survive'
  BY <1>2, <1>3 DEF AInv, Shaped, SameApp, Diffs, Survive, Somewhere
<1>5. Pointed' /\ Merges' /\ Works' /\ Reaches'
  BY <1>1, <1>2, <1>3 DEF AInv, Pointed, Merges, Works, Reaches, SameApp, Planned, Forward, Undoing, Began
<1>6. LeftAlone'
  BY <1>1, <1>2, <1>3 DEF AInv, LeftAlone, Alone, Pointed, SameApp, Planned, Forward, Undoing, Began
<1> QED
  BY <1>4, <1>5, <1>6 DEF AInv

\* What the plan makes of one path: no edit comes or goes, and a path without a conflict
\* is as the delivery wants it.
Merging(p, c) ==
    /\ c \subseteq {Applying!Snapshot, Applying!Swarm} \cup 1 .. edits
    /\ \A e \in Nat \ {0} : e \in file[p].has <=> e \in c
    /\ IF Applying!Result(p) = {} THEN c = {} ELSE Applying!Swarm \in c

LEMMA MergedIs ==
    ASSUME AInv, NEW p \in Applying!Paths, NEW c \in Applying!Merged(p)
    PROVE  c = Applying!Conflict \/ Merging(p, c)
<1>1. FileOf(file[p], edits) /\ edits \in Nat
  BY DEF AInv, Shaped
<1>2. \/ Applying!Base(p) = {} /\ Applying!Result(p) = {Applying!Swarm}
      \/ Applying!Base(p) = {Applying!Snapshot} /\ Applying!Result(p) = {}
      \/ Applying!Base(p) = {Applying!Snapshot} /\ Applying!Result(p) = {Applying!Snapshot, Applying!Swarm}
  BY DEF AInv, Diffs, Applying!Base, Applying!Result
<1>3. \A e \in Nat \ {0} : e # Applying!Snapshot /\ e # Applying!Swarm
  BY DEF Applying!Snapshot, Applying!Swarm
<1>4. Applying!Snapshot # Applying!Swarm
  BY DEF Applying!Snapshot, Applying!Swarm
<1>5. Applying!Base(p) # Applying!Result(p)
  BY <1>2, <1>4
<1>6. CASE c = file[p].has /\ c = Applying!Result(p)
  BY <1>1, <1>2, <1>6 DEF Merging, FileOf
<1>7. CASE c = Applying!Result(p) /\ file[p].has = Applying!Base(p)
  BY <1>1, <1>2, <1>3, <1>7 DEF Merging
<1>8. CASE c = file[p].has \cup Applying!Result(p) /\ Applying!Result(p) # {}
  BY <1>1, <1>2, <1>3, <1>8 DEF Merging, FileOf
<1>9. CASE c = Applying!Conflict
  BY <1>9
<1> QED
  BY <1>5, <1>6, <1>7, <1>8, <1>9 DEF Applying!Merged

LEMMA PlanStep == ASSUME AInv, Applying!Plan, diff' = diff PROVE AInv'
<1>1. app.at = "plan" /\ app \in AppSet /\ app.plan = Applying!Idle.plan /\ app.written = {}
      /\ \A p \in Applying!Paths : app.published[p] = Applying!Absent
  BY DEF Applying!Plan, AInv, Shaped, Pointed
<1>2. UNCHANGED <<file, backup, aside, copies, fresh, edits, alive, touched, before>>
  BY DEF Applying!Plan, Applying!Quiet, Applying!owners
<1>3. PICK m \in [Applying!Paths -> UNION {Applying!Merged(p) : p \in Applying!Paths}] :
        /\ \A p \in Applying!Paths : m[p] \in Applying!Merged(p)
        /\ LET clash == {p \in Applying!Paths : m[p] = Applying!Conflict}
               again == {p \in clash : file[p] = Applying!Absent /\ Applying!Result(p) # {}}
               Out(p) == IF p \in again THEN Applying!Result(p)
                         ELSE IF p \in clash THEN file[p].has ELSE m[p]
           IN  app' = IF clash # {} /\ ~app.hit
                      THEN [app EXCEPT !.at = "done", !.end = "conflicts"]
                      ELSE [app EXCEPT !.at = "check", !.read = file,
                               !.plan = [p \in Applying!Paths |-> [ino |-> 0, has |-> Out(p)]],
                               !.kept = clash \ again]
  BY DEF Applying!Plan
<1> DEFINE clash == {p \in Applying!Paths : m[p] = Applying!Conflict}
           again == {p \in clash : file[p] = Applying!Absent /\ Applying!Result(p) # {}}
           Out(p) == IF p \in again THEN Applying!Result(p)
                     ELSE IF p \in clash THEN file[p].has ELSE m[p]
           plan == [p \in Applying!Paths |-> [ino |-> 0, has |-> Out(p)]]
<1>4. CASE app' = [app EXCEPT !.at = "done", !.end = "conflicts"]
  <2>1. "done" \in Points
    BY DEF Points
  <2>2. app' \in AppSet /\ SameApp /\ app'.at = "done" /\ app'.written = {} /\ app'.end = "conflicts"
    BY <1>1, <1>4, <2>1 DEF AppSet, SameApp
  <2>3. Shaped' /\ Diffs' /\ Survive'
    BY <1>2, <2>2 DEF AInv, Shaped, SameApp, Diffs, Survive, Somewhere
  <2>4. Pointed' /\ Merges' /\ Works' /\ Reaches'
    BY <1>1, <1>2, <2>2 DEF AInv, Pointed, Merges, Works, Reaches, SameApp, Planned, Forward, Undoing, Began
  <2>5. LeftAlone'
    BY <1>1, <1>2, <2>2 DEF AInv, LeftAlone, Alone, Planned, Forward, Undoing, Began
  <2> QED
    BY <2>3, <2>4, <2>5 DEF AInv
<1>5. CASE app' = [app EXCEPT !.at = "check", !.read = file, !.plan = plan, !.kept = clash \ again]
  <2>1. ASSUME NEW p \in Applying!Paths
        PROVE  /\ Out(p) \subseteq {Applying!Snapshot, Applying!Swarm} \cup 1 .. edits
               /\ \A e \in Nat \ {0} : e \in file[p].has <=> e \in Out(p)
               /\ p \notin clash \ again => IF Applying!Result(p) = {} THEN Out(p) = {} ELSE Applying!Swarm \in Out(p)
    <3>1. FileOf(file[p], edits) /\ edits \in Nat
      BY DEF AInv, Shaped
    <3>2. Applying!Result(p) \subseteq {Applying!Snapshot, Applying!Swarm} /\ (Applying!Result(p) # {} => Applying!Swarm \in Applying!Result(p))
      BY DEF Applying!Result, Applying!Base
    <3>3. \A e \in Nat \ {0} : e # Applying!Snapshot /\ e # Applying!Swarm
      BY DEF Applying!Snapshot, Applying!Swarm
    <3>4. CASE p \in again
      BY <3>2, <3>3, <3>4, NoFile
    <3>5. CASE p \in clash \ again
      BY <3>1, <3>5 DEF FileOf
    <3>6. CASE p \notin clash
      <4>1. Merging(p, m[p]) /\ Out(p) = m[p]
        BY <1>3, <3>6, MergedIs
      <4> QED
        BY <4>1 DEF Merging
    <3> QED
      BY <3>4, <3>5, <3>6
  <2>2. \A p \in Applying!Paths : [ino |-> 0, has |-> Out(p)] \in AnyFile
    <3>1. ASSUME NEW p \in Applying!Paths PROVE [ino |-> 0, has |-> Out(p)] \in AnyFile
      <4>1. Out(p) \in SUBSET Int
        BY <2>1 DEF Applying!Snapshot, Applying!Swarm
      <4> HIDE DEF Out
      <4> QED
        BY <4>1 DEF AnyFile
    <3> QED
      BY <3>1
  <2>3. plan \in [Applying!Paths -> AnyFile] /\ \A p \in Applying!Paths : plan[p].has = Out(p)
    BY <2>2
  <2>4. file \in [Applying!Paths -> AnyFile] /\ clash \ again \in SUBSET Applying!Paths /\ "check" \in Points
    BY DEF AInv, Shaped, Points, Planned
  <2> HIDE DEF Out, plan
  <2>5. /\ app' \in AppSet /\ app'.at = "check" /\ app'.read = file /\ app'.plan = plan /\ app'.kept = clash \ again
        /\ app'.published = app.published /\ app'.written = app.written
    <3> DEFINE kept == clash \ again
    <3>1. app' = [app EXCEPT !.at = "check", !.read = file, !.plan = plan, !.kept = kept]
      BY <1>5
    <3>2. kept \in SUBSET Applying!Paths
      BY <2>4
    <3> HIDE DEF clash, again, kept
    <3>3. app' \in AppSet /\ app'.at = "check" /\ app'.read = file /\ app'.plan = plan /\ app'.kept = kept
          /\ app'.published = app.published /\ app'.written = app.written
      BY <1>1, <2>3, <2>4, <3>1, <3>2 DEF AppSet
    <3> QED
      BY <3>3 DEF kept
  <2> HIDE DEF clash, again
  <2>6. ASSUME NEW p \in Applying!Paths
        PROVE  /\ app'.plan[p].has \subseteq {Applying!Snapshot, Applying!Swarm} \cup 1 .. edits
               /\ \A e \in Nat \ {0} : e \in app'.read[p].has <=> e \in app'.plan[p].has
               /\ p \notin app'.kept => IF Applying!Result(p) = {} THEN app'.plan[p].has = {}
                                        ELSE Applying!Swarm \in app'.plan[p].has
    BY <2>1, <2>3, <2>5
  <2>7. Shaped'
    BY <1>2, <2>5, <2>6 DEF AInv, Shaped
  <2>8. Diffs' /\ Survive'
    BY <1>2 DEF AInv, Diffs, Survive, Somewhere
  <2>9. Pointed' /\ Works'
    BY <1>1, <1>2, <2>5 DEF AInv, Pointed, Works, Forward, Undoing, Began
  <2>9a. Merges'
    BY <2>6 DEF Merges, SameEdits
  <2>10. LeftAlone'
    BY <1>1, <1>2, <2>5 DEF AInv, LeftAlone, Alone, Forward, Undoing, Began
  <2>11. Reaches'
    <3>1. \A p : Applying!Result(p)' = Applying!Result(p)
      BY DEF Applying!Result, Applying!Base
    <3>2. \A p \in Applying!Paths \ app'.kept : Whole(p)'
      BY <2>6, <3>1 DEF Whole
    <3> QED
      BY <3>2 DEF Reaches
  <2> QED
    BY <2>7, <2>8, <2>9, <2>9a, <2>10, <2>11 DEF AInv
<1> QED
  BY <1>3, <1>4, <1>5

\* Steps that change nothing but the point the application is at.
LEMMA QuietKeeps ==
    ASSUME AInv, Applying!Quiet, diff' = diff, app' \in AppSet, SameApp,
           app'.written \in SUBSET Applying!Paths
    PROVE  Shaped' /\ Diffs' /\ Survive'
  BY DEF AInv, Shaped, SameApp, Diffs, Survive, Somewhere, Applying!Quiet, Applying!owners

LEMMA CheckStep == ASSUME AInv, Applying!Check, diff' = diff PROVE AInv'
<1>1. app.at = "check" /\ app \in AppSet /\ Applying!Quiet
  BY DEF Applying!Check, AInv, Shaped
<1>2. app' \in AppSet /\ SameApp /\ app'.written = app.written
      /\ (app'.at = "next" \/ (app'.at = "done" /\ app'.end = "failed"))
  <2>1. "done" \in Points /\ "next" \in Points
    BY DEF Points, Planned, Forward
  <2> QED
    BY <1>1, <2>1 DEF Applying!Check, AppSet, SameApp
<1>3. Shaped' /\ Diffs' /\ Survive'
  BY <1>1, <1>2, QuietKeeps DEF AppSet
<1>4. Pointed' /\ Works'
  BY <1>1, <1>2 DEF AInv, Pointed, Works, SameApp, Forward, Undoing, Began, Handled, Applying!Quiet
<1>5. Merges' /\ Reaches'
  BY <1>1, <1>2 DEF AInv, Merges, SameEdits, Reaches, Whole, Applying!Result, Applying!Base, SameApp, Planned, Forward
<1>6. LeftAlone'
  BY <1>1, <1>2 DEF AInv, Pointed, LeftAlone, Alone, SameApp, Planned, Forward, Undoing, Began, Applying!Quiet, Applying!owners
<1> QED
  BY <1>3, <1>4, <1>5, <1>6 DEF AInv

LEMMA NextChangeStep == ASSUME AInv, Applying!NextChange, diff' = diff PROVE AInv'
<1>1. app.at = "next" /\ app \in AppSet /\ Applying!Quiet
  BY DEF Applying!NextChange, AInv, Shaped
<1>2. app' \in AppSet /\ SameApp /\ app'.written = app.written
      /\ \/ app'.at = "verify" /\ Applying!Changes \subseteq app.written
         \/ app'.at = "stage" /\ app'.path \in Applying!Paths \ app.written
  <2>1. "verify" \in Points /\ "stage" \in Points
    BY DEF Points, Planned, Forward
  <2>2. \A p \in Applying!Paths : p \in Int
    BY ApplyNumbers DEF Applying!Paths
  <2>3. CASE app' = [app EXCEPT !.at = "verify"] /\ Applying!Changes \subseteq app.written
    BY <1>1, <2>1, <2>3 DEF AppSet, SameApp
  <2>4. ASSUME NEW p \in Applying!Paths \ app.written, app' = [app EXCEPT !.at = "stage", !.path = p]
        PROVE  app' \in AppSet /\ SameApp /\ app'.written = app.written /\ app'.at = "stage" /\ app'.path = p
    BY <1>1, <2>1, <2>2, <2>4 DEF AppSet, SameApp
  <2>5. Applying!Changes \subseteq Applying!Paths
    BY DEF Applying!Changes
  <2> QED
    BY <2>3, <2>4, <2>5 DEF Applying!NextChange
<1>3. Shaped' /\ Diffs' /\ Survive'
  BY <1>1, <1>2, QuietKeeps DEF AppSet
<1>4. Pointed' /\ Works'
  BY <1>1, <1>2 DEF AInv, Pointed, Works, SameApp, Forward, Undoing, Began, Handled, Applying!Quiet, Applying!Changes
<1>5. Merges' /\ Reaches'
  BY <1>1, <1>2 DEF AInv, Merges, SameEdits, Reaches, Whole, Applying!Result, Applying!Base, SameApp, Planned, Forward
<1>6. LeftAlone'
  BY <1>1, <1>2 DEF AInv, LeftAlone, Alone, SameApp, Planned, Forward, Undoing, Began, Applying!Quiet, Applying!owners
<1> QED
  BY <1>3, <1>4, <1>5, <1>6 DEF AInv

LEMMA CancelStep == ASSUME AInv, Applying!Cancel, diff' = diff PROVE AInv'
<1>1. app.at \in {"next", "verify"} /\ app' = Applying!Fail /\ Applying!Quiet
  BY DEF Applying!Cancel
<1> QED
  BY <1>1, FailStep DEF Forward, Began

LEMMA StageStep == ASSUME AInv, Applying!Stage, diff' = diff PROVE AInv'
<1>1. app.at = "stage" /\ app \in AppSet /\ Applying!Quiet /\ app.path \in Applying!Paths \ app.written
  BY DEF Applying!Stage, AInv, Shaped, Pointed
<1>2. CASE app' = Applying!Fail
  BY <1>1, <1>2, FailStep DEF Forward, Began
<1>3. CASE file[app.path] = app.read[app.path]
           /\ app' = [app EXCEPT !.at = "move", !.written = @ \cup {app.path}]
  <2>1. "move" \in Points
    BY DEF Points, Planned, Forward, Began
  <2>2. app' \in AppSet /\ SameApp /\ app'.written = app.written \cup {app.path} /\ app'.at = "move"
        /\ app'.path = app.path
    BY <1>1, <1>3, <2>1 DEF AppSet, SameApp
  <2>3. Shaped' /\ Diffs' /\ Survive'
    BY <1>1, <2>2, QuietKeeps DEF AppSet
  <2>4. Pointed'
    BY <1>1, <2>2 DEF AInv, Pointed, SameApp, Forward, Began, Applying!Quiet
  <2>5. Works'
    BY <1>1, <2>2 DEF AInv, Works, SameApp, Forward, Undoing, Began, Handled, Applying!Quiet
  <2>6. Merges' /\ Reaches'
    BY <1>1, <2>2 DEF AInv, Merges, SameEdits, Reaches, Whole, Applying!Result, Applying!Base, SameApp, Planned, Forward, Began
  <2>7. LeftAlone'
    BY <1>1, <1>3, <2>2 DEF AInv, LeftAlone, Alone, SameApp, Planned, Forward, Undoing, Began, Applying!Quiet, Applying!owners
  <2> QED
    BY <2>3, <2>4, <2>5, <2>6, <2>7 DEF AInv
<1> QED
  BY <1>2, <1>3 DEF Applying!Stage

\* One write, from the move of the original to the look at what was published.
LEMMA MoveStep == ASSUME AInv, Applying!Move, diff' = diff PROVE AInv'
<1>1. /\ app.at = "move" /\ app \in AppSet /\ app.path \in app.written /\ app.path \in Applying!Paths
      /\ backup[app.path] = Applying!Absent
      /\ app.path \notin touched => file[app.path] = app.read[app.path]
      /\ UNCHANGED <<aside, copies, receipt, applied, fresh, edits, alive, touched, before, left>>
  BY DEF Applying!Move, AInv, Shaped, Pointed, AppSet, LeftAlone, Alone, Applying!owners, Began
<1>2. CASE app.read[app.path] = Applying!Absent /\ app' = [app EXCEPT !.at = "publish"] /\ UNCHANGED <<file, backup>>
  <2>1. "publish" \in Points
    BY DEF Points, Planned, Forward, Began
  <2>2. app' \in AppSet /\ SameApp /\ app'.written = app.written /\ app'.at = "publish" /\ app'.path = app.path
    BY <1>1, <1>2, <2>1 DEF AppSet, SameApp
  <2>3. Shaped' /\ Diffs' /\ Survive'
    BY <1>1, <1>2, <2>2, QuietKeeps DEF AppSet, Applying!Quiet, Applying!owners
  <2>4. Pointed'
    BY <1>1, <1>2, <2>2 DEF AInv, Pointed, SameApp, Forward, Began
  <2>5. Works'
    BY <1>1, <1>2, <2>2 DEF AInv, Works, SameApp, Forward, Undoing, Began, Handled
  <2>6. Merges' /\ Reaches'
    BY <1>1, <2>2 DEF AInv, Merges, SameEdits, Reaches, Whole, Applying!Result, Applying!Base, SameApp, Planned, Forward, Began
  <2>7. LeftAlone'
    BY <1>1, <1>2, <2>2 DEF AInv, LeftAlone, Alone, SameApp, Planned, Forward, Undoing, Began
  <2> QED
    BY <2>3, <2>4, <2>5, <2>6, <2>7 DEF AInv
<1>3. CASE app.read[app.path] # Applying!Absent /\ file[app.path] = Applying!Absent /\ app' = Applying!Fail /\ UNCHANGED <<file, backup>>
  BY <1>1, <1>3, FailStep DEF Forward, Began, Applying!Quiet, Applying!owners
<1>4. CASE /\ backup' = [backup EXCEPT ![app.path] = file[app.path]]
           /\ file' = [file EXCEPT ![app.path] = Applying!Absent]
           /\ app' = [app EXCEPT !.at = "moved"]
  <2>1. "moved" \in Points
    BY DEF Points, Planned, Forward, Began
  <2>2. app' \in AppSet /\ SameApp /\ app'.written = app.written /\ app'.at = "moved" /\ app'.path = app.path
    BY <1>1, <1>4, <2>1 DEF AppSet, SameApp
  <2> DEFINE p == app.path
  <2>3. /\ backup' \in [Applying!Paths -> AnyFile] /\ file' \in [Applying!Paths -> AnyFile]
        /\ backup'[p] = file[p] /\ file'[p] = Applying!Absent
        /\ \A q \in Applying!Paths \ {p} : backup'[q] = backup[q] /\ file'[q] = file[q]
    BY <1>1, <1>4, NoFile DEF AInv, Shaped, FileOf
  <2> HIDE DEF p
  <2>4. Shaped' /\ Diffs'
    BY <1>1, <2>2, <2>3, NoFile DEF AInv, Shaped, SameApp, Diffs
  <2>5. Survive'
    <3> SUFFICES ASSUME NEW e \in alive, Somewhere(e) PROVE Somewhere(e)'
      BY <1>1 DEF Survive, AInv
    <3>1. p \in Applying!Paths /\ backup[p] = Applying!Absent
      BY <1>1 DEF p
    <3> QED
      BY <1>1, <2>3, <3>1, NoFile DEF Somewhere
  <2>6. Pointed'
    BY <1>1, <2>2, <2>3 DEF AInv, Pointed, SameApp, Forward, Began, p
  <2>7. Works'
    BY <1>1, <2>2, <2>3 DEF AInv, Works, SameApp, Forward, Undoing, Began, Handled, p
  <2>8. Merges' /\ Reaches'
    BY <1>1, <2>2 DEF AInv, Merges, SameEdits, Reaches, Whole, Applying!Result, Applying!Base, SameApp, Planned, Forward, Began
  <2>9. LeftAlone'
    BY <1>1, <2>2, <2>3 DEF AInv, LeftAlone, Alone, SameApp, Planned, Forward, Undoing, Began, p
  <2> QED
    BY <2>4, <2>5, <2>6, <2>7, <2>8, <2>9 DEF AInv
<1> QED
  BY <1>2, <1>3, <1>4 DEF Applying!Move

LEMMA MovedStep == ASSUME AInv, Applying!Moved, diff' = diff PROVE AInv'
<1>1. /\ app.at = "moved" /\ app \in AppSet /\ app.path \in app.written /\ app.path \in Applying!Paths /\ Applying!Quiet
      /\ app.path \notin touched => backup[app.path] = app.read[app.path]
  BY DEF Applying!Moved, AInv, Shaped, Pointed, AppSet, LeftAlone, Alone, Began
<1>2. CASE backup[app.path] # app.read[app.path] /\ app' = Applying!Fail
  BY <1>1, <1>2, FailStep DEF Forward, Began
<1>3. CASE backup[app.path] = app.read[app.path] /\ app' = [app EXCEPT !.at = "publish"]
  <2>1. "publish" \in Points
    BY DEF Points, Planned, Forward, Began
  <2>2. app' \in AppSet /\ SameApp /\ app'.written = app.written /\ app'.at = "publish" /\ app'.path = app.path
    BY <1>1, <1>3, <2>1 DEF AppSet, SameApp
  <2>3. Shaped' /\ Diffs' /\ Survive'
    BY <1>1, <2>2, QuietKeeps DEF AppSet
  <2>4. Pointed' /\ Works'
    BY <1>1, <1>3, <2>2 DEF AInv, Pointed, SameApp, Forward, Began, Applying!Quiet, Works, Undoing, Handled
  <2>5. Merges' /\ Reaches'
    BY <1>1, <2>2 DEF AInv, Merges, SameEdits, Reaches, Whole, Applying!Result, Applying!Base, SameApp, Planned, Forward, Began
  <2>6. LeftAlone'
    BY <1>1, <2>2 DEF AInv, LeftAlone, Alone, SameApp, Planned, Forward, Undoing, Began, Applying!Quiet, Applying!owners
  <2> QED
    BY <2>3, <2>4, <2>5, <2>6 DEF AInv
<1> QED
  BY <1>2, <1>3 DEF Applying!Moved

LEMMA ApplyPublishStep == ASSUME AInv, Applying!Publish, diff' = diff PROVE AInv'
<1>1. /\ app.at = "publish" /\ app \in AppSet /\ app.path \in app.written /\ app.path \in Applying!Paths
      /\ backup[app.path] = app.read[app.path] /\ app.published[app.path] = Applying!Absent
      /\ app.path \notin touched => file[app.path] = Applying!Absent
      /\ UNCHANGED <<backup, aside, copies, receipt, applied, edits, alive, touched, before, left>>
  BY DEF Applying!Publish, AInv, Shaped, Pointed, AppSet, LeftAlone, Alone, Applying!owners, Works, Handled, Forward, Began
<1>2. CASE app.plan[app.path].has = {} /\ app' = [app EXCEPT !.at = "next"] /\ UNCHANGED <<file, fresh>>
  <2>1. "next" \in Points
    BY DEF Points, Planned, Forward, Began
  <2>2. app' \in AppSet /\ SameApp /\ app'.written = app.written /\ app'.at = "next" /\ app'.path = app.path
    BY <1>1, <1>2, <2>1 DEF AppSet, SameApp
  <2>3. Shaped' /\ Diffs' /\ Survive'
    BY <1>1, <1>2, <2>2, QuietKeeps DEF AppSet, Applying!Quiet, Applying!owners
  <2>4. Pointed'
    BY <1>1, <2>2 DEF AInv, Pointed, Forward, Began
  <2>5. Works'
    <3>1. \A p \in Applying!Paths :
            /\ p \notin app.written => app.published[p] = Applying!Absent
            /\ p \in app.written => app.published[p].has = app.plan[p].has /\ backup[p] = app.read[p]
      BY <1>1, <1>2, NoFile DEF AInv, Works, Forward, Began, Handled
    <3> QED
      BY <1>1, <2>2, <3>1 DEF SameApp, Forward, Began, Works, Undoing, Handled
  <2>6. Merges' /\ Reaches'
    BY <1>1, <2>2 DEF AInv, Merges, SameEdits, Reaches, Whole, Applying!Result, Applying!Base, SameApp, Planned, Forward, Began
  <2>7. LeftAlone'
    BY <1>1, <1>2, <2>2 DEF AInv, LeftAlone, Alone, SameApp, Planned, Forward, Undoing, Began
  <2> QED
    BY <2>3, <2>4, <2>5, <2>6, <2>7 DEF AInv
<1>3. CASE file[app.path] # Applying!Absent /\ app' = Applying!Fail /\ UNCHANGED <<file, fresh>>
  BY <1>1, <1>3, FailStep DEF Forward, Began, Applying!Quiet, Applying!owners
<1>4. CASE /\ app.plan[app.path].has # {} /\ file[app.path] = Applying!Absent /\ fresh' = fresh + 1
           /\ file' = [file EXCEPT ![app.path] = [ino |-> fresh + 1, has |-> app.plan[app.path].has]]
           /\ app' = [app EXCEPT !.at = "published"]
  <2>1. "published" \in Points
    BY DEF Points, Planned, Forward, Began
  <2>2. app' \in AppSet /\ SameApp /\ app'.written = app.written /\ app'.at = "published" /\ app'.path = app.path
    BY <1>1, <1>4, <2>1 DEF AppSet, SameApp
  <2> DEFINE p == app.path
             f == [ino |-> fresh + 1, has |-> app.plan[app.path].has]
  <2>3. FileOf(f, edits) /\ f.has = app.plan[p].has
    <3>1. fresh + 1 \in Nat /\ fresh + 1 # 0
      BY DEF AInv, Shaped
    <3>2. app.plan[p].has \subseteq {Applying!Snapshot, Applying!Swarm} \cup 1 .. edits /\ app.plan[p].has \in SUBSET Int
      BY <1>1 DEF AInv, Shaped, AppSet, AnyFile
    <3> QED
      BY <1>4, <3>1, <3>2 DEF FileOf, AnyFile
  <2>4. file' = [file EXCEPT ![p] = f]
    BY <1>4
  <2> HIDE DEF f, p
  <2>5. /\ file' \in [Applying!Paths -> AnyFile] /\ file'[p] = f /\ \A q \in Applying!Paths \ {p} : file'[q] = file[q]
        /\ p \in Applying!Paths /\ p = app.path
    <3>1. p \in Applying!Paths /\ p = app.path
      BY <1>1 DEF p
    <3> QED
      BY <2>3, <2>4, <3>1 DEF AInv, Shaped, FileOf
  <2>6. Shaped' /\ Diffs'
    BY <1>1, <1>4, <2>2, <2>3, <2>5 DEF AInv, Shaped, SameApp, Diffs
  <2>7. Survive'
    <3> SUFFICES ASSUME NEW e \in alive, Somewhere(e) PROVE Somewhere(e)'
      BY <1>1 DEF Survive, AInv
    <3> QED
      BY <1>1, <1>4, <2>5, NoFile DEF Somewhere
  <2>8. Pointed'
    BY <1>1, <2>2 DEF AInv, Pointed, SameApp, Forward, Began
  <2>9. Works'
    BY <1>1, <2>2, <2>5 DEF AInv, Works, SameApp, Forward, Undoing, Began, Handled
  <2>10. Merges' /\ Reaches'
    BY <1>1, <2>2 DEF AInv, Merges, SameEdits, Reaches, Whole, Applying!Result, Applying!Base, SameApp, Planned, Forward, Began
  <2>11. LeftAlone'
    BY <1>1, <2>2, <2>3, <2>5 DEF AInv, LeftAlone, Alone, SameApp, Planned, Forward, Undoing, Began
  <2> QED
    BY <2>6, <2>7, <2>8, <2>9, <2>10, <2>11 DEF AInv
<1> QED
  BY <1>2, <1>3, <1>4 DEF Applying!Publish

LEMMA PublishedStep == ASSUME AInv, Applying!Published, diff' = diff PROVE AInv'
<1>1. /\ app.at = "published" /\ app \in AppSet /\ app.path \in app.written /\ app.path \in Applying!Paths /\ Applying!Quiet
      /\ backup[app.path] = app.read[app.path]
      /\ app.path \notin touched => file[app.path].has = app.plan[app.path].has
  BY DEF Applying!Published, AInv, Shaped, Pointed, AppSet, LeftAlone, Alone, Began
<1>2. CASE file[app.path].has # app.plan[app.path].has /\ app' = Applying!Fail
  BY <1>1, <1>2, FailStep DEF Forward, Began
<1>3. CASE file[app.path].has = app.plan[app.path].has
           /\ app' = [app EXCEPT !.at = "next", !.published[app.path] = file[app.path]]
  <2>1. "next" \in Points
    BY DEF Points, Planned, Forward, Began
  <2> DEFINE p == app.path
             pub == [app.published EXCEPT ![p] = file[p]]
  <2>2. pub \in [Applying!Paths -> AnyFile] /\ pub[p] = file[p] /\ \A q \in Applying!Paths \ {p} : pub[q] = app.published[q]
    BY <1>1 DEF AInv, Shaped, AppSet
  <2>3. app' = [app EXCEPT !.at = "next", !.published = pub]
    BY <1>3
  <2> HIDE DEF pub
  <2>4. /\ app' \in AppSet /\ app'.written = app.written /\ app'.at = "next" /\ app'.path = app.path
        /\ app'.plan = app.plan /\ app'.read = app.read /\ app'.published = pub /\ app'.kept = app.kept
    BY <1>1, <2>1, <2>2, <2>3 DEF AppSet
  <2> HIDE DEF p
  <2>5. p \in Applying!Paths /\ p = app.path
    BY <1>1 DEF p
  <2>6. UNCHANGED <<file, backup, aside, copies, fresh, edits, alive, touched, before>>
    BY <1>1 DEF Applying!Quiet, Applying!owners
  <2>7. Shaped'
    BY <2>2, <2>4, <2>5, <2>6 DEF AInv, Shaped
  <2>8. Diffs' /\ Survive'
    BY <2>6 DEF AInv, Diffs, Survive, Somewhere
  <2>9. Pointed'
    BY <1>1, <2>4, <2>6 DEF AInv, Pointed, Forward, Began
  <2>10. Works'
    <3>1. \A q \in Applying!Paths :
            /\ q \notin app.written => pub[q] = Applying!Absent
            /\ q \in app.written => pub[q].has = app.plan[q].has /\ backup[q] = app.read[q]
      BY <1>1, <1>3, <2>2, <2>5 DEF AInv, Works, Forward, Began, Handled
    <3> QED
      BY <1>1, <2>4, <2>6, <3>1 DEF Forward, Began, Works, Undoing, Handled
  <2>11. Merges' /\ Reaches'
    BY <1>1, <2>4 DEF AInv, Merges, SameEdits, Reaches, Whole, Applying!Result, Applying!Base, Planned, Forward, Began
  <2>12. LeftAlone'
    BY <1>1, <2>2, <2>4, <2>5, <2>6 DEF AInv, LeftAlone, Alone, Planned, Forward, Undoing, Began
  <2> QED
    BY <2>7, <2>8, <2>9, <2>10, <2>11, <2>12 DEF AInv
<1> QED
  BY <1>2, <1>3 DEF Applying!Published

\* The last look: what is recorded is whole, and no edit is only in an original.
LEMMA VerifyStep == ASSUME AInv, Applying!Verify, diff' = diff PROVE AInv'
<1>1. app.at = "verify" /\ app \in AppSet /\ Applying!Quiet
  BY DEF Applying!Verify, AInv, Shaped
<1>2. CASE app' = Applying!Fail
  BY <1>1, <1>2, FailStep DEF Forward, Began
<1>3. CASE app' = [app EXCEPT !.at = "record"] /\ \A p \in app.written : file[p] = app.published[p]
  <2>1. "record" \in Points
    BY DEF Points, Planned
  <2>2. app' \in AppSet /\ SameApp /\ app'.written = app.written /\ app'.at = "record" /\ app'.path = app.path
    BY <1>1, <1>3, <2>1, AppMoved
  <2>3. Shaped' /\ Diffs' /\ Survive'
    BY <1>1, <2>2, QuietKeeps DEF AppSet
  <2>4. \A p \in app.written : p \in Applying!Paths /\ file[p].has = app.plan[p].has /\ backup[p] = app.read[p]
    BY <1>1, <1>3 DEF AInv, Works, Forward, Began, Handled, AppSet
  <2>5. ASSUME NEW p \in Applying!Paths, NEW e \in alive, e \in backup[p].has PROVE e \in file[p].has
    <3>1. p \in app.written
      BY <2>5, NoFile DEF AInv, Pointed
    <3>2. e \in Nat \ {0}
      BY DEF AInv, Shaped
    <3> QED
      BY <1>1, <2>4, <2>5, <3>1, <3>2 DEF AInv, Merges, SameEdits, Planned, Forward
  <2>6. Works'
    BY <1>1, <2>2, <2>5 DEF AInv, Works, SameApp, Forward, Undoing, Began, Applying!Quiet, Applying!owners
  <2>7. Pointed'
    BY <1>1, <2>2 DEF AInv, Pointed, SameApp, Forward, Began, Applying!Quiet
  <2>8. Merges' /\ Reaches'
    BY <1>1, <2>2 DEF AInv, Merges, SameEdits, Reaches, Whole, Applying!Result, Applying!Base, SameApp, Planned, Forward
  <2>9. LeftAlone'
    <3> SUFFICES ASSUME NEW p \in Applying!Paths \ touched PROVE Alone(p)'
      BY <1>1 DEF LeftAlone, Applying!Quiet, Applying!owners
    <3>1. Alone(p)
      BY DEF AInv, LeftAlone
    <3>2. file[p].has = app.plan[p].has
      BY <1>1, <2>4, <3>1 DEF AInv, Works, Alone, Planned, Forward
    <3> QED
      BY <1>1, <2>2, <3>1, <3>2 DEF Alone, SameApp, Planned, Forward, Undoing, Began, Applying!Quiet
  <2> QED
    BY <2>3, <2>6, <2>7, <2>8, <2>9 DEF AInv
<1> QED
  BY <1>2, <1>3 DEF Applying!Verify

LEMMA RecordStep == ASSUME AInv, Applying!Record, diff' = diff PROVE AInv'
<1>1. /\ app.at = "record" /\ app \in AppSet /\ app' = [app EXCEPT !.at = "clean"]
      /\ UNCHANGED <<file, backup, aside, copies, fresh, edits, alive, touched, before>>
  BY DEF Applying!Record, AInv, Shaped, Applying!owners
<1>2. "clean" \in Points
  BY DEF Points, Planned
<1>3. app' \in AppSet /\ SameApp /\ app'.written = app.written /\ app'.at = "clean" /\ app'.path = app.path
  BY <1>1, <1>2, AppMoved
<1>4. Shaped' /\ Diffs' /\ Survive'
  BY <1>1, <1>3 DEF AInv, Shaped, SameApp, Diffs, Survive, Somewhere
<1>5. Pointed' /\ Works'
  BY <1>1, <1>3 DEF AInv, Pointed, SameApp, Forward, Began, Works, Undoing
<1>6. Merges' /\ Reaches'
  BY <1>1, <1>3 DEF AInv, Merges, SameEdits, Reaches, Whole, Applying!Result, Applying!Base, SameApp, Planned
<1>7. LeftAlone'
  BY <1>1, <1>3 DEF AInv, LeftAlone, Alone, SameApp, Planned, Forward, Undoing, Began
<1> QED
  BY <1>4, <1>5, <1>6, <1>7 DEF AInv

LEMMA ApplyCleanStep == ASSUME AInv, Applying!Clean, diff' = diff PROVE AInv'
<1>1. /\ app.at = "clean" /\ app \in AppSet /\ app' = [app EXCEPT !.at = "done", !.end = "applied"]
      /\ backup' = [p \in Applying!Paths |-> Applying!Absent]
      /\ UNCHANGED <<file, aside, copies, fresh, edits, alive, touched, before>>
  BY DEF Applying!Clean, AInv, Shaped, Applying!owners
<1>2. "done" \in Points
  BY DEF Points
<1>3. app' \in AppSet /\ SameApp /\ app'.written = app.written /\ app'.at = "done" /\ app'.end = "applied"
  BY <1>1, <1>2 DEF AppSet, SameApp
<1>4. backup' \in [Applying!Paths -> AnyFile] /\ \A p \in Applying!Paths : backup'[p] = Applying!Absent
  BY <1>1, NoFile DEF FileOf
<1>5. Shaped' /\ Diffs'
  BY <1>1, <1>3, <1>4, NoFile DEF AInv, Shaped, SameApp, Diffs
<1>6. Survive'
  <2> SUFFICES ASSUME NEW e \in alive, Somewhere(e) PROVE Somewhere(e)'
    BY <1>1 DEF Survive, AInv
  <2>1. \A p \in Applying!Paths : e \in backup[p].has => e \in file[p].has
    BY <1>1 DEF AInv, Works
  <2> QED
    BY <1>1, <2>1 DEF Somewhere
<1>7. Pointed' /\ Works' /\ Merges'
  BY <1>1, <1>3, <1>4 DEF AInv, Pointed, SameApp, Forward, Began, Works, Undoing, Merges, Planned
<1>8. Reaches'
  BY <1>1, <1>3 DEF AInv, Reaches, Whole, Applying!Result, Applying!Base, SameApp, Planned
<1>9. LeftAlone'
  BY <1>1, <1>3 DEF AInv, LeftAlone, Alone, SameApp, Planned, Forward, Undoing, Began
<1> QED
  BY <1>5, <1>6, <1>7, <1>8, <1>9 DEF AInv

\* The rollback.
LEMMA KeptSomewhere ==
    ASSUME AInv, NEW p \in Applying!Paths, Applying!Kept(p), Applying!Forget(p), NEW e \in alive,
           \A q \in Applying!Paths : file'[q] = file[q], aside' = aside \/ aside.has = {}
    PROVE  Somewhere(e)'
<1>1. Somewhere(e)
  BY DEF AInv, Survive
<1>2. backup[p] # Applying!Absent => backup[p] \in copies'
  BY DEF Applying!Kept
<1>3. copies \subseteq copies'
  BY DEF Applying!Kept
<1>4. \A q \in Applying!Paths \ {p} : backup'[q] = backup[q]
  BY DEF Applying!Forget, AInv, Shaped
<1> QED
  BY <1>1, <1>2, <1>3, <1>4, NoFile DEF Somewhere

LEMMA UndoStep == ASSUME AInv, Applying!Undo, diff' = diff PROVE AInv'
<1>1. app.at = "undo" /\ app \in AppSet /\ app.written \in SUBSET Applying!Paths /\ aside = Applying!Absent
  BY DEF Applying!Undo, AInv, Shaped, Pointed, AppSet
<1>2. CASE app.written = {} /\ app' = [app EXCEPT !.at = "done", !.end = "failed"] /\ Applying!Quiet
  <2>1. "done" \in Points
    BY DEF Points
  <2>2. app' \in AppSet /\ SameApp /\ app'.written = {} /\ app'.at = "done" /\ app'.end = "failed"
    BY <1>1, <1>2, <2>1 DEF AppSet, SameApp
  <2>3. Shaped' /\ Diffs' /\ Survive'
    BY <1>2, <2>2, QuietKeeps DEF AppSet
  <2>4. Pointed' /\ Works' /\ Merges'
    BY <1>1, <1>2, <2>2 DEF AInv, Pointed, SameApp, Forward, Began, Works, Undoing, Merges, Planned, Applying!Quiet
  <2>5. Reaches'
    BY <1>1, <2>2 DEF AInv, Reaches, Whole, Applying!Result, Applying!Base, SameApp, Planned, Undoing
  <2>6. LeftAlone'
    BY <1>1, <1>2, <2>2 DEF AInv, LeftAlone, Alone, SameApp, Planned, Forward, Undoing, Began, Applying!Quiet, Applying!owners
  <2> QED
    BY <2>3, <2>4, <2>5, <2>6 DEF AInv
<1>3. ASSUME NEW p \in app.written,
             IF app.published[p] # Applying!Absent /\ file[p] = app.published[p]
             THEN app' = [app EXCEPT !.at = "displace", !.path = p] /\ UNCHANGED <<copies, backup>>
             ELSE IF file[p] # Applying!Absent THEN app' = Applying!Dealt(p) /\ Applying!Kept(p) /\ Applying!Forget(p)
             ELSE app' = [app EXCEPT !.at = "restore", !.path = p] /\ UNCHANGED <<copies, backup>>,
             UNCHANGED <<file, aside, receipt, applied, fresh, edits, alive, touched, before, left>>
      PROVE  AInv'
  <2>1. p \in Applying!Paths /\ p \in Int /\ file \in [Applying!Paths -> AnyFile] /\ FileOf(file[p], edits)
    BY <1>1, ApplyNumbers DEF Applying!Paths, AInv, Shaped
  <2>2. p \notin touched => file[p] = app.published[p] /\ backup[p] = app.read[p]
    BY <1>1, <2>1 DEF AInv, LeftAlone, Alone, Undoing, Began
  <2>3. ASSUME NEW at \in {"displace", "restore"}, app' = [app EXCEPT !.at = at, !.path = p],
               UNCHANGED <<copies, backup>>,
               at = "displace" => app.published[p] # Applying!Absent, at = "restore" => file[p] = Applying!Absent
        PROVE  AInv'
    <3>1. at \in Points
      BY DEF Points, Planned, Undoing
    <3>2. app' \in AppSet /\ SameApp /\ app'.written = app.written /\ app'.at = at /\ app'.path = p
      BY <1>1, <2>1, <2>3, <3>1 DEF AppSet, SameApp
    <3>3. Shaped' /\ Diffs' /\ Survive'
      BY <1>3, <2>3, <3>2, QuietKeeps DEF AppSet, Applying!Quiet, Applying!owners
    <3>4. Pointed'
      BY <1>1, <1>3, <2>3, <3>2 DEF AInv, Pointed, SameApp, Began
    <3>5. Works' /\ Merges'
      BY <1>1, <1>3, <2>3, <3>2 DEF AInv, SameApp, Forward, Began, Works, Undoing, Merges, SameEdits, Planned
    <3>6. Reaches'
      BY <1>1, <3>2 DEF AInv, Reaches, Whole, Applying!Result, Applying!Base, SameApp, Planned, Undoing
    <3>7. LeftAlone'
      <4> SUFFICES ASSUME NEW q \in Applying!Paths \ touched PROVE Alone(q)'
        BY <1>3 DEF LeftAlone
      <4>1. Alone(q)
        BY DEF AInv, LeftAlone
      <4> QED
        BY <1>1, <1>3, <2>2, <2>3, <3>2, <4>1 DEF Alone, SameApp, Planned, Forward, Undoing, Began
    <3> QED
      BY <3>3, <3>4, <3>5, <3>6, <3>7 DEF AInv
  <2>4. CASE app.published[p] # Applying!Absent /\ file[p] = app.published[p]
    BY <1>3, <2>3, <2>4
  <2>5. CASE file[p] = Applying!Absent /\ ~(app.published[p] # Applying!Absent /\ file[p] = app.published[p])
    BY <1>3, <2>3, <2>5
  <2>6. CASE file[p] # Applying!Absent /\ ~(app.published[p] # Applying!Absent /\ file[p] = app.published[p])
    <3>1. app' = Applying!Dealt(p) /\ Applying!Kept(p) /\ Applying!Forget(p)
      BY <1>3, <2>6
    <3>2. p \in touched
      BY <2>2, <2>6
    <3>3. \A e \in alive : Somewhere(e)'
      BY <1>3, <2>1, <3>1, KeptSomewhere
    <3> QED
      BY <1>1, <1>3, <2>1, <3>1, <3>2, <3>3, DealtStep DEF Undoing
  <2> QED
    BY <2>4, <2>5, <2>6
<1> QED
  BY <1>2, <1>3 DEF Applying!Undo, Applying!owners

LEMMA DisplaceStep == ASSUME AInv, Applying!Displace, diff' = diff PROVE AInv'
<1> DEFINE p == app.path
<1>1. /\ app.at = "displace" /\ app \in AppSet /\ p \in app.written /\ p \in Applying!Paths /\ p = app.path
      /\ aside = Applying!Absent /\ app.published[p] # Applying!Absent
      /\ file \in [Applying!Paths -> AnyFile] /\ FileOf(file[p], edits)
      /\ p \notin touched => file[p] = app.published[p] /\ backup[p] = app.read[p]
      /\ UNCHANGED <<receipt, applied, fresh, edits, alive, touched, before, left>>
  BY DEF Applying!Displace, AInv, Shaped, Pointed, AppSet, LeftAlone, Alone, Undoing, Began, Applying!owners
<1>2. CASE /\ file[p] = Applying!Absent /\ app' = Applying!Dealt(p) /\ Applying!Kept(p) /\ Applying!Forget(p)
           /\ UNCHANGED <<file, aside>>
  <2>1. p \in touched
    BY <1>1, <1>2
  <2>2. \A e \in alive : Somewhere(e)'
    BY <1>1, <1>2, KeptSomewhere
  <2> HIDE DEF p
  <2> QED
    BY <1>1, <1>2, <2>1, <2>2, DealtStep DEF Undoing
<1>3. CASE /\ file[p] # Applying!Absent /\ aside' = file[p] /\ file' = [file EXCEPT ![p] = Applying!Absent]
           /\ app' = [app EXCEPT !.at = "displaced"] /\ UNCHANGED <<copies, backup>>
  <2>1. "displaced" \in Points
    BY DEF Points, Planned, Undoing
  <2>2. app' \in AppSet /\ SameApp /\ app'.written = app.written /\ app'.at = "displaced" /\ app'.path = app.path
    BY <1>1, <1>3, <2>1, AppMoved
  <2> HIDE DEF p
  <2>3. /\ file' \in [Applying!Paths -> AnyFile] /\ file'[p] = Applying!Absent /\ \A q \in Applying!Paths \ {p} : file'[q] = file[q]
    BY <1>1, <1>3, NoFile DEF AInv, Shaped, FileOf
  <2>4. Shaped' /\ Diffs'
    BY <1>1, <1>3, <2>2, <2>3, NoFile DEF AInv, Shaped, SameApp, Diffs
  <2>5. Survive'
    <3> SUFFICES ASSUME NEW e \in alive, Somewhere(e) PROVE Somewhere(e)'
      BY <1>1 DEF Survive, AInv
    <3> QED
      BY <1>1, <1>3, <2>3, NoFile DEF Somewhere
  <2>6. Pointed'
    BY <1>1, <1>3, <2>2 DEF AInv, Pointed, SameApp, Began
  <2>7. Works' /\ Merges'
    BY <1>1, <1>3, <2>2 DEF AInv, SameApp, Forward, Began, Works, Undoing, Merges, SameEdits, Planned
  <2>8. Reaches'
    BY <1>1, <2>2 DEF AInv, Reaches, Whole, Applying!Result, Applying!Base, SameApp, Planned, Undoing
  <2>9. LeftAlone'
    BY <1>1, <1>3, <2>2, <2>3 DEF AInv, LeftAlone, Alone, SameApp, Planned, Forward, Undoing, Began
  <2> QED
    BY <2>4, <2>5, <2>6, <2>7, <2>8, <2>9 DEF AInv
<1> QED
  BY <1>2, <1>3 DEF Applying!Displace

LEMMA DisplacedStep == ASSUME AInv, Applying!Displaced, diff' = diff PROVE AInv'
<1> DEFINE p == app.path
<1>1. /\ app.at = "displaced" /\ app \in AppSet /\ p \in app.written /\ p \in Applying!Paths /\ p = app.path
      /\ app.published[p] # Applying!Absent
      /\ file \in [Applying!Paths -> AnyFile] /\ FileOf(file[p], edits) /\ FileOf(aside, edits)
      /\ p \notin touched => aside = app.published[p]
      /\ UNCHANGED <<receipt, applied, fresh, edits, alive, touched, before, left>>
  BY DEF Applying!Displaced, AInv, Shaped, Pointed, AppSet, LeftAlone, Alone, Applying!owners
<1>2. CASE /\ aside = app.published[p] /\ app' = [app EXCEPT !.at = "drop"]
           /\ UNCHANGED <<file, copies, backup, aside>>
  <2>1. "drop" \in Points
    BY DEF Points, Planned, Undoing
  <2>2. app' \in AppSet /\ SameApp /\ app'.written = app.written /\ app'.at = "drop" /\ app'.path = app.path
    BY <1>1, <1>2, <2>1, AppMoved
  <2>3. Shaped' /\ Diffs' /\ Survive'
    BY <1>1, <1>2, <2>2, QuietKeeps DEF AppSet, Applying!Quiet, Applying!owners
  <2>4. Pointed' /\ Works' /\ Merges'
    BY <1>1, <1>2, <2>2 DEF AInv, Pointed, SameApp, Forward, Began, Works, Undoing, Merges, SameEdits, Planned
  <2>5. Reaches'
    BY <1>1, <2>2 DEF AInv, Reaches, Whole, Applying!Result, Applying!Base, SameApp, Planned, Undoing
  <2>6. LeftAlone'
    BY <1>1, <1>2, <2>2 DEF AInv, LeftAlone, Alone, SameApp, Planned, Forward, Undoing, Began
  <2> QED
    BY <2>3, <2>4, <2>5, <2>6 DEF AInv
<1>3. CASE /\ file[p] = Applying!Absent /\ aside # app.published[p] /\ file' = [file EXCEPT ![p] = aside]
           /\ Applying!Kept(p) /\ aside' = Applying!Absent /\ Applying!Forget(p) /\ app' = Applying!Dealt(p)
  <2> HIDE DEF p
  <2>1. p \in touched /\ file' \in [Applying!Paths -> AnyFile] /\ file'[p] = aside
        /\ \A q \in Applying!Paths \ {p} : file'[q] = file[q]
    BY <1>1, <1>3 DEF FileOf
  <2>2. ASSUME NEW e \in alive PROVE Somewhere(e)'
    <3>1. Somewhere(e)
      BY DEF AInv, Survive
    <3>2. (backup[p] # Applying!Absent => backup[p] \in copies') /\ copies \subseteq copies'
      BY <1>3 DEF Applying!Kept
    <3>3. \A q \in Applying!Paths \ {p} : backup'[q] = backup[q]
      BY <1>1, <1>3 DEF Applying!Forget, AInv, Shaped
    <3> QED
      BY <1>1, <1>3, <2>1, <3>1, <3>2, <3>3, NoFile DEF Somewhere
  <2> QED
    BY <1>1, <1>3, <2>1, <2>2, DealtStep DEF Undoing
<1>4. CASE /\ aside # app.published[p] /\ copies' = copies \cup ({aside, backup[p]} \ {Applying!Absent})
           /\ file' = file /\ aside' = Applying!Absent /\ Applying!Forget(p) /\ app' = Applying!Dealt(p)
  <2> HIDE DEF p
  <2>1. p \in touched
    BY <1>1, <1>4
  <2>2. ASSUME NEW e \in alive PROVE Somewhere(e)'
    <3>1. Somewhere(e)
      BY DEF AInv, Survive
    <3>2. /\ backup[p] # Applying!Absent => backup[p] \in copies'
          /\ aside # Applying!Absent => aside \in copies'
          /\ copies \subseteq copies'
      BY <1>4
    <3>3. \A q \in Applying!Paths \ {p} : backup'[q] = backup[q]
      BY <1>1, <1>4 DEF Applying!Forget, AInv, Shaped
    <3> QED
      BY <1>1, <1>4, <3>1, <3>2, <3>3, NoFile DEF Somewhere
  <2> QED
    BY <1>1, <1>4, <2>1, <2>2, DealtStep DEF Undoing
<1> QED
  BY <1>2, <1>3, <1>4 DEF Applying!Displaced

\* What the rollback drops is the result alone: its edits are the original's.
LEMMA DropStep == ASSUME AInv, Applying!Drop, diff' = diff PROVE AInv'
<1>1. /\ app.at = "drop" /\ app \in AppSet /\ app.path \in app.written /\ app.path \in Applying!Paths
      /\ aside = app.published[app.path] /\ app.published[app.path] # Applying!Absent
      /\ aside' = Applying!Absent /\ app' = [app EXCEPT !.at = "restore"]
      /\ UNCHANGED <<file, backup, copies, receipt, applied, fresh, edits, alive, touched, before, left>>
  BY DEF Applying!Drop, AInv, Shaped, Pointed, AppSet, Applying!owners
<1>2. "restore" \in Points
  BY DEF Points, Planned, Undoing
<1>3. app' \in AppSet /\ SameApp /\ app'.written = app.written /\ app'.at = "restore" /\ app'.path = app.path
  BY <1>1, <1>2, AppMoved
<1>4. Shaped' /\ Diffs'
  BY <1>1, <1>3, NoFile DEF AInv, Shaped, SameApp, Diffs
<1>5. Survive'
  <2> SUFFICES ASSUME NEW e \in alive, Somewhere(e) PROVE Somewhere(e)'
    BY <1>1 DEF Survive, AInv
  <2>1. e \in aside.has => e \in backup[app.path].has
    <3>1. e \in Nat \ {0}
      BY DEF AInv, Shaped
    <3>2. app.published[app.path].has = app.plan[app.path].has /\ backup[app.path] = app.read[app.path]
      BY <1>1 DEF AInv, Works, Undoing
    <3> QED
      BY <1>1, <3>1, <3>2 DEF AInv, Merges, SameEdits, Planned, Undoing
  <2> QED
    BY <1>1, <2>1 DEF Somewhere
<1>6. Pointed' /\ Works' /\ Merges'
  BY <1>1, <1>3 DEF AInv, Pointed, SameApp, Forward, Began, Works, Undoing, Merges, SameEdits, Planned
<1>7. Reaches'
  BY <1>1, <1>3 DEF AInv, Reaches, Whole, Applying!Result, Applying!Base, SameApp, Planned, Undoing
<1>8. LeftAlone'
  BY <1>1, <1>3 DEF AInv, LeftAlone, Alone, SameApp, Planned, Forward, Undoing, Began
<1> QED
  BY <1>4, <1>5, <1>6, <1>7, <1>8 DEF AInv

LEMMA ApplyRestoreStep == ASSUME AInv, Applying!Restore, diff' = diff PROVE AInv'
<1> DEFINE p == app.path
<1>1. /\ app.at = "restore" /\ app \in AppSet /\ p \in app.written /\ p \in Applying!Paths /\ p = app.path
      /\ file \in [Applying!Paths -> AnyFile] /\ FileOf(file[p], edits) /\ FileOf(backup[p], edits) /\ aside = Applying!Absent
      /\ p \notin touched => file[p] = Applying!Absent /\ backup[p] = before[p]
      /\ app' = Applying!Dealt(p) /\ Applying!Forget(p)
      /\ UNCHANGED <<aside, receipt, applied, fresh, edits, alive, touched, before, left>>
  BY DEF Applying!Restore, AInv, Shaped, Pointed, AppSet, LeftAlone, Alone, Applying!owners, Planned, Undoing
<1> HIDE DEF p
<1>2. CASE backup[p] # Applying!Absent /\ file[p] = Applying!Absent /\ file' = [file EXCEPT ![p] = backup[p]] /\ copies' = copies
  <2>1. file' \in [Applying!Paths -> AnyFile] /\ file'[p] = backup[p] /\ \A q \in Applying!Paths \ {p} : file'[q] = file[q]
    BY <1>1, <1>2 DEF FileOf
  <2>2. ASSUME NEW e \in alive PROVE Somewhere(e)'
    <3>1. Somewhere(e)
      BY DEF AInv, Survive
    <3>2. \A q \in Applying!Paths \ {p} : backup'[q] = backup[q]
      BY <1>1 DEF Applying!Forget, AInv, Shaped
    <3> QED
      BY <1>1, <1>2, <2>1, <3>1, <3>2, NoFile DEF Somewhere
  <2> QED
    BY <1>1, <2>1, <2>2, DealtStep DEF Undoing
<1>3. CASE ~(backup[p] # Applying!Absent /\ file[p] = Applying!Absent) /\ Applying!Kept(p) /\ file' = file
  <2>1. \A e \in alive : Somewhere(e)'
    BY <1>1, <1>3, KeptSomewhere
  <2>2. p \notin touched => file'[p] = before[p]
    BY <1>1, <1>3
  <2> QED
    BY <1>1, <1>3, <2>1, <2>2, DealtStep DEF Undoing
<1> QED
  BY <1>2, <1>3 DEF Applying!Restore, p

LEMMA AInvNext == AInv /\ Applying!Next => AInv'
<1> SUFFICES ASSUME AInv, Applying!Next PROVE AInv'
  OBVIOUS
<1>1. diff' = diff
  BY DEF Applying!Next
<1>2. CASE Applying!ReadReceipt \/ Applying!Plan \/ Applying!Check \/ Applying!NextChange \/ Applying!Cancel \/ Applying!Stage
  BY <1>1, <1>2, ReadReceiptStep, PlanStep, CheckStep, NextChangeStep, CancelStep, StageStep
<1>3. CASE Applying!Move \/ Applying!Moved \/ Applying!Publish \/ Applying!Published \/ Applying!Verify \/ Applying!Record \/ Applying!Clean
  BY <1>1, <1>3, MoveStep, MovedStep, ApplyPublishStep, PublishedStep, VerifyStep, RecordStep, ApplyCleanStep
<1>4. CASE Applying!Undo \/ Applying!Displace \/ Applying!Displaced \/ Applying!Drop \/ Applying!Restore \/ Applying!Settle
  BY <1>1, <1>4, UndoStep, DisplaceStep, DisplacedStep, DropStep, ApplyRestoreStep, SettleStep
<1>5. CASE Applying!Begin \/ Applying!Die
  BY <1>1, <1>5, ApplyBeginStep, ApplyDieStep
<1>6. ASSUME NEW p \in Applying!Paths, Applying!Save(p) \/ Applying!Discard(p) \/ Applying!SaveOpen(p) PROVE AInv'
  BY <1>1, <1>6, SaveStep, DiscardsStep DEF Applying!SaveOpen
<1> QED
  BY <1>2, <1>3, <1>4, <1>5, <1>6 DEF Applying!Next, Applying!Apply

LEMMA AInvIs == AInv => Applying!EditsSurvive /\ Applying!FailureRestores /\ Applying!SuccessIsWhole
<1> SUFFICES ASSUME AInv PROVE Applying!EditsSurvive /\ Applying!FailureRestores /\ Applying!SuccessIsWhole
  OBVIOUS
<1>1. Applying!EditsSurvive
  BY HeldIs DEF AInv
<1>2. Applying!FailureRestores
  BY DEF AInv, Pointed, LeftAlone, Alone, Applying!FailureRestores
<1>3. Applying!SuccessIsWhole
  <2> SUFFICES ASSUME app.at = "done", app.end = "applied", app.plan # Applying!Idle.plan,
                      NEW p \in Applying!Paths \ (touched \cup app.kept)
               PROVE  IF Applying!Result(p) = {} THEN file[p] = Applying!Absent ELSE Applying!Swarm \in file[p].has
    BY DEF Applying!SuccessIsWhole
  <2>1. file[p].has = app.plan[p].has /\ Whole(p) /\ FileOf(file[p], edits)
    BY DEF AInv, LeftAlone, Alone, Reaches, Shaped
  <2> QED
    BY <2>1, NoFile DEF Whole
<1> QED
  BY <1>1, <1>2, <1>3

-----------------------------------------------------------------------------
\* The lock of a checkout (ApplyLock), with two hosts that apply once each.
Contenders == {h1, h2}
Holding(h) == host[h].at \in {"own", "apply"}

\* A host that has had its turn, or died, begins no application.
Spent(h) == host[h].at = "idle" /\ (pid[h] # "self" \/ runs[h] = 1)

LockType == [there : BOOLEAN, owner : Contenders \cup {Locked!NoHost}, aged : BOOLEAN]

LockTyped ==
    /\ lock \in LockType
    /\ runs \in [Contenders -> 0 .. 1]
    /\ pid \in [Contenders -> {"self", "free", "stranger"}]
    /\ host \in [Contenders -> [at : {"idle", "make", "ask", "reclaim", "own", "apply"}, tries : Nat]]

LockNamed ==
    /\ \A h \in Contenders : host[h].at # "idle" => pid[h] = "self"
    /\ \A h \in Contenders : host[h].at \in {"make", "ask", "reclaim", "own"} => runs[h] = 0
    /\ \A h \in Contenders : host[h].at = "own" => lock.there /\ lock.owner = Locked!NoHost /\ ~lock.aged
    /\ \A h \in Contenders : host[h].at = "apply" => lock.there /\ lock.owner = h /\ runs[h] = 1
    /\ lock # Locked!NoLock => \E h \in Contenders : Holding(h) \/ pid[h] # "self"
    /\ lock.owner # Locked!NoHost => lock.there /\ (Holding(lock.owner) \/ pid[lock.owner] # "self")

\* A contender is past the look at the lock only when the other has had its turn.
LockTurns ==
    \A h, o \in Contenders : h # o =>
        /\ ~ (Holding(h) /\ Holding(o))
        /\ host[h].at = "ask" => Spent(o) \/ Holding(o)
        /\ host[h].at = "reclaim" => Spent(o)

KInv == LockTyped /\ LockNamed /\ LockTurns

\* No host has the name of no host.
LEMMA Owners == /\ h1 # Locked!NoHost /\ h2 # Locked!NoHost
                /\ MaxDeaths \in Nat
  BY LockingBounds DEF Locked!LockBounds

LEMMA KInvInit == Locked!Init => KInv
  BY Owners DEF Locked!Init, Locked!NoLock, Locked!Calm, KInv, LockTyped, LockType, LockNamed, LockTurns, Contenders, Holding, Spent

LEMMA LockBeginStep == ASSUME KInv, NEW h \in Contenders, Locked!Begin(h) PROVE KInv'
  BY Owners DEF Locked!Begin, Locked!NoLock, Locked!Calm, KInv, LockTyped, LockType, LockNamed, LockTurns, Holding, Spent

\* The lock directory as it is made, as it is owned and as it grows old.
LEMMA LockRecords ==
    /\ Locked!NoLock \in LockType /\ ~Locked!NoLock.there /\ Locked!NoLock.owner = Locked!NoHost
    /\ LET new == [Locked!NoLock EXCEPT !.there = TRUE] IN
        new \in LockType /\ new.there /\ new.owner = Locked!NoHost /\ ~new.aged
    /\ \A l \in LockType : \A h \in Contenders :
        LET mine == [l EXCEPT !.owner = h, !.aged = FALSE] IN
        mine \in LockType /\ mine.there = l.there /\ mine.owner = h
    /\ \A l \in LockType :
        LET old == [l EXCEPT !.aged = TRUE] IN
        old \in LockType /\ old.there = l.there /\ old.owner = l.owner
  BY Zenon DEF Locked!NoLock, LockType, Contenders

\* What the last step left of the others' phases.
LEMMA HostMoved ==
    ASSUME KInv, NEW h \in Contenders, NEW at \in {"own", "apply"}, host' = [host EXCEPT ![h].at = at]
    PROVE  /\ host' \in [Contenders -> [at : {"idle", "make", "ask", "reclaim", "own", "apply"}, tries : Nat]]
           /\ host'[h].at = at /\ \A o \in Contenders \ {h} : host'[o].at = host[o].at
<1> DEFINE phases == {"idle", "make", "ask", "reclaim", "own", "apply"}
<1>1. host \in [Contenders -> [at : phases, tries : Nat]] /\ at \in phases
  BY DEF KInv, LockTyped
<1> HIDE DEF phases
<1>2. host' \in [Contenders -> [at : phases, tries : Nat]]
  BY <1>1
<1>3. host'[h].at = at /\ \A o \in Contenders \ {h} : host'[o].at = host[o].at
  BY <1>1
<1> QED
  BY <1>2, <1>3 DEF phases

LEMMA MakeStep == ASSUME KInv, NEW h \in Contenders, Locked!Make(h) PROVE KInv'
<1>1. CASE lock = Locked!NoLock
  <2>1. lock' \in LockType /\ lock'.there /\ lock'.owner = Locked!NoHost /\ ~lock'.aged
    BY <1>1, LockRecords, Zenon DEF Locked!Make
  <2>2. \A x \in Contenders : host[x].at # "own" /\ host[x].at # "apply"
    BY <1>1, LockRecords DEF KInv, LockNamed
  <2>3. /\ host[h].at = "make" /\ host' = [host EXCEPT ![h].at = "own"]
        /\ pid' = pid /\ runs' = runs
    BY <1>1 DEF Locked!Make, Locked!Goto
  <2>4. /\ host' \in [Contenders -> [at : {"idle", "make", "ask", "reclaim", "own", "apply"}, tries : Nat]]
        /\ host'[h].at = "own" /\ \A o \in Contenders \ {h} : host'[o].at = host[o].at
    BY <2>3, HostMoved, "own" \in {"own", "apply"}
  <2>5. LockNamed'
    BY <2>1, <2>2, <2>3, <2>4, Owners DEF KInv, LockTyped, LockType, LockNamed, Holding
  <2>6. LockTurns'
    BY <2>2, <2>3, <2>4 DEF KInv, LockTyped, LockTurns, Holding, Spent
  <2> QED
    BY <2>1, <2>3, <2>4, <2>5, <2>6 DEF KInv, LockTyped
<1>2. CASE lock # Locked!NoLock
  BY <1>2, Owners DEF Locked!Make, Locked!Goto, KInv, LockTyped, LockType, LockNamed, LockTurns, Holding, Spent, Contenders
<1> QED
  BY <1>1, <1>2

LEMMA AskStep == ASSUME KInv, NEW h \in Contenders, Locked!Ask(h) PROVE KInv'
  BY Owners DEF Locked!Ask, Locked!Held, Locked!Abandoned, Locked!Goto, Locked!NoLock, Locked!Calm, KInv, LockTyped, LockType, LockNamed, LockTurns, Holding, Spent, Contenders

LEMMA ReclaimStep == ASSUME KInv, NEW h \in Contenders, Locked!Reclaim(h) PROVE KInv'
  BY Owners DEF Locked!Reclaim, Locked!NoLock, Locked!Calm, KInv, LockTyped, LockType, LockNamed, LockTurns, Holding, Spent, Contenders

LEMMA OwnStep == ASSUME KInv, NEW h \in Contenders, Locked!Own(h) PROVE KInv'
<1>1. lock.there /\ host[h].at = "own" /\ lock # Locked!NoLock
  BY LockRecords DEF Locked!Own, KInv, LockNamed
<1>2. /\ lock' = [lock EXCEPT !.owner = h, !.aged = FALSE] /\ UNCHANGED pid
      /\ host' = [host EXCEPT ![h].at = "apply"] /\ runs' = [runs EXCEPT ![h] = @ + 1]
      /\ runs[h] = 0 /\ runs' \in [Contenders -> 0 .. 1]
  BY <1>1 DEF Locked!Own, Locked!Goto, KInv, LockTyped, LockType, LockNamed
<1>3. lock'.there /\ lock'.owner = h
  <2>1. lock \in LockType
    BY DEF KInv, LockTyped
  <2>2. [lock EXCEPT !.owner = h, !.aged = FALSE].there = lock.there /\ [lock EXCEPT !.owner = h, !.aged = FALSE].owner = h
    BY <2>1, LockRecords, Zenon
  <2> QED
    BY <1>1, <1>2, <2>2, Zenon
<1>4. LockTyped'
  <2>1. host' \in [Contenders -> [at : {"idle", "make", "ask", "reclaim", "own", "apply"}, tries : Nat]]
    BY <1>2, HostMoved, "apply" \in {"own", "apply"}
  <2>2. lock' \in LockType
    BY <1>2, LockRecords DEF KInv, LockTyped
  <2> QED
    BY <1>2, <2>1, <2>2 DEF KInv, LockTyped
<1>5. LockNamed'
  BY <1>1, <1>2, <1>3, Owners DEF KInv, LockTyped, LockType, LockNamed, LockTurns, Holding, Contenders
<1>6. LockTurns'
  BY <1>1, <1>2 DEF KInv, LockTyped, LockType, LockNamed, LockTurns, Holding, Spent
<1> QED
  BY <1>4, <1>5, <1>6 DEF KInv

LEMMA ReleaseStep == ASSUME KInv, NEW h \in Contenders, Locked!Release(h) PROVE KInv'
  BY Owners DEF Locked!Release, Locked!NoLock, Locked!Calm, KInv, LockTyped, LockType, LockNamed, LockTurns, Holding, Spent, Contenders

LEMMA LockDieStep == ASSUME KInv, NEW h \in Contenders, Locked!Die(h) \/ Locked!Recycle(h) PROVE KInv'
  BY Owners DEF Locked!Die, Locked!Recycle, Locked!NoLock, Locked!Calm, KInv, LockTyped, LockType, LockNamed, LockTurns, Holding, Spent, Contenders

LEMMA AgeStep == ASSUME KInv, Locked!Age PROVE KInv'
<1>1. /\ lock.there /\ lock.owner = Locked!NoHost /\ lock' = [lock EXCEPT !.aged = TRUE]
      /\ UNCHANGED <<host, pid, runs>> /\ \A h \in Contenders : host[h].at # "own"
  BY DEF Locked!Age, Contenders
<1>2. LockTyped' /\ lock'.there /\ lock'.owner = Locked!NoHost /\ lock # Locked!NoLock
  BY <1>1, LockRecords DEF KInv, LockTyped
<1>3. LockNamed'
  BY <1>1, <1>2, Owners DEF KInv, LockNamed, Holding
<1> QED
  BY <1>1, <1>2, <1>3 DEF KInv, LockTurns, Holding, Spent

LEMMA KInvNext == KInv /\ Locked!Next => KInv'
  BY LockBeginStep, MakeStep, AskStep, ReclaimStep, OwnStep, ReleaseStep, LockDieStep, AgeStep
     DEF Locked!Next, Locked!Step, Contenders

LEMMA KInvOne == KInv => Locked!OneApplier
  BY DEF KInv, LockTurns, Holding, Contenders, Locked!OneApplier
LEMMA KInvKept == KInv /\ UNCHANGED lockVars => KInv'
<1> SUFFICES ASSUME KInv, UNCHANGED lockVars PROVE KInv'
  OBVIOUS
<1>1. UNCHANGED <<lock, host, pid, runs>>
  BY DEF lockVars
<1> QED
  BY <1>1 DEF KInv, LockTyped, LockNamed, LockTurns, Holding, Spent

LEMMA AInvKept == AInv /\ UNCHANGED applyVars => AInv'
<1> SUFFICES ASSUME AInv, UNCHANGED applyVars PROVE AInv'
  OBVIOUS
<1>1. UNCHANGED <<diff, file, backup, aside, copies, app, fresh, edits, alive, touched, before>>
  BY DEF applyVars
<1>2. Shaped' /\ Diffs' /\ Pointed'
  BY <1>1 DEF AInv, Shaped, Diffs, Pointed
<1>3. Merges' /\ Works' /\ LeftAlone'
  BY <1>1 DEF AInv, Merges, SameEdits, Works, Handled, LeftAlone, Alone
<1>4. Reaches' /\ Survive'
  BY <1>1 DEF AInv, Reaches, Whole, Applying!Result, Applying!Base, Survive, Somewhere
<1> QED
  BY <1>2, <1>3, <1>4 DEF AInv

\* Whatever a delivery changes, adds and removes, in however many files: no edit of the owner
\* is lost to its application, a failed one restores what it replaced, and a successful one
\* is whole (applyDelivery, rollback, restoreExclusive).
THEOREM EveryDelivery == Applying!Spec => [](Applying!EditsSurvive /\ Applying!FailureRestores /\ Applying!SuccessIsWhole)
<1>1. AInv /\ [Applying!Next]_(Applying!vars) => AInv'
  BY AInvNext, AInvKept DEF Applying!vars, applyVars
<1> QED
  BY AInvInit, <1>1, AInvIs, PTL DEF Applying!Spec

\* An application of a delivery and the lock around it keep to their invariants, whatever
\* the owner edits, for any number of files, edits, applications and deaths.
THEOREM ApplyInvariant == DeliverySpec => [](AInv /\ KInv)
<1>1. DeliveryInit => AInv /\ KInv
  BY AInvInit, KInvInit DEF DeliveryInit
<1>2. AInv /\ [DeliveryNext]_<<part, hostVars, checkVars, applyVars, lockVars, workVars>> => AInv'
  BY AInvNext, AInvKept, Zenon DEF DeliveryNext
<1>3. KInv /\ [DeliveryNext]_<<part, hostVars, checkVars, applyVars, lockVars, workVars>> => KInv'
  BY KInvNext, KInvKept, Zenon DEF DeliveryNext
<1> QED
  BY <1>1, <1>2, <1>3, PTL DEF DeliverySpec

\* What the owner wrote is in the checkout or in a copy beside it, whatever failed or died, a
\* failed application restores what it replaced, and one application runs per checkout at a
\* time (applyDelivery, rollback, acquire).
THEOREM EditsAreKept == DeliverySpec => []EditsSurvive
<1>1. AInv /\ KInv => EditsSurvive
  BY AInvIs, KInvOne DEF EditsSurvive
<1> QED
  BY <1>1, ApplyInvariant, PTL
=============================================================================
