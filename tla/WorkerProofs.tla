---------------------------- MODULE WorkerProofs ----------------------------
(***************************************************************************)
(* A worker's session, for any members, costs and bounds: NeverOvercharged *)
(* and SettledIsCharged of the tokens charged for it, and OneHandle of its *)
(* starts.                                                                 *)
(*                                                                         *)
(* The tokens follow from one balance.  What a member was charged and what *)
(* its log holds beyond the watermark make up all that its logs ever held; *)
(* a log that never met a watermark is a legacy one, charged a prefix of   *)
(* it; a member without a log owes nothing.                                *)
(*                                                                         *)
(* The starts follow from who may act.  Every resident but the map's has   *)
(* ended; only the current entry's start is in the adapter or may still    *)
(* enter it; a mission that does not run has no entry, and owes the stop   *)
(* of a handle it has not stopped; and what an opening was charged to is   *)
(* cancelled or over.                                                      *)
(***************************************************************************)
EXTENDS MCWorkers, TLAPS

Observations == [m : Members, gen : Nat, at : Nat, flushed : BOOLEAN]

Typed ==
    /\ saved \subseteq Members /\ up \subseteq Members
    /\ flushed \in [Members -> Nat] /\ total \in [Members -> Nat]
    /\ gen \in [Members -> Nat] /\ life \in [Members -> Nat] /\ spent \in [Members -> Nat]
    /\ mark \in [Members -> [gen : Nat, at : Nat]]
    /\ obs \subseteq Observations

\* No log: everything the lost ones held that could be charged was.
Settled(m) == m \notin saved /\ m \notin up /\ flushed[m] = 0 /\ life[m] = spent[m]

\* A log no watermark has met: it was charged a prefix of what it holds.
Unmarked(m) ==
    /\ m \in saved /\ m \notin up /\ mark[m].gen = 0
    /\ life[m] <= flushed[m] /\ flushed[m] = spent[m]

\* The watermark is the current log's, and behind it nothing is uncharged.
Marked(m) ==
    /\ m \in saved /\ gen[m] # 0 /\ mark[m].gen = gen[m]
    /\ mark[m].at <= flushed[m]
    /\ life[m] + flushed[m] = spent[m] + mark[m].at

Balanced == \A m \in Members : mark[m].gen <= gen[m] /\ (Settled(m) \/ Unmarked(m) \/ Marked(m))

\* An observation is of a live resident's log, at a total that log reached, and one that
\* waited for its flush is of what the disk holds.
InFlight(o) ==
    /\ o.m \in up /\ o.gen = gen[o.m] /\ o.at <= total[o.m]
    /\ o.flushed => o.at <= flushed[o.m]

ObservationsHold == \A o \in obs : InFlight(o)

\* What a live resident counted is charged, or an observation of it is on its way.
CountedIsSent ==
    \A m \in up : /\ flushed[m] <= total[m]
                  /\ mark[m].at = total[m] \/ \E o \in obs : o.m = m /\ o.at = total[m]

LInv == Typed /\ Balanced /\ ObservationsHold /\ CountedIsSent
-----------------------------------------------------------------------------
LEMMA LInvInit == Init => LInv
  BY LedgerBounds DEF Init, LInv, Typed, Balanced, Settled, Unmarked, Marked, ObservationsHold,
     CountedIsSent, Observations

\* What a member's books hold.
LEMMA Numbers ==
    ASSUME LInv, NEW m \in Members
    PROVE  /\ flushed[m] \in Nat /\ total[m] \in Nat /\ gen[m] \in Nat
           /\ life[m] \in Nat /\ spent[m] \in Nat
           /\ mark[m] \in [gen : Nat, at : Nat] /\ mark[m].gen \in Nat /\ mark[m].at \in Nat
           /\ mark[m].gen <= gen[m]
           /\ Settled(m) \/ Unmarked(m) \/ Marked(m)
  BY DEF LInv, Typed, Balanced

\* Only a marked log has a live resident.
LEMMA UpIsMarked == ASSUME LInv, NEW m \in up PROVE m \in Members /\ Marked(m)
  BY DEF LInv, Typed, Balanced, Settled, Unmarked

\* A log keeps its generation; a log about to be created takes one above its watermark's.
LEMMA GenerationOf ==
    ASSUME LInv, NEW m \in Members
    PROVE  /\ Generation(m) \in Nat \ {0} /\ gen[m] <= Generation(m)
           /\ Marked(m) => Generation(m) = gen[m]
           /\ Settled(m) => mark[m].gen < Generation(m)
<1>1. CASE m \in saved
  BY <1>1, Numbers DEF Settled, Marked, Generation, Larger
<1>2. CASE m \notin saved
  BY <1>2, Numbers DEF Settled, Marked, Generation, Larger
<1> QED
  BY <1>1, <1>2

LEMMA DiesOpeningStep ==
    ASSUME LInv, NEW m \in Members, DiesOpening(m)
    PROVE  LInv'
<1>1. gen'[m] \in Nat \ {0} /\ gen[m] <= gen'[m] /\ (Marked(m) => gen'[m] = gen[m])
  BY GenerationOf DEF DiesOpening, LInv, Typed
<1>2. \A k \in Members \ {m} : gen'[k] = gen[k]
  BY DEF DiesOpening, LInv, Typed
<1>3. Typed'
  BY <1>1 DEF DiesOpening, LInv, Typed
<1>4. Balanced'
  BY <1>1, <1>2 DEF DiesOpening, LInv, Typed, Balanced, Settled, Unmarked, Marked
<1>5. ObservationsHold' /\ CountedIsSent'
  BY <1>2 DEF DiesOpening, LInv, Typed, Observations, ObservationsHold, InFlight, CountedIsSent
<1> QED
  BY <1>3, <1>4, <1>5 DEF LInv

\* An activation leaves the log it resumed charged to its last flushed token.
LEMMA ActivateStep ==
    ASSUME LInv, NEW m \in Members, Activate(m)
    PROVE  LInv'
<1> DEFINE g == Generation(m)
<1>1. g \in Nat \ {0} /\ gen[m] <= g /\ mark[m].gen <= g
  BY GenerationOf DEF LInv, Typed, Balanced
<1>2. /\ mark' = [mark EXCEPT ![m] = [gen |-> g,
                                      at |-> Larger(Watermark(m, g, m \in saved), flushed[m])]]
      /\ life' = [life EXCEPT ![m] = @ + Over(flushed[m], Watermark(m, g, m \in saved))]
  BY <1>1 DEF Activate, Reconcile, Account, LInv, Typed
<1>3. /\ mark'[m] = [gen |-> g, at |-> flushed[m]] /\ life'[m] = spent[m]
      /\ Watermark(m, g, m \in saved) \in Nat
  <2>1. CASE Settled(m)
    <3>1. Watermark(m, g, m \in saved) = 0 /\ flushed[m] = 0 /\ life[m] = spent[m]
      BY <1>1, <2>1, Numbers, GenerationOf DEF Settled, Watermark, Migrates
    <3> QED
      BY <1>2, <3>1, Numbers DEF Larger, Over, LInv, Typed
  <2>2. CASE Unmarked(m)
    <3>1. Watermark(m, g, m \in saved) = life[m]
      BY <1>1, <2>2, Numbers DEF Unmarked, Watermark, Migrates
    <3>2. Larger(life[m], flushed[m]) = flushed[m] /\ life[m] + Over(flushed[m], life[m]) = spent[m]
      BY <2>2, Numbers DEF Unmarked, Larger, Over
    <3> QED
      BY <1>2, <3>1, <3>2, Numbers DEF LInv, Typed
  <2>3. CASE Marked(m)
    <3>1. Watermark(m, g, m \in saved) = mark[m].at
      BY <2>3, GenerationOf DEF Marked, Watermark
    <3>2. /\ Larger(mark[m].at, flushed[m]) = flushed[m]
          /\ life[m] + Over(flushed[m], mark[m].at) = spent[m]
      <4> DEFINE at == mark[m].at
      <4>1. at \in Nat /\ at <= flushed[m] /\ life[m] + flushed[m] = spent[m] + at
        BY <2>3, Numbers DEF Marked
      <4> HIDE DEF at
      <4>2. Larger(at, flushed[m]) = flushed[m] /\ life[m] + Over(flushed[m], at) = spent[m]
        BY <4>1, Numbers DEF Larger, Over
      <4> QED
        BY <4>2 DEF at
    <3> QED
      BY <1>2, <3>1, <3>2, Numbers DEF LInv, Typed
  <2> QED
    BY <2>1, <2>2, <2>3 DEF LInv, Balanced
<1>4. \A k \in Members \ {m} : mark'[k] = mark[k] /\ life'[k] = life[k] /\ gen'[k] = gen[k]
                               /\ total'[k] = total[k]
  BY <1>2 DEF Activate, LInv, Typed
<1>5. /\ gen'[m] = g /\ total'[m] = flushed[m] /\ up' = up \cup {m} /\ saved' = saved \cup {m}
      /\ UNCHANGED <<flushed, obs, spent>> /\ m \notin up
  BY DEF Activate, LInv, Typed
<1>6. Typed'
  <2>1. mark' \in [Members -> [gen : Nat, at : Nat]] /\ life' \in [Members -> Nat]
    BY <1>1, <1>2, <1>3 DEF LInv, Typed, Larger, Over
  <2> QED
    BY <1>1, <1>5, <2>1 DEF Activate, LInv, Typed
<1>7. Balanced'
  BY <1>1, <1>3, <1>4, <1>5 DEF LInv, Typed, Balanced, Settled, Unmarked, Marked
<1>8. ObservationsHold'
  BY <1>4, <1>5 DEF LInv, Typed, Observations, ObservationsHold, InFlight
<1>9. CountedIsSent'
  BY <1>3, <1>4, <1>5 DEF LInv, Typed, CountedIsSent
<1> QED
  BY <1>6, <1>7, <1>8, <1>9 DEF LInv

LEMMA RespondStep ==
    ASSUME LInv, NEW m \in Members, Respond(m)
    PROVE  LInv'
<1>1. PICK c \in Charges :
        /\ total' = [total EXCEPT ![m] = @ + c]
        /\ obs' = obs \cup {[m |-> m, gen |-> gen[m], at |-> total[m] + c, flushed |-> FALSE]}
  BY DEF Respond
<1>2. c \in Nat /\ m \in up /\ UNCHANGED <<saved, flushed, gen, up, mark, life, spent>>
  BY LedgerBounds DEF Respond
<1>3. Typed' /\ Balanced'
  <2>1. total' \in [Members -> Nat] /\ total[m] + c \in Nat
    BY <1>1, <1>2, Numbers DEF LInv, Typed
  <2>2. obs' \subseteq Observations
    <3>1. [m |-> m, gen |-> gen[m], at |-> total[m] + c, flushed |-> FALSE] \in Observations
      BY <2>1, Numbers DEF Observations
    <3> QED
      BY <1>1, <3>1 DEF LInv, Typed
  <2>3. Balanced'
    BY <1>2 DEF LInv, Balanced, Settled, Unmarked, Marked
  <2> QED
    BY <1>2, <2>1, <2>2, <2>3 DEF LInv, Typed
<1>4. ObservationsHold'
  BY <1>1, <1>2 DEF LInv, Typed, Observations, ObservationsHold, InFlight
<1>5. CountedIsSent'
  <2> DEFINE new == [m |-> m, gen |-> gen[m], at |-> total[m] + c, flushed |-> FALSE]
  <2>1. new \in obs' /\ new.m = m /\ new.at = total'[m]
    BY <1>1, <1>2 DEF LInv, Typed
  <2>2. flushed'[m] <= total'[m]
    <3>1. total'[m] = total[m] + c /\ flushed'[m] = flushed[m] /\ flushed[m] <= total[m]
      BY <1>1, <1>2 DEF LInv, Typed, CountedIsSent
    <3> QED
      BY <1>2, <3>1, Numbers
  <2>3. \A k \in up' \ {m} : total'[k] = total[k]
    BY <1>1, <1>2 DEF LInv, Typed
  <2> SUFFICES ASSUME NEW k \in up, k # m
               PROVE  /\ flushed[k] <= total'[k]
                      /\ mark[k].at = total'[k] \/ \E o \in obs' : o.m = k /\ o.at = total'[k]
    BY <1>2, <2>1, <2>2 DEF CountedIsSent
  <2>4. total'[k] = total[k] /\ obs \subseteq obs'
    BY <1>1, <1>2, <2>3
  <2> QED
    BY <2>4 DEF LInv, CountedIsSent
<1> QED
  BY <1>3, <1>4, <1>5 DEF LInv

\* Writing a live resident's log to disk: what it holds more was never charged.
LEMMA OnDiskBalance ==
    ASSUME LInv, NEW m \in up, OnDisk(m)
    PROVE  /\ flushed' \in [Members -> Nat] /\ spent' \in [Members -> Nat]
           /\ flushed'[m] = total[m] /\ flushed[m] <= total[m]
           /\ spent'[m] + flushed[m] = spent[m] + total[m]
           /\ \A k \in Members \ {m} : flushed'[k] = flushed[k] /\ spent'[k] = spent[k]
<1>1. m \in Members /\ flushed[m] <= total[m]
  BY UpIsMarked DEF LInv, CountedIsSent
<1>2. spent[m] + total[m] - flushed[m] \in Nat
  BY <1>1 DEF LInv, Typed
<1> QED
  BY <1>1, <1>2 DEF OnDisk, LInv, Typed

LEMMA DiskBalances ==
    ASSUME LInv, NEW m \in up, OnDisk(m), UNCHANGED <<saved, gen, mark, life>>
    PROVE  Marked(m)'
<1>1. m \in Members /\ Marked(m)
  BY UpIsMarked
<1>2. /\ flushed'[m] = total[m] /\ flushed[m] <= total[m]
      /\ spent'[m] + flushed[m] = spent[m] + total[m]
      /\ spent' \in [Members -> Nat]
  BY OnDiskBalance
<1>3. mark[m].at <= total[m] /\ life[m] + total[m] = spent'[m] + mark[m].at
  BY <1>1, <1>2, Numbers DEF Marked
<1> QED
  BY <1>1, <1>2, <1>3 DEF Marked

LEMMA FlushStep ==
    ASSUME LInv, NEW o \in obs, Flush(o)
    PROVE  LInv'
<1> DEFINE late == [o EXCEPT !.flushed = TRUE]
<1>1. /\ o \in Observations /\ o.m \in up /\ OnDisk(o.m) /\ obs' = (obs \ {o}) \cup {late}
      /\ UNCHANGED <<saved, total, gen, up, mark, life>>
  BY DEF Flush, LInv, Typed, ObservationsHold, InFlight
<1>2. late \in Observations /\ late.m = o.m /\ late.gen = o.gen /\ late.at = o.at
  BY <1>1 DEF Observations
<1>3. Typed'
  BY <1>1, <1>2, OnDiskBalance DEF LInv, Typed
<1>4. Balanced'
  <2>1. \A k \in Members \ {o.m} : flushed'[k] = flushed[k] /\ spent'[k] = spent[k]
    BY <1>1, OnDiskBalance
  <2>2. Marked(o.m)'
    BY <1>1, DiskBalances
  <2> QED
    BY <1>1, <2>1, <2>2 DEF LInv, Balanced, Settled, Unmarked, Marked
<1>5. ObservationsHold'
  <2>1. flushed'[o.m] = total[o.m] /\ \A k \in Members \ {o.m} : flushed'[k] = flushed[k]
    BY <1>1, OnDiskBalance
  <2> SUFFICES ASSUME NEW p \in obs' PROVE InFlight(p)'
    BY DEF ObservationsHold
  <2>2. CASE p = late
    BY <1>1, <1>2, <2>1, <2>2 DEF LInv, ObservationsHold, InFlight
  <2>3. CASE p \in obs /\ p.m = o.m
    BY <1>1, <2>1, <2>3 DEF LInv, ObservationsHold, InFlight
  <2>4. CASE p \in obs /\ p.m # o.m
    BY <1>1, <2>1, <2>4 DEF LInv, Typed, ObservationsHold, InFlight
  <2> QED
    BY <1>1, <2>2, <2>3, <2>4
<1>6. CountedIsSent'
  <2> SUFFICES ASSUME NEW m \in up
               PROVE  /\ flushed'[m] <= total[m]
                      /\ mark[m].at = total[m] \/ \E p \in obs' : p.m = m /\ p.at = total[m]
    BY <1>1 DEF CountedIsSent
  <2>1. flushed'[m] <= total[m]
    BY <1>1, OnDiskBalance, UpIsMarked DEF LInv, Typed, CountedIsSent
  <2>2. ASSUME NEW p \in obs, p.m = m, p.at = total[m] PROVE \E q \in obs' : q.m = m /\ q.at = total[m]
    <3>1. CASE p = o
      BY <1>1, <1>2, <2>2, <3>1
    <3>2. CASE p # o
      BY <1>1, <2>2, <3>2
    <3> QED
      BY <3>1, <3>2
  <2> QED
    BY <2>1, <2>2 DEF LInv, CountedIsSent
<1> QED
  BY <1>3, <1>4, <1>5, <1>6 DEF LInv

\* An observation charges what the watermark has not met, and moves it there.
LEMMA ObserveStep ==
    ASSUME LInv, NEW o \in obs, Observe(o)
    PROVE  LInv'
<1> DEFINE m == o.m
<1>1. /\ o \in Observations /\ m \in up /\ m \in Members /\ o.gen = gen[m] /\ o.flushed
      /\ o.at <= flushed[m] /\ o.at <= total[m] /\ Marked(m)
      /\ obs' = obs \ {o} /\ UNCHANGED <<saved, flushed, total, gen, up, spent>>
  BY UpIsMarked DEF Observe, Accountable, LInv, Typed, ObservationsHold, InFlight
<1>2. /\ mark' = [mark EXCEPT ![m] = [gen |-> o.gen, at |-> Larger(mark[m].at, o.at)]]
      /\ life' = [life EXCEPT ![m] = @ + Over(o.at, mark[m].at)]
  BY <1>1 DEF Observe, Account, Watermark, Marked, LInv, Typed
<1>3. o.at \in Nat /\ mark[m].at \in Nat
  BY <1>1 DEF Observations, LInv, Typed
<1>4. /\ mark'[m].gen = gen[m] /\ mark'[m].at = Larger(mark[m].at, o.at)
      /\ life'[m] = life[m] + Over(o.at, mark[m].at)
      /\ \A k \in Members \ {m} : mark'[k] = mark[k] /\ life'[k] = life[k]
  BY <1>1, <1>2 DEF LInv, Typed
<1> DEFINE at == mark[m].at
<1>a. /\ at \in Nat /\ at <= flushed[m] /\ life[m] + flushed[m] = spent[m] + at
      /\ o.at \in Nat /\ o.at <= flushed[m]
  BY <1>1, <1>3, Numbers DEF Marked
<1>b. /\ Larger(at, o.at) \in Nat /\ Over(o.at, at) \in Nat
      /\ Larger(at, o.at) <= flushed[m]
      /\ life[m] + Over(o.at, at) + flushed[m] = spent[m] + Larger(at, o.at)
  <2> HIDE DEF at
  <2> QED
    BY <1>1, <1>a, Numbers DEF Larger, Over
<1>5. Typed'
  BY <1>1, <1>2, <1>b DEF LInv, Typed, Observations
<1>6. Marked(m)'
  BY <1>1, <1>4, <1>b DEF Marked
<1>7. Balanced'
  BY <1>1, <1>4, <1>6 DEF LInv, Typed, Balanced, Settled, Unmarked, Marked
<1>8. ObservationsHold'
  BY <1>1 DEF LInv, Typed, Observations, ObservationsHold, InFlight
<1>9. CountedIsSent'
  <2> SUFFICES ASSUME NEW k \in up
               PROVE  mark'[k].at = total[k] \/ \E p \in obs' : p.m = k /\ p.at = total[k]
    BY <1>1 DEF CountedIsSent, LInv
  <2>1. CASE k = m
    <3>1. mark[m].at <= total[m] /\ flushed[m] <= total[m]
      BY <1>1, <1>3 DEF Marked, LInv, Typed, CountedIsSent
    <3>2. CASE mark[m].at = total[m] \/ o.at = total[m]
      <4>1. Larger(at, o.at) = total[m]
        <5>1. at <= total[m] /\ o.at <= total[m] /\ (at = total[m] \/ o.at = total[m])
          BY <1>1, <3>1, <3>2
        <5> HIDE DEF at
        <5> QED
          BY <1>1, <1>a, <5>1, Numbers DEF Larger
      <4> QED
        BY <1>4, <2>1, <4>1
    <3>3. CASE ~(mark[m].at = total[m] \/ o.at = total[m])
      BY <1>1, <2>1, <3>3 DEF LInv, CountedIsSent
    <3> QED
      BY <3>2, <3>3
  <2>2. CASE k # m
    BY <1>1, <1>4, <2>2, UpIsMarked DEF LInv, CountedIsSent
  <2> QED
    BY <2>1, <2>2
<1> QED
  BY <1>5, <1>7, <1>8, <1>9 DEF LInv

LEMMA EndStep ==
    ASSUME LInv, NEW m \in Members, End(m)
    PROVE  LInv'
<1>1. /\ m \in up /\ Of(m) = {} /\ OnDisk(m) /\ up' = up \ {m}
      /\ UNCHANGED <<saved, total, gen, obs, mark, life>>
  BY DEF End, Drained
<1>2. Typed'
  BY <1>1, OnDiskBalance DEF LInv, Typed
<1>3. Balanced'
  <2>1. \A k \in Members \ {m} : flushed'[k] = flushed[k] /\ spent'[k] = spent[k]
    BY <1>1, OnDiskBalance
  <2>2. Marked(m)'
    BY <1>1, DiskBalances
  <2> QED
    BY <1>1, <2>1, <2>2 DEF LInv, Balanced, Settled, Unmarked, Marked
<1>4. ObservationsHold'
  BY <1>1, OnDiskBalance DEF Of, LInv, Typed, Observations, ObservationsHold, InFlight
<1>5. CountedIsSent'
  BY <1>1, OnDiskBalance, UpIsMarked DEF LInv, CountedIsSent
<1> QED
  BY <1>2, <1>3, <1>4, <1>5 DEF LInv

LEMMA CrashStep == ASSUME LInv, Crash PROVE LInv'
  BY DEF Crash, LInv, Typed, Balanced, Settled, Unmarked, Marked, ObservationsHold, CountedIsSent

LEMMA LogLostStep ==
    ASSUME LInv, NEW m \in Members, LogLost(m)
    PROVE  LInv'
<1>1. /\ m \notin up /\ saved' = saved \ {m} /\ UNCHANGED <<total, gen, up, obs, mark, life>>
      /\ flushed'[m] = 0 /\ spent'[m] = life[m]
      /\ \A k \in Members \ {m} : flushed'[k] = flushed[k] /\ spent'[k] = spent[k]
  BY DEF LogLost, LInv, Typed
<1>2. Typed' /\ Balanced'
  BY <1>1 DEF LogLost, LInv, Typed, Balanced, Settled, Unmarked, Marked
<1>3. ObservationsHold' /\ CountedIsSent'
  BY <1>1, UpIsMarked DEF LInv, ObservationsHold, InFlight, CountedIsSent
<1> QED
  BY <1>2, <1>3 DEF LInv

LEMMA LInvStep == LInv /\ [Next]_vars => LInv'
<1> SUFFICES ASSUME LInv, [Next]_vars PROVE LInv'
  OBVIOUS
<1>1. ASSUME NEW m \in Members, DiesOpening(m) PROVE LInv'
  BY <1>1, DiesOpeningStep
<1>2. ASSUME NEW m \in Members, Activate(m) PROVE LInv'
  BY <1>2, ActivateStep
<1>3. ASSUME NEW m \in Members, Respond(m) PROVE LInv'
  BY <1>3, RespondStep
<1>4. ASSUME NEW m \in Members, End(m) PROVE LInv'
  BY <1>4, EndStep
<1>5. ASSUME NEW m \in Members, LogLost(m) PROVE LInv'
  BY <1>5, LogLostStep
<1>6. ASSUME NEW o \in obs, Flush(o) PROVE LInv'
  BY <1>6, FlushStep
<1>7. ASSUME NEW o \in obs, Observe(o) PROVE LInv'
  BY <1>7, ObserveStep
<1>8. CASE Crash
  BY <1>8, CrashStep
<1>9. CASE UNCHANGED vars
  BY <1>9 DEF vars, LInv, Typed, Balanced, Settled, Unmarked, Marked, ObservationsHold, InFlight,
     CountedIsSent
<1> QED
  BY <1>1, <1>2, <1>3, <1>4, <1>5, <1>6, <1>7, <1>8, <1>9 DEF Next
-----------------------------------------------------------------------------
\* The balance of every member's charges holds throughout.
THEOREM LedgerInvariant == Spec => []LInv
  BY LInvInit, LInvStep, PTL DEF Spec

\* No token is charged twice, and none a crash took back from the log: a member is charged
\* at most what its logs ever held on disk (usageSnapshot, the flush of observeUsage).
THEOREM ChargedAtMostSpent == Spec => []NeverOvercharged
<1>1. LInv => NeverOvercharged
  BY DEF LInv, Typed, Balanced, Settled, Unmarked, Marked, NeverOvercharged
<1> QED
  BY <1>1, LedgerInvariant, PTL

\* Nothing the logs hold escapes the pool: once a live worker's observations have settled,
\* every token its logs held was charged, the ones before a crash included.
THEOREM SettledAreCharged == Spec => []SettledIsCharged
<1>1. LInv => SettledIsCharged
  <2> SUFFICES ASSUME LInv, NEW m \in Members, m \in up, Of(m) = {} PROVE life[m] = spent[m]
    BY DEF SettledIsCharged
  <2>1. Marked(m) /\ mark[m].at = total[m] /\ flushed[m] <= total[m]
    BY UpIsMarked DEF LInv, CountedIsSent, Of
  <2> QED
    BY <2>1, Numbers DEF Marked
<1> QED
  BY <1>1, LedgerInvariant, PTL

-----------------------------------------------------------------------------
\* A member's starts: their rows and its residents'.
StartRows == [ph : {"none", "auth", "native", "given", "over"}, adm : BOOLEAN, aborted : BOOLEAN,
              retry : {"none", "later", "due"}, on : 0 .. NR, waits : BOOLEAN]
ResidentRows == [ph : {"none", "preparing", "created", "open", "disposing", "gone"},
                 aborted : BOOLEAN, stopping : BOOLEAN]

StartsTyped ==
    /\ status \in {"staged", "active", "paused", "stopped"}
    /\ owed \in BOOLEAN
    /\ entry \in 0 .. NS /\ start \in [1 .. NS -> StartRows]
    /\ cur \in 0 .. NR /\ residents \in [1 .. NR -> ResidentRows]
    /\ charged \in [1 .. NR -> Nat]
    /\ acts \in [owner : Nat, faults : Nat, barriers : BOOLEAN]

\* Every resident the map does not hold has ended, or was never made.
OneResident ==
    /\ cur # 0 => residents[cur].ph \notin {"none", "gone"}
    /\ \A r \in 1 .. NR : r # cur => residents[r].ph \in {"none", "gone"}

\* Only the current entry's start is in the adapter or may still enter it; what a start was
\* given up on, or waits for, is cancelled.
EntryGoverns ==
    /\ entry # 0 => start[entry].ph # "none"
    /\ \A s \in 1 .. NS :
        /\ start[s].ph = "native" => entry = s
        /\ start[s].ph = "auth" => entry = s \/ start[s].aborted
        /\ start[s].ph \in {"auth", "native"} => start[s].retry = "none"
        /\ start[s].ph \in {"native", "given"} => start[s].on # 0 /\ residents[start[s].on].ph # "none"
        /\ start[s].ph = "given" \/ (start[s].ph = "native" /\ start[s].waits)
            => residents[start[s].on].aborted
    /\ \A r \in 1 .. NR :
        /\ residents[r].stopping => residents[r].aborted
        /\ residents[r].ph = "none" => ~residents[r].aborted

Halted == status \in {"paused", "stopped"}

\* A mission that does not run has no entry, and where no attempt is fenced it still owes
\* the stop of a handle it has not stopped.
HaltedOwesStop ==
    /\ Halted => entry = 0
    /\ owed => acts.barriers
    /\ Halted /\ ~acts.barriers /\ cur # 0 /\ ~residents[cur].stopping => stopCalls # {}

GivenUpOn(r) == entry # 0 /\ start[entry].ph = "given" /\ start[entry].on = r

\* The owner acts once: an opening that was charged is over, or fenced by the entry of the
\* start that was charged for it, until the mission halts for good.
OneAct ==
    /\ acts.owner <= 1
    /\ status = "staged" /\ acts.owner = 1 => entry = 0
    /\ Halted => acts.owner = 0

ChargedIsFenced ==
    /\ \A r \in 1 .. NR :
        /\ charged[r] <= 1
        /\ charged[r] = 1 =>
            /\ residents[r].ph # "none" /\ status # "staged"
            /\ residents[r].ph = "gone" \/ Halted \/ GivenUpOn(r)
    /\ \A s \in 1 .. NS : start[s].ph = "native" => charged[start[s].on] = 0
    /\ cur # 0 /\ residents[cur].aborted /\ ~residents[cur].stopping => Halted \/ GivenUpOn(cur)

SInv ==
    /\ StartsTyped /\ OneResident /\ EntryGoverns /\ HaltedOwesStop
    /\ acts.barriers => OneAct /\ ChargedIsFenced
LEMMA StartConstants == NS \in Nat \ {0} /\ NR \in Nat \ {0} /\ {MaxOwner, MaxFaults} \subseteq Nat
  BY WorkersBounds DEF Starting!StartBounds

\* What each operator on a start's row makes of it.
LEMMA OverRow ==
    ASSUME StartsTyped, NEW s \in 1 .. NS
    PROVE  /\ Starting!Over(s) \in StartRows
           /\ Starting!Over(s).ph = "over"
           /\ Starting!Over(s).aborted = start[s].aborted
<1>1. start[s] \in StartRows
  BY DEF StartsTyped
<1> QED
  BY <1>1 DEF Starting!Over, StartRows

LEMMA FailedRow ==
    ASSUME StartsTyped, NEW s \in 1 .. NS
    PROVE  Starting!Failed(s) \in StartRows /\ Starting!Failed(s).ph = "over"
<1>1. \A x \in StartRows, b \in BOOLEAN :
        LET y == [x EXCEPT !.ph = "over", !.aborted = b, !.retry = "later"]
        IN  y \in StartRows /\ y.ph = "over"
  BY DEF StartRows
<1>2. start[s] \in StartRows
  BY DEF StartsTyped
<1> QED
  BY <1>1, <1>2, Zenon DEF Starting!Failed

LEMMA AbortedRow ==
    ASSUME StartsTyped, NEW s \in 1 .. NS
    PROVE  LET row == Starting!Aborted(s)
               late == [row EXCEPT !.retry = "later"]
           IN
           /\ row \in StartRows /\ late \in StartRows
           /\ late.ph = row.ph /\ late.on = row.on /\ late.waits = row.waits
           /\ row.aborted /\ row.on = start[s].on /\ row.waits = start[s].waits
           /\ row.retry = start[s].retry
           /\ row.ph = IF start[s].ph = "native" THEN "given" ELSE start[s].ph
<1> DEFINE ph == IF start[s].ph = "native" THEN "given" ELSE start[s].ph
<1>1. start[s] \in StartRows
  BY DEF StartsTyped
<1>2. ph \in {"none", "auth", "native", "given", "over"}
  BY <1>1 DEF StartRows
<1>3. Starting!Aborted(s) = [start[s] EXCEPT !.aborted = TRUE, !.ph = ph]
  BY Zenon DEF Starting!Aborted
<1> HIDE DEF ph
<1>4. \A x \in StartRows, b \in BOOLEAN :
        LET y == [x EXCEPT !.aborted = b, !.ph = ph]
        IN  y \in StartRows /\ y.aborted = b /\ y.on = x.on /\ y.waits = x.waits /\ y.ph = ph
            /\ y.retry = x.retry
  BY <1>2 DEF StartRows
<1>5. \A y \in StartRows : LET late == [y EXCEPT !.retry = "later"]
        IN  late \in StartRows /\ late.ph = y.ph /\ late.on = y.on /\ late.waits = y.waits
  BY DEF StartRows
<1>6. /\ Starting!Aborted(s) \in StartRows /\ Starting!Aborted(s).aborted = TRUE
      /\ Starting!Aborted(s).on = start[s].on /\ Starting!Aborted(s).waits = start[s].waits
      /\ Starting!Aborted(s).ph = ph /\ Starting!Aborted(s).retry = start[s].retry
  BY <1>1, <1>3, <1>4, Zenon
<1> QED
  BY <1>5, <1>6 DEF ph

LEMMA MadeRow ==
    ASSUME NEW s, NEW adm \in BOOLEAN
    PROVE  Starting!Made(s, adm) \in StartRows /\ Starting!Made(s, adm).ph = "auth"
           /\ Starting!Made(s, adm).retry = "none"
<1>1. 0 \in 0 .. NR
  BY StartConstants
<1>2. \A a, b, c \in BOOLEAN :
        [ph |-> "none", adm |-> a, aborted |-> b, retry |-> "none", on |-> 0, waits |-> c] \in StartRows
  BY <1>1 DEF StartRows
<1>3. Starting!NoStart \in StartRows /\ Starting!NoStart.retry = "none"
  BY <1>2, Zenon DEF Starting!NoStart
<1>4. \A x \in StartRows : LET y == [x EXCEPT !.ph = "auth", !.adm = adm] 
        IN  y \in StartRows /\ y.ph = "auth" /\ y.retry = x.retry
  BY DEF StartRows
<1> QED
  BY <1>3, <1>4, Zenon DEF Starting!Made

LEMMA OnRow ==
    ASSUME StartsTyped, NEW s \in 1 .. NS, NEW r \in 1 .. NR, NEW waits \in BOOLEAN,
           start' = Starting!On(s, r, waits)
    PROVE  /\ start' \in [1 .. NS -> StartRows]
           /\ start'[s].ph = "native" /\ start'[s].on = r
           /\ start'[s].waits = waits /\ start'[s].retry = start[s].retry
           /\ \A k \in 1 .. NS \ {s} : start'[k] = start[k]
<1> DEFINE row == [start[s] EXCEPT !.ph = "native", !.on = r, !.waits = waits]
<1>1. /\ row \in StartRows /\ row.ph = "native" /\ row.on = r /\ row.waits = waits
      /\ row.retry = start[s].retry
  <2>1. r \in 0 .. NR /\ start[s] \in StartRows
    BY StartConstants DEF StartsTyped
  <2>2. \A x \in StartRows, o \in 0 .. NR : LET y == [x EXCEPT !.ph = "native", !.on = o, !.waits = waits]
            IN  y \in StartRows /\ y.ph = "native" /\ y.on = o /\ y.waits = waits /\ y.retry = x.retry
    BY DEF StartRows
  <2> QED
    BY <2>1, <2>2, Zenon
<1>2. start' = [start EXCEPT ![s] = row]
  BY DEF Starting!On
<1> HIDE DEF row
<1> QED
  BY <1>1, <1>2 DEF StartsTyped

\* A stop fences the resident it is of; a cancellation the one its start opens.
LEMMA StoppedRows ==
    ASSUME StartsTyped, NEW r \in 1 .. NR
    PROVE  LET rows == Starting!Stopped(r) IN
           /\ rows \in [1 .. NR -> ResidentRows]
           /\ \A q \in 1 .. NR : rows[q].ph = residents[q].ph
           /\ \A q \in 1 .. NR \ {r} : rows[q] = residents[q]
           /\ rows[r].aborted /\ rows[r].stopping
<1>1. \A b, c \in BOOLEAN : LET rows == [residents EXCEPT ![r].stopping = b, ![r].aborted = c] IN
           /\ rows \in [1 .. NR -> ResidentRows]
           /\ \A q \in 1 .. NR : rows[q].ph = residents[q].ph
           /\ \A q \in 1 .. NR \ {r} : rows[q] = residents[q]
           /\ rows[r].aborted = c /\ rows[r].stopping = b
  <2> SUFFICES ASSUME NEW b \in BOOLEAN, NEW c \in BOOLEAN
               PROVE  LET rows == [residents EXCEPT ![r].stopping = b, ![r].aborted = c] IN
                      /\ rows \in [1 .. NR -> ResidentRows]
                      /\ \A q \in 1 .. NR : rows[q].ph = residents[q].ph
                      /\ \A q \in 1 .. NR \ {r} : rows[q] = residents[q]
                      /\ rows[r].aborted = c /\ rows[r].stopping = b
    OBVIOUS
  <2> DEFINE row == [residents[r] EXCEPT !.stopping = b, !.aborted = c]
  <2>1. residents \in [1 .. NR -> ResidentRows]
    BY DEF StartsTyped
  <2>2. residents[r] \in ResidentRows
    BY <2>1
  <2>3. row \in ResidentRows /\ row.ph = residents[r].ph /\ row.aborted = c /\ row.stopping = b
    BY <2>2 DEF ResidentRows
  <2>4. [residents EXCEPT ![r].stopping = b, ![r].aborted = c] = [residents EXCEPT ![r] = row]
    BY <2>1, <2>2 DEF ResidentRows
  <2> HIDE DEF row
  <2> QED
    BY <2>1, <2>3, <2>4
<1> QED
  BY <1>1, Zenon DEF Starting!Stopped

Cancels(s) == start[s].ph = "native" /\ ~start[s].waits /\ residents[start[s].on].ph # "none"

LEMMA CancelledRows ==
    ASSUME StartsTyped, NEW s \in 1 .. NS, Cancels(s) => start[s].on # 0
    PROVE  LET rows == Starting!Cancelled(s) IN
           /\ rows \in [1 .. NR -> ResidentRows]
           /\ \A q \in 1 .. NR :
                /\ rows[q].ph = residents[q].ph /\ rows[q].stopping = residents[q].stopping
                /\ rows[q].aborted => residents[q].aborted \/ (Cancels(s) /\ q = start[s].on)
                /\ residents[q].aborted \/ (Cancels(s) /\ q = start[s].on) => rows[q].aborted
<1> DEFINE o == start[s].on
<1>1. start[s] \in StartRows
  BY DEF StartsTyped
<1>2. CASE Cancels(s)
  <2>1. o \in 1 .. NR
    BY <1>1, <1>2, StartConstants DEF StartRows
  <2> HIDE DEF o
  <2>2. \A b \in BOOLEAN : LET rows == [residents EXCEPT ![o].aborted = b] IN
           /\ rows \in [1 .. NR -> ResidentRows]
           /\ \A q \in 1 .. NR :
                /\ rows[q].ph = residents[q].ph /\ rows[q].stopping = residents[q].stopping
                /\ rows[q].aborted = IF q = o THEN b ELSE residents[q].aborted
    BY <2>1 DEF StartsTyped, ResidentRows
  <2>3. Starting!Cancelled(s) = [residents EXCEPT ![o].aborted = TRUE]
    BY <1>2, Zenon DEF Starting!Cancelled, Cancels, o
  <2>4. \A q \in 1 .. NR : residents[q].aborted \in BOOLEAN
    BY DEF StartsTyped, ResidentRows
  <2> QED
    BY <1>2, <2>2, <2>3, <2>4, Zenon DEF o
<1>3. CASE ~Cancels(s)
  <2>1. Starting!Cancelled(s) = residents
    BY <1>3, Zenon DEF Starting!Cancelled, Cancels
  <2> QED
    BY <1>3, <2>1 DEF StartsTyped, ResidentRows
<1> QED
  BY <1>2, <1>3

\* A failure is charged to a resident, or to none.
LEMMA FailingCharges ==
    ASSUME StartsTyped, NEW s \in 1 .. NS, NEW r \in 1 .. NR, Starting!Failing(s, r)
    PROVE  /\ charged' \in [1 .. NR -> Nat]
           /\ \A q \in 1 .. NR : charged'[q] =
                IF q = r /\ Starting!CountsFor(s) THEN charged[q] + 1 ELSE charged[q]
<1>1. charged \in [1 .. NR -> Nat]
  BY DEF StartsTyped
<1>2. charged' = IF Starting!CountsFor(s) THEN [charged EXCEPT ![r] = charged[r] + 1] ELSE charged
  BY Zenon DEF Starting!Failing
<1>3. CASE Starting!CountsFor(s)
  BY <1>1, <1>2, <1>3
<1>4. CASE ~Starting!CountsFor(s)
  BY <1>1, <1>2, <1>4
<1> QED
  BY <1>3, <1>4

\* What the settling of an opening leaves of the starts on it, of the entry and the charges.
LEMMA SettledRows ==
    ASSUME StartsTyped, EntryGoverns, NEW r \in 1 .. NR, NEW ok \in BOOLEAN, Starting!SettleOn(r, ok)
    PROVE  /\ start' \in [1 .. NS -> StartRows]
           /\ \A s \in 1 .. NS :
                IF start[s].on = r /\ (start[s].ph = "given" \/ (start[s].ph = "native" /\ ~start[s].waits))
                THEN start'[s].ph = "over"
                ELSE start'[s] = start[s]
           /\ entry' \in {entry, 0} /\ (entry' # entry => ok /\ start'[entry].ph = "over")
           /\ stopCalls \subseteq stopCalls'
           /\ charged' \in [1 .. NR -> Nat]
           /\ \A q \in 1 .. NR : charged'[q] = charged[q] \/
                /\ ~ok /\ q = r /\ charged'[q] = charged[q] + 1
                /\ entry # 0 /\ start[entry].ph = "native" /\ start[entry].on = r
                /\ ~start[entry].waits
                /\ status = "active"
<1> DEFINE settled(s) == IF s \in Starting!GivenUp(r) THEN [start[s] EXCEPT !.ph = "over"]
                      ELSE IF s \in Starting!Awaiting(r)
                           THEN IF ok THEN Starting!Over(s) ELSE Starting!Failed(s)
                      ELSE start[s]
<1>1. start' = [s \in 1 .. NS |-> settled(s)]
  BY DEF Starting!SettleOn, Starting!Starts
<1>2. \A s \in 1 .. NS : settled(s) \in StartRows
                         /\ IF s \in Starting!GivenUp(r) \cup Starting!Awaiting(r)
                            THEN settled(s).ph = "over" ELSE settled(s) = start[s]
  <2> TAKE s \in 1 .. NS
  <2>1. start[s] \in StartRows
    BY DEF StartsTyped
  <2>2. [start[s] EXCEPT !.ph = "over"] \in StartRows /\ [start[s] EXCEPT !.ph = "over"].ph = "over"
    BY <2>1 DEF StartRows
  <2> QED
    BY <2>1, <2>2, OverRow, FailedRow
<1>3. \A s \in 1 .. NS : s \in Starting!GivenUp(r) \cup Starting!Awaiting(r) <=>
        start[s].on = r /\ (start[s].ph = "given" \/ (start[s].ph = "native" /\ ~start[s].waits))
  BY DEF Starting!GivenUp, Starting!Awaiting, Starting!Starts
<1> HIDE DEF settled
<1>4. /\ start' \in [1 .. NS -> StartRows]
      /\ \A s \in 1 .. NS :
            IF start[s].on = r /\ (start[s].ph = "given" \/ (start[s].ph = "native" /\ ~start[s].waits))
            THEN start'[s].ph = "over" ELSE start'[s] = start[s]
  BY <1>1, <1>2, <1>3
<1>5. CASE Starting!Awaiting(r) = {}
  <2>1. UNCHANGED <<entry, stopCalls, charged>>
    BY <1>5 DEF Starting!SettleOn
  <2> QED
    BY <1>4, <2>1 DEF StartsTyped
<1>6. CASE Starting!Awaiting(r) # {}
  <2> DEFINE s == CHOOSE x \in Starting!Awaiting(r) : TRUE
  <2>1. s \in Starting!Awaiting(r)
    BY <1>6
  <2>2. IF ok
        THEN /\ entry' = IF entry = s THEN 0 ELSE entry
             /\ stopCalls' = Starting!LateStops(s)
             /\ UNCHANGED charged
        ELSE Starting!Failing(s, r) /\ UNCHANGED <<entry, stopCalls>>
    BY <1>6, Zenon DEF Starting!SettleOn
  <2>3. s \in 1 .. NS /\ start[s].on = r /\ start[s].ph = "native" /\ ~start[s].waits
    BY <2>1 DEF Starting!Awaiting, Starting!Starts
  <2> HIDE DEF s
  <2>4. entry = s /\ entry # 0 /\ start'[entry].ph = "over"
    BY <2>3, <1>4 DEF EntryGoverns
  <2>5. stopCalls \subseteq Starting!LateStops(s)
    BY DEF Starting!LateStops
  <2>6. CASE ok
    BY <1>4, <2>2, <2>4, <2>5, <2>6 DEF StartsTyped
  <2>7. CASE ~ok
    <3>1. Starting!Failing(s, r) /\ UNCHANGED <<entry, stopCalls>>
      BY <2>2, <2>7
    <3>2. Starting!CountsFor(s) => status = "active"
      BY DEF Starting!CountsFor
    <3> QED
      BY <1>4, <2>3, <2>4, <2>7, <3>1, <3>2, FailingCharges
  <2> QED
    BY <2>6, <2>7
<1> QED
  BY <1>5, <1>6

-----------------------------------------------------------------------------
\* A start that enters the adapter is the current entry's, in a mission that runs.
LEMMA EnteringIsCurrent ==
    ASSUME SInv, NEW s \in 1 .. NS, Starting!Enters(s)
    PROVE  entry = s /\ ~Halted /\ start[s].ph \in {"auth", "native"} /\ start[s].retry = "none"
<1>1. CASE start[s].ph = "auth" /\ ~Starting!RefusedHere(s)
  <2>1. ~start[s].aborted
    BY <1>1 DEF Starting!RefusedHere
  <2> QED
    BY <1>1, <2>1 DEF SInv, EntryGoverns, HaltedOwesStop
<1>2. CASE start[s].ph = "native"
  BY <1>2 DEF SInv, EntryGoverns, HaltedOwesStop
<1> QED
  BY <1>1, <1>2 DEF Starting!Enters

\* A start that ends without an opening's end leaves nothing it fenced.
LEMMA StartEnds ==
    ASSUME SInv, NEW s \in 1 .. NS,
           start' \in [1 .. NS -> StartRows], start'[s].ph = "over",
           \A k \in 1 .. NS \ {s} : start'[k] = start[k],
           entry' = entry \/ (entry = s /\ entry' = 0),
           start[s].ph = "given" => start[s].on # cur,
           UNCHANGED <<residents, cur, acts, status, stopCalls, owed>>,
           charged' \in [1 .. NR -> Nat], acts.barriers => charged' = charged
    PROVE  SInv'
<1>1. StartsTyped' /\ OneResident' /\ HaltedOwesStop'
  BY StartConstants DEF SInv, StartsTyped, OneResident, HaltedOwesStop, Halted
<1>2. EntryGoverns'
  <2>1. entry = s => start'[entry].ph = "over"
    OBVIOUS
  <2> QED
    BY <2>1 DEF SInv, StartsTyped, EntryGoverns
<1>3. ASSUME acts.barriers PROVE OneAct' /\ ChargedIsFenced'
  <2>1. OneAct'
    BY <1>3 DEF SInv, OneAct, Halted
  <2>2. ASSUME NEW r \in 1 .. NR, GivenUpOn(r) PROVE GivenUpOn(r)' \/ (r # cur /\ residents[r].ph = "gone")
    <3>1. CASE entry = s
      BY <2>2, <3>1 DEF SInv, StartsTyped, EntryGoverns, OneResident, GivenUpOn
    <3>2. CASE entry # s
      BY <2>2, <3>2 DEF SInv, StartsTyped, GivenUpOn
    <3> QED
      BY <3>1, <3>2
  <2>3. \A k \in 1 .. NS : start'[k].ph = "native" => start'[k] = start[k]
    OBVIOUS
  <2> QED
    BY <1>3, <2>1, <2>2, <2>3, StartConstants DEF SInv, StartsTyped, ChargedIsFenced, Halted
<1> QED
  BY <1>1, <1>2, <1>3 DEF SInv

LEMMA RefuseStep == ASSUME SInv, NEW s \in 1 .. NS, Starting!Refuse(s) PROVE SInv'
<1>1. start[s].ph = "auth" /\ start' = [start EXCEPT ![s] = Starting!Over(s)]
  BY DEF Starting!Refuse
<1>2. /\ entry' = entry \/ (entry = s /\ entry' = 0)
      /\ UNCHANGED <<residents, cur, acts, status, stopCalls, owed, charged>>
  BY DEF Starting!Refuse
<1> QED
  BY <1>1, <1>2, OverRow, StartEnds DEF SInv, StartsTyped

LEMMA AdoptOpenStep == ASSUME SInv, NEW s \in 1 .. NS, Starting!AdoptOpen(s) PROVE SInv'
<1>1. start[s].ph # "given" /\ start' = [start EXCEPT ![s] = Starting!Over(s)]
  BY EnteringIsCurrent DEF Starting!AdoptOpen
<1>2. /\ entry' = entry \/ (entry = s /\ entry' = 0)
      /\ UNCHANGED <<residents, cur, acts, status, stopCalls, owed, charged>>
  BY DEF Starting!AdoptOpen
<1> QED
  BY <1>1, <1>2, OverRow, StartEnds DEF SInv, StartsTyped

LEMMA GivenUpWaiterStep == ASSUME SInv, NEW s \in 1 .. NS, Starting!GivenUpWaiter(s) PROVE SInv'
<1>1. start[s].on # cur /\ start' = [start EXCEPT ![s] = Starting!Over(s)]
  BY DEF Starting!GivenUpWaiter
<1>2. UNCHANGED <<entry, residents, cur, acts, status, stopCalls, owed, charged>>
  BY DEF Starting!GivenUpWaiter
<1> QED
  BY <1>1, <1>2, OverRow, StartEnds DEF SInv, StartsTyped

\* With one act of the owner no cancelled resident is met by a start: the entry of the one
\* that was given up fences it.
LEMMA AdapterRefusesStep == ASSUME SInv, NEW s \in 1 .. NS, Starting!AdapterRefuses(s) PROVE SInv'
<1>1. entry = s /\ ~Halted /\ start[s].ph \in {"auth", "native"}
  BY EnteringIsCurrent DEF Starting!AdapterRefuses
<1>2. cur \in 1 .. NR /\ Starting!Fenced(cur) /\ ~residents[cur].stopping
  BY StartConstants DEF Starting!AdapterRefuses, SInv, StartsTyped
<1>3. ~acts.barriers
  BY <1>1, <1>2 DEF SInv, ChargedIsFenced, GivenUpOn, Starting!Fenced
<1>4. start' = [start EXCEPT ![s] = Starting!Failed(s)] /\ Starting!Failing(s, cur)
      /\ UNCHANGED <<entry, residents, cur, acts, status, stopCalls, owed>>
  BY DEF Starting!AdapterRefuses
<1>5. charged' \in [1 .. NR -> Nat]
  BY <1>2, <1>4, FailingCharges DEF SInv
<1> QED
  BY <1>1, <1>3, <1>4, <1>5, FailedRow, StartEnds DEF SInv, StartsTyped

LEMMA OpenNewStep == ASSUME SInv, NEW s \in 1 .. NS, Starting!OpenNew(s) PROVE SInv'
<1>0. PICK r \in Starting!First(Starting!Unopened) :
        /\ residents' = [residents EXCEPT ![r].ph = "preparing"]
        /\ cur' = r
        /\ start' = Starting!On(s, r, FALSE)
  BY DEF Starting!OpenNew
<1>1. r \in 1 .. NR /\ residents[r].ph = "none" /\ cur = 0 /\ cur' = r /\ r # 0
  <2>1. r \in 1 .. NR /\ residents[r].ph = "none" /\ cur' = r
    BY <1>0, Zenon DEF Starting!First, Starting!Unopened, Starting!Residents
  <2> QED
    BY <2>1, StartConstants DEF Starting!OpenNew, Starting!Vacant
<1>2. entry = s /\ ~Halted /\ start[s].ph \in {"auth", "native"} /\ start[s].retry = "none"
  BY EnteringIsCurrent DEF Starting!OpenNew
<1>3. UNCHANGED <<entry, acts, status, stopCalls, owed, charged>>
  BY DEF Starting!OpenNew
<1>4. /\ start' \in [1 .. NS -> StartRows] /\ start'[s].ph = "native" /\ start'[s].on = r
      /\ start'[s].waits = FALSE /\ start'[s].retry = "none"
      /\ \A k \in 1 .. NS \ {s} : start'[k] = start[k]
  <2>1. StartsTyped /\ FALSE \in BOOLEAN
    BY DEF SInv
  <2> QED
    BY <1>0, <1>1, <1>2, <2>1, OnRow, Zenon
<1>5. /\ residents' \in [1 .. NR -> ResidentRows]
      /\ \A q \in 1 .. NR :
            /\ residents'[q].aborted = residents[q].aborted
            /\ residents'[q].stopping = residents[q].stopping
            /\ residents'[q].ph = IF q = r THEN "preparing" ELSE residents[q].ph
  <2>1. residents' = [residents EXCEPT ![r].ph = "preparing"]
    BY <1>0, Zenon
  <2> QED
    BY <1>1, <2>1 DEF SInv, StartsTyped, ResidentRows
<1>6. StartsTyped' /\ OneResident' /\ HaltedOwesStop'
  BY <1>1, <1>2, <1>3, <1>4, <1>5 DEF SInv, StartsTyped, OneResident, HaltedOwesStop, Halted
<1>7. EntryGoverns'
  BY <1>1, <1>2, <1>3, <1>4, <1>5 DEF SInv, StartsTyped, EntryGoverns, StartRows
<1>8. ASSUME acts.barriers PROVE OneAct' /\ ChargedIsFenced'
  <2>1. OneAct'
    BY <1>8, <1>3 DEF SInv, OneAct, Halted
  <2>2. charged[r] = 0 /\ ~residents'[r].aborted
    BY <1>8, <1>1, <1>5 DEF SInv, StartsTyped, ChargedIsFenced, EntryGoverns
  <2>3. \A q \in 1 .. NR : ~GivenUpOn(q)
    BY <1>2 DEF GivenUpOn
  <2>4. \A k \in 1 .. NS : start'[k].ph = "native" => k = s
    BY <1>2, <1>4 DEF SInv, EntryGoverns
  <2> QED
    BY <1>1, <1>2, <1>3, <1>4, <1>5, <1>8, <2>1, <2>2, <2>3, <2>4
       DEF SInv, StartsTyped, ChargedIsFenced, Halted
<1> QED
  BY <1>3, <1>6, <1>7, <1>8 DEF SInv

LEMMA WaitForStopStep == ASSUME SInv, NEW s \in 1 .. NS, Starting!WaitForStop(s) PROVE SInv'
<1>1. cur \in 1 .. NR /\ residents[cur].stopping
  BY StartConstants DEF Starting!WaitForStop, SInv, StartsTyped
<1>2. entry = s /\ ~Halted /\ start[s].ph \in {"auth", "native"} /\ start[s].retry = "none"
  BY EnteringIsCurrent DEF Starting!WaitForStop
<1>3. UNCHANGED <<entry, residents, cur, acts, status, stopCalls, owed, charged>>
  BY DEF Starting!WaitForStop
<1>4. /\ start' \in [1 .. NS -> StartRows] /\ start'[s].ph = "native" /\ start'[s].on = cur
      /\ start'[s].waits = TRUE /\ start'[s].retry = "none"
      /\ \A k \in 1 .. NS \ {s} : start'[k] = start[k]
  <2>1. StartsTyped /\ TRUE \in BOOLEAN
    BY DEF SInv
  <2>2. start' = Starting!On(s, cur, TRUE)
    BY Zenon DEF Starting!WaitForStop
  <2> QED
    BY <1>1, <1>2, <2>1, <2>2, OnRow, Zenon
<1>5. StartsTyped' /\ OneResident' /\ HaltedOwesStop'
  BY <1>1, <1>2, <1>3, <1>4 DEF SInv, StartsTyped, OneResident, HaltedOwesStop, Halted
<1>6. EntryGoverns'
  <2>1. residents[cur].ph # "none" /\ residents[cur].aborted
    BY <1>1 DEF SInv, OneResident, EntryGoverns
  <2>2. \A k \in 1 .. NS \ {s} : start'[k].ph # "native" /\ (start'[k].ph = "auth" => start'[k].aborted)
    BY <1>2, <1>4 DEF SInv, EntryGoverns
  <2>3. entry' = s /\ start'[s].ph = "native" /\ start'[s].on = cur /\ start'[s].retry = "none" /\ cur # 0
    BY <1>1, <1>2, <1>3, <1>4, StartConstants
  <2>4. \A k \in 1 .. NS \ {s} : start'[k].ph = "given" =>
            start'[k].on # 0 /\ residents[start'[k].on].ph # "none" /\ residents[start'[k].on].aborted
    BY <1>4 DEF SInv, EntryGoverns
  <2>5. \A k \in 1 .. NS \ {s} : start'[k].ph \in {"auth", "native"} => start'[k].retry = "none"
    BY <1>4 DEF SInv, EntryGoverns
  <2>6. \A r \in 1 .. NR :
            /\ residents[r].stopping => residents[r].aborted
            /\ residents[r].ph = "none" => ~residents[r].aborted
    BY DEF SInv, EntryGoverns
  <2> QED
    BY <1>3, <2>1, <2>2, <2>3, <2>4, <2>5, <2>6 DEF EntryGoverns
<1>7. ASSUME acts.barriers PROVE OneAct' /\ ChargedIsFenced'
  <2>1. OneAct'
    BY <1>7, <1>3 DEF SInv, OneAct, Halted
  <2>2. \A q \in 1 .. NR : ~GivenUpOn(q)
    BY <1>2 DEF GivenUpOn
  <2>3. charged[cur] = 0
    BY <1>1, <1>2, <1>7, <2>2 DEF SInv, StartsTyped, ChargedIsFenced, OneResident
  <2>4. \A k \in 1 .. NS : start'[k].ph = "native" => k = s
    BY <1>2, <1>4 DEF SInv, EntryGoverns
  <2> QED
    BY <1>1, <1>2, <1>3, <1>4, <1>7, <2>1, <2>2, <2>3, <2>4
       DEF SInv, StartsTyped, ChargedIsFenced, Halted
<1> QED
  BY <1>3, <1>5, <1>6, <1>7 DEF SInv

\* The bound of a start cancels what it opens, or leaves what it waits for.
LEMMA TimeoutStep == ASSUME SInv, NEW s \in 1 .. NS, Starting!Timeout(s) PROVE SInv'
<1>1. PICK r \in 1 .. NR :
      /\ start[s].on = r /\ start[s].ph = "native" /\ entry = s
      /\ residents[r].ph # "none" /\ ~Halted /\ start[s].retry = "none"
  <2>1. start[s] \in StartRows
    BY DEF SInv, StartsTyped
  <2>2. start[s].on \in 1 .. NR
    BY <2>1, StartConstants DEF Starting!Timeout, SInv, StartRows, EntryGoverns
  <2> QED
    BY <2>1, <2>2, StartConstants DEF Starting!Timeout, SInv, EntryGoverns, HaltedOwesStop
<1> DEFINE row == [Starting!Aborted(s) EXCEPT !.retry = "later"]
<1>2. row \in StartRows /\ row.ph = "given" /\ row.on = r
  BY <1>1, AbortedRow DEF SInv
<1>3. /\ start' = [start EXCEPT ![s] = row] /\ residents' = Starting!Cancelled(s)
      /\ Starting!Failing(s, r) /\ acts' = [acts EXCEPT !.faults = @ - 1] /\ acts.faults > 0
  BY <1>1 DEF Starting!Timeout
<1>0. UNCHANGED <<status, owed, entry, cur, stopCalls>>
  BY DEF Starting!Timeout
<1>4. /\ residents' \in [1 .. NR -> ResidentRows]
      /\ \A q \in 1 .. NR :
            /\ residents'[q].ph = residents[q].ph /\ residents'[q].stopping = residents[q].stopping
            /\ residents'[q].aborted => residents[q].aborted \/ (Cancels(s) /\ q = start[s].on)
            /\ residents[q].aborted \/ (Cancels(s) /\ q = start[s].on) => residents'[q].aborted
  BY <1>1, <1>3, CancelledRows, StartConstants DEF SInv
<1>5. Starting!CountsFor(s) => status = "active"
  BY DEF Starting!CountsFor
<1>6. /\ charged' \in [1 .. NR -> Nat]
      /\ \A q \in 1 .. NR : charged'[q] =
            IF q = r /\ Starting!CountsFor(s) THEN charged[q] + 1 ELSE charged[q]
  BY <1>1, <1>3, FailingCharges DEF SInv
<1> HIDE DEF row
<1>7. /\ acts' \in [owner : Nat, faults : Nat, barriers : BOOLEAN]
      /\ acts'.owner = acts.owner /\ acts'.barriers = acts.barriers
  BY <1>3 DEF SInv, StartsTyped
<1>8. start' \in [1 .. NS -> StartRows] /\ start'[s] = row /\ \A k \in 1 .. NS \ {s} : start'[k] = start[k]
  BY <1>2, <1>3 DEF SInv, StartsTyped
<1>9. residents'[r].aborted
  BY <1>1, <1>4 DEF SInv, EntryGoverns, Cancels
<1>10. StartsTyped' /\ OneResident' /\ HaltedOwesStop'
  <2>1. StartsTyped'
    BY <1>0, <1>4, <1>6, <1>7, <1>8 DEF SInv, StartsTyped
  <2>2. OneResident'
    <3>1. \A q \in 1 .. NR : residents'[q].ph = residents[q].ph
      BY <1>4
    <3>2. cur = 0 \/ cur \in 1 .. NR
      BY StartConstants DEF SInv, StartsTyped
    <3> QED
      BY <1>0, <3>1, <3>2 DEF SInv, OneResident
  <2>3. HaltedOwesStop'
    BY <1>0, <1>1, <1>7 DEF SInv, HaltedOwesStop, Halted
  <2> QED
    BY <2>1, <2>2, <2>3
<1>11. EntryGoverns'
  <2>1. \A k \in 1 .. NS \ {s} : start[k].ph # "native"
    BY <1>1 DEF SInv, EntryGoverns
  <2>2. ASSUME NEW q \in 1 .. NR PROVE /\ residents[q].aborted => residents'[q].aborted
                                       /\ residents'[q].stopping => residents'[q].aborted
                                       /\ residents'[q].ph = "none" => ~residents'[q].aborted
    BY <1>1, <1>4 DEF SInv, EntryGoverns, Cancels
  <2>3. ASSUME NEW k \in 1 .. NS \ {s}, start[k].ph = "given"
        PROVE  start[k].on \in 1 .. NR
    <3>1. start[k] \in StartRows
      BY DEF SInv, StartsTyped
    <3> QED
      BY <2>3, <3>1, StartConstants DEF SInv, EntryGoverns, StartRows
  <2> QED
    BY <1>0, <1>1, <1>2, <1>4, <1>8, <1>9, <2>1, <2>2, <2>3 DEF SInv, EntryGoverns
<1>12. ASSUME acts.barriers PROVE OneAct' /\ ChargedIsFenced'
  <2>1. OneAct'
    BY <1>0, <1>12, <1>7 DEF SInv, OneAct, Halted
  <2>2. charged[r] = 0 /\ (\A q \in 1 .. NR : ~GivenUpOn(q)) /\ GivenUpOn(r)'
    BY <1>0, <1>1, <1>2, <1>8, <1>12, StartConstants DEF SInv, ChargedIsFenced, GivenUpOn
  <2>3. \A k \in 1 .. NS : start'[k].ph # "native"
    BY <1>1, <1>2, <1>8 DEF SInv, EntryGoverns
  <2>4. ASSUME NEW q \in 1 .. NR
        PROVE  charged'[q] <= 1 /\ (charged'[q] = 1 =>
                    /\ residents'[q].ph # "none" /\ status' # "staged"
                    /\ residents'[q].ph = "gone" \/ Halted' \/ GivenUpOn(q)')
    <3>1. residents'[q].ph = residents[q].ph
      BY <1>4
    <3>2. CASE q = r /\ Starting!CountsFor(s)
      BY <1>0, <1>1, <1>5, <1>6, <2>2, <3>1, <3>2
    <3>3. CASE ~(q = r /\ Starting!CountsFor(s))
      <4>1. charged'[q] = charged[q]
        BY <1>6, <3>3
      <4>2. charged[q] <= 1 /\ (charged[q] = 1 => residents[q].ph # "none" /\ status # "staged"
                                                    /\ (residents[q].ph = "gone" \/ Halted))
        BY <1>12, <2>2 DEF SInv, ChargedIsFenced
      <4> QED
        BY <1>0, <3>1, <4>1, <4>2 DEF Halted
    <3> QED
      BY <3>2, <3>3
  <2>5. cur' # 0 /\ residents'[cur'].aborted /\ ~residents'[cur'].stopping => Halted' \/ GivenUpOn(cur)'
    <3>1. cur # 0 => cur \in 1 .. NR
      BY StartConstants DEF SInv, StartsTyped
    <3> QED
      BY <1>0, <1>1, <1>4, <1>12, <2>2, <3>1 DEF SInv, ChargedIsFenced, Halted, Cancels
  <2> QED
    BY <2>1, <2>3, <2>4, <2>5 DEF ChargedIsFenced
<1> QED
  BY <1>7, <1>10, <1>11, <1>12 DEF SInv

LEMMA StartWorkerStep == ASSUME SInv, Starting!StartWorker PROVE SInv'
<1>1. PICK s \in Starting!First(Starting!Unmade) :
        start' = [start EXCEPT ![s] = Starting!Made(s, FALSE)] /\ entry' = s
  BY Zenon DEF Starting!StartWorker
<1>2. s \in 1 .. NS /\ start[s].ph = "none" /\ entry' = s
  BY <1>1, Zenon DEF Starting!First, Starting!Unmade, Starting!Starts
<1>3. /\ status = "active" /\ (entry = 0 \/ (start[entry].ph # "given" /\ start[entry].retry = "due"))
      /\ UNCHANGED <<residents, cur, acts, status, stopCalls, owed, charged>>
  BY DEF Starting!StartWorker, Starting!Joins
<1>4. /\ start' \in [1 .. NS -> StartRows] /\ start'[s].ph = "auth" /\ start'[s].retry = "none"
      /\ \A k \in 1 .. NS \ {s} : start'[k] = start[k]
  <2> DEFINE row == Starting!Made(s, FALSE)
  <2>1. row \in StartRows /\ row.ph = "auth" /\ row.retry = "none" /\ start' = [start EXCEPT ![s] = row]
    BY <1>1, MadeRow, Zenon
  <2> HIDE DEF row
  <2> QED
    BY <1>2, <2>1 DEF SInv, StartsTyped
<1>5. StartsTyped' /\ OneResident' /\ HaltedOwesStop'
  BY <1>2, <1>3, <1>4, StartConstants DEF SInv, StartsTyped, OneResident, HaltedOwesStop, Halted
<1>6. EntryGoverns'
  <2>1. \A k \in 1 .. NS \ {s} : start[k].ph # "native" /\ (start[k].ph = "auth" => start[k].aborted)
    BY <1>3 DEF SInv, EntryGoverns
  <2> QED
    BY <1>2, <1>3, <1>4, <2>1 DEF SInv, EntryGoverns
<1>7. ASSUME acts.barriers PROVE OneAct' /\ ChargedIsFenced'
  <2>1. \A q \in 1 .. NR : ~GivenUpOn(q)
    BY <1>3 DEF GivenUpOn
  <2>2. OneAct'
    BY <1>3, <1>7 DEF SInv, OneAct, Halted
  <2> QED
    BY <1>2, <1>3, <1>4, <1>7, <2>1, <2>2, StartConstants DEF SInv, StartsTyped, ChargedIsFenced, Halted
<1> QED
  BY <1>3, <1>5, <1>6, <1>7 DEF SInv

\* Giving a start up: it is out of the adapter, and what it opens is cancelled.
LEMMA EntryAborted ==
    ASSUME SInv, entry # 0
    PROVE  /\ entry \in 1 .. NS /\ Starting!Aborted(entry) \in StartRows
           /\ Starting!Aborted(entry).aborted
           /\ Starting!Aborted(entry).ph \in {"auth", "given", "over"}
           /\ Starting!Aborted(entry).ph = "auth" => Starting!Aborted(entry).retry = "none"
           /\ Starting!Aborted(entry).ph = "given" =>
                /\ Starting!Aborted(entry).on = start[entry].on
                /\ start[entry].on \in 1 .. NR
                /\ residents[start[entry].on].ph # "none"
                /\ Starting!Cancelled(entry)[start[entry].on].aborted
           /\ Starting!Cancelled(entry) \in [1 .. NR -> ResidentRows]
           /\ \A q \in 1 .. NR :
                /\ Starting!Cancelled(entry)[q].ph = residents[q].ph
                /\ Starting!Cancelled(entry)[q].stopping = residents[q].stopping
                /\ residents[q].aborted => Starting!Cancelled(entry)[q].aborted
                /\ residents[q].ph = "none" => ~Starting!Cancelled(entry)[q].aborted
<1>1. entry \in 1 .. NS /\ start[entry] \in StartRows /\ start[entry].ph # "none"
  BY StartConstants DEF SInv, StartsTyped, EntryGoverns
<1>2. start[entry].ph \in {"native", "given"} =>
        start[entry].on \in 1 .. NR /\ residents[start[entry].on].ph # "none"
  BY <1>1, StartConstants DEF SInv, EntryGoverns, StartRows
<1>3. /\ Starting!Cancelled(entry) \in [1 .. NR -> ResidentRows]
      /\ \A q \in 1 .. NR :
            /\ Starting!Cancelled(entry)[q].ph = residents[q].ph
            /\ Starting!Cancelled(entry)[q].stopping = residents[q].stopping
            /\ Starting!Cancelled(entry)[q].aborted
                => residents[q].aborted \/ (Cancels(entry) /\ q = start[entry].on)
            /\ residents[q].aborted \/ (Cancels(entry) /\ q = start[entry].on)
                => Starting!Cancelled(entry)[q].aborted
  BY <1>1, CancelledRows DEF SInv, Cancels, EntryGoverns
<1>4. /\ Starting!Aborted(entry) \in StartRows
      /\ Starting!Aborted(entry).aborted /\ Starting!Aborted(entry).on = start[entry].on
      /\ Starting!Aborted(entry).retry = start[entry].retry
      /\ Starting!Aborted(entry).ph = IF start[entry].ph = "native" THEN "given" ELSE start[entry].ph
  BY <1>1, AbortedRow DEF SInv
<1>5. start[entry].ph \in {"native", "given"} => Starting!Cancelled(entry)[start[entry].on].aborted
  BY <1>1, <1>2, <1>3 DEF SInv, EntryGoverns, Cancels
<1>6. \A q \in 1 .. NR : residents[q].ph = "none" => ~Starting!Cancelled(entry)[q].aborted
  BY <1>1, <1>2, <1>3 DEF SInv, EntryGoverns, Cancels
<1>7. start[entry].ph \in {"auth", "native", "given", "over"}
  BY <1>1 DEF StartRows
<1> QED
  BY <1>1, <1>2, <1>3, <1>4, <1>5, <1>6, <1>7 DEF SInv, EntryGoverns

LEMMA AdmissionStep == ASSUME SInv, Starting!Admission PROVE SInv'
<1>1. PICK s \in Starting!First(Starting!Unmade) :
        /\ entry' = s
        /\ IF entry = 0
           THEN start' = [start EXCEPT ![s] = Starting!Made(s, TRUE)] /\ UNCHANGED residents
           ELSE /\ start' = [start EXCEPT ![s] = Starting!Made(s, TRUE), ![entry] = Starting!Aborted(entry)]
                /\ residents' = Starting!Cancelled(entry)
  BY Zenon DEF Starting!Admission
<1>2. s \in 1 .. NS /\ start[s].ph = "none" /\ entry' = s
  BY <1>1, Zenon DEF Starting!First, Starting!Unmade, Starting!Starts
<1>3. status = "staged" /\ acts.owner > 0 /\ UNCHANGED <<cur, status, stopCalls, owed, charged>>
  BY DEF Starting!Admission
<1>4. /\ acts' \in [owner : Nat, faults : Nat, barriers : BOOLEAN]
      /\ acts'.owner = acts.owner - 1 /\ acts'.barriers = acts.barriers
  BY DEF Starting!Admission, SInv, StartsTyped
<1> DEFINE row == Starting!Made(s, TRUE)
<1>5. row \in StartRows /\ row.ph = "auth" /\ row.retry = "none"
  BY MadeRow, Zenon
<1>6. CASE entry = 0
  <2>1. start' = [start EXCEPT ![s] = row] /\ UNCHANGED residents
    BY <1>1, <1>6, Zenon
  <2> HIDE DEF row
  <2>2. /\ start' \in [1 .. NS -> StartRows] /\ start'[s] = row
        /\ \A k \in 1 .. NS \ {s} : start'[k] = start[k]
    BY <1>2, <1>5, <2>1 DEF SInv, StartsTyped
  <2>3. StartsTyped' /\ OneResident' /\ HaltedOwesStop'
    BY <1>2, <1>3, <1>4, <2>1, <2>2, StartConstants
       DEF SInv, StartsTyped, OneResident, HaltedOwesStop, Halted
  <2>4. EntryGoverns'
    <3>1. \A k \in 1 .. NS : start[k].ph # "native" /\ (start[k].ph = "auth" => start[k].aborted)
      BY <1>6 DEF SInv, EntryGoverns
    <3> QED
      BY <1>2, <1>3, <1>5, <2>1, <2>2, <3>1 DEF SInv, EntryGoverns
  <2>5. ASSUME acts.barriers PROVE OneAct' /\ ChargedIsFenced'
    <3>1. OneAct'
      BY <1>3, <1>4, <2>5 DEF SInv, StartsTyped, OneAct, Halted
    <3>2. \A q \in 1 .. NR : ~GivenUpOn(q)
      BY <1>6 DEF GivenUpOn
    <3> QED
      BY <1>2, <1>3, <1>5, <2>1, <2>2, <2>5, <3>1, <3>2, StartConstants
         DEF SInv, StartsTyped, ChargedIsFenced, Halted
  <2> QED
    BY <1>4, <2>3, <2>4, <2>5 DEF SInv
<1>7. CASE entry # 0
  <2> DEFINE given == Starting!Aborted(entry)
  <2>1. start' = [start EXCEPT ![s] = row, ![entry] = given] /\ residents' = Starting!Cancelled(entry)
    BY <1>1, <1>7, Zenon
  <2> HIDE DEF row, given
  <2>2. /\ entry \in 1 .. NS /\ given \in StartRows /\ given.aborted /\ given.ph \in {"auth", "given", "over"}
        /\ given.ph = "auth" => given.retry = "none"
        /\ given.ph = "given" =>
            given.on \in 1 .. NR /\ residents[given.on].ph # "none" /\ residents'[given.on].aborted
        /\ residents' \in [1 .. NR -> ResidentRows]
        /\ \A q \in 1 .. NR :
            /\ residents'[q].ph = residents[q].ph /\ residents'[q].stopping = residents[q].stopping
            /\ residents[q].aborted => residents'[q].aborted
            /\ residents[q].ph = "none" => ~residents'[q].aborted
    BY <1>7, <2>1, EntryAborted DEF given
  <2>3. s # entry
    BY <1>2, <2>2 DEF SInv, EntryGoverns
  <2>4. /\ start' \in [1 .. NS -> StartRows] /\ start'[s] = row /\ start'[entry] = given
        /\ \A k \in 1 .. NS \ {s, entry} : start'[k] = start[k]
    BY <1>2, <1>5, <2>1, <2>2, <2>3 DEF SInv, StartsTyped
  <2>5. StartsTyped' /\ OneResident' /\ HaltedOwesStop'
    <3>1. StartsTyped'
      BY <1>2, <1>3, <1>4, <2>2, <2>4, StartConstants DEF SInv, StartsTyped
    <3>2. OneResident'
      BY <1>3, <2>2, StartConstants DEF SInv, StartsTyped, OneResident
    <3>3. HaltedOwesStop'
      BY <1>3, <1>4 DEF SInv, HaltedOwesStop, Halted
    <3> QED
      BY <3>1, <3>2, <3>3
  <2>6. EntryGoverns'
    <3>1. ASSUME NEW k \in 1 .. NS \ {s, entry}
          PROVE  /\ start[k].ph # "native" /\ (start[k].ph = "auth" => start[k].aborted)
                 /\ start[k].ph = "given" =>
                        start[k].on \in 1 .. NR /\ residents[start[k].on].ph # "none"
                        /\ residents[start[k].on].aborted
      <4>1. start[k] \in StartRows
        BY DEF SInv, StartsTyped
      <4> QED
        BY <4>1, StartConstants DEF SInv, EntryGoverns, StartRows
    <3>2. \A q \in 1 .. NR : residents'[q].stopping => residents'[q].aborted
      BY <2>2 DEF SInv, EntryGoverns
    <3>3. \A k \in 1 .. NS \ {s, entry} : start[k].ph \in {"auth", "native"} => start[k].retry = "none"
      BY DEF SInv, EntryGoverns
    <3> QED
      BY <1>2, <1>5, <2>2, <2>4, <3>1, <3>2, <3>3 DEF EntryGoverns
  <2>7. ~acts.barriers
    BY <1>3, <1>7 DEF SInv, StartsTyped, OneAct
  <2> QED
    BY <1>4, <2>5, <2>6, <2>7 DEF SInv
<1> QED
  BY <1>6, <1>7

LEMMA ControlStep ==
    ASSUME SInv, NEW next \in {"paused", "stopped"}, Starting!Control(next)
    PROVE  SInv'
<1>1. status' = next /\ entry' = 0 /\ acts.owner > 0 /\ UNCHANGED <<cur, owed, charged>>
  BY DEF Starting!Control
<1>2. stopCalls' # {}
  BY DEF Starting!Control
<1>3. /\ acts' \in [owner : Nat, faults : Nat, barriers : BOOLEAN]
      /\ acts'.owner = acts.owner - 1 /\ acts'.barriers = acts.barriers
  BY DEF Starting!Control, SInv, StartsTyped
<1>4. /\ start' \in [1 .. NS -> StartRows] /\ residents' \in [1 .. NR -> ResidentRows]
      /\ \A q \in 1 .. NR :
            /\ residents'[q].ph = residents[q].ph /\ residents'[q].stopping = residents[q].stopping
            /\ residents'[q].stopping => residents'[q].aborted
            /\ residents[q].ph = "none" => ~residents'[q].aborted
      /\ \A k \in 1 .. NS :
            /\ start'[k].ph # "native"
            /\ start'[k].ph = "auth" => start'[k].aborted /\ start'[k].retry = "none"
            /\ start'[k].ph = "given" =>
                /\ start'[k].on \in 1 .. NR /\ residents'[start'[k].on].ph # "none"
                /\ residents'[start'[k].on].aborted
  <2>1. ASSUME NEW k \in 1 .. NS, k # entry
        PROVE  /\ start[k].ph # "native"
               /\ start[k].ph = "auth" => start[k].aborted /\ start[k].retry = "none"
               /\ start[k].ph = "given" =>
                    /\ start[k].on \in 1 .. NR /\ residents[start[k].on].ph # "none"
                    /\ residents[start[k].on].aborted
    <3>1. start[k] \in StartRows
      BY DEF SInv, StartsTyped
    <3> QED
      BY <2>1, <3>1, StartConstants DEF SInv, EntryGoverns, StartRows
  <2>2. \A q \in 1 .. NR : /\ residents[q].stopping => residents[q].aborted
                           /\ residents[q].ph = "none" => ~residents[q].aborted
    BY DEF SInv, EntryGoverns
  <2>3. CASE entry = 0
    <3>1. UNCHANGED <<start, residents>>
      BY <2>3 DEF Starting!Control
    <3> QED
      BY <2>1, <2>2, <2>3, <3>1, StartConstants DEF SInv, StartsTyped
  <2>4. CASE entry # 0
    <3> DEFINE given == Starting!Aborted(entry)
    <3>1. start' = [start EXCEPT ![entry] = given] /\ residents' = Starting!Cancelled(entry)
      BY <2>4, Zenon DEF Starting!Control
    <3> HIDE DEF given
    <3>2. /\ entry \in 1 .. NS /\ given \in StartRows /\ given.aborted /\ given.ph \in {"auth", "given", "over"}
          /\ given.ph = "auth" => given.retry = "none"
          /\ given.ph = "given" =>
              given.on \in 1 .. NR /\ residents[given.on].ph # "none" /\ residents'[given.on].aborted
          /\ residents' \in [1 .. NR -> ResidentRows]
          /\ \A q \in 1 .. NR :
              /\ residents'[q].ph = residents[q].ph /\ residents'[q].stopping = residents[q].stopping
              /\ residents[q].aborted => residents'[q].aborted
              /\ residents[q].ph = "none" => ~residents'[q].aborted
      BY <2>4, <3>1, EntryAborted DEF given
    <3>3. /\ start' \in [1 .. NS -> StartRows] /\ start'[entry] = given
          /\ \A k \in 1 .. NS \ {entry} : start'[k] = start[k]
      BY <3>1, <3>2 DEF SInv, StartsTyped
    <3> QED
      BY <2>1, <2>2, <3>2, <3>3
  <2> QED
    BY <2>3, <2>4
<1>5. StartsTyped' /\ OneResident' /\ EntryGoverns' /\ HaltedOwesStop'
  <2>1. StartsTyped'
    BY <1>1, <1>3, <1>4, StartConstants DEF SInv, StartsTyped
  <2>2. OneResident'
    BY <1>1, <1>4, StartConstants DEF SInv, StartsTyped, OneResident
  <2>3. EntryGoverns'
    BY <1>1, <1>4, StartConstants DEF EntryGoverns
  <2>4. HaltedOwesStop'
    BY <1>1, <1>2, <1>3 DEF SInv, HaltedOwesStop, Halted
  <2> QED
    BY <2>1, <2>2, <2>3, <2>4
<1>6. ASSUME acts.barriers PROVE OneAct' /\ ChargedIsFenced'
  <2>1. acts'.owner = 0 /\ Halted'
    BY <1>1, <1>3, <1>6 DEF SInv, StartsTyped, OneAct, Halted
  <2>2. \A q \in 1 .. NR : charged[q] <= 1 /\ (charged[q] = 1 => residents[q].ph # "none")
    BY <1>6 DEF SInv, ChargedIsFenced
  <2> QED
    BY <1>1, <1>4, <2>1, <2>2 DEF OneAct, ChargedIsFenced
<1> QED
  BY <1>3, <1>5, <1>6 DEF SInv

\* An opening that is rejected takes the start that awaits it along, and those given up on it.
LEMMA RejectedStep ==
    ASSUME SInv, NEW r \in 1 .. NR, residents[r].ph \in {"preparing", "disposing"},
           residents' = [residents EXCEPT ![r].ph = "gone"],
           Starting!Forgets(r), Starting!SettleOn(r, FALSE),
           acts' \in [owner : Nat, faults : Nat, barriers : BOOLEAN],
           acts'.owner = acts.owner, acts'.barriers = acts.barriers,
           UNCHANGED <<status, owed>>
    PROVE  SInv'
<1>1. /\ residents' \in [1 .. NR -> ResidentRows]
      /\ \A q \in 1 .. NR :
            /\ residents'[q].aborted = residents[q].aborted
            /\ residents'[q].stopping = residents[q].stopping
            /\ residents'[q].ph = IF q = r THEN "gone" ELSE residents[q].ph
  BY DEF SInv, StartsTyped, ResidentRows
<1>2. cur = r /\ cur' = 0 /\ r # 0
  BY StartConstants DEF SInv, OneResident, Starting!Forgets
<1>3. /\ start' \in [1 .. NS -> StartRows]
      /\ \A s \in 1 .. NS :
            IF start[s].on = r /\ (start[s].ph = "given" \/ (start[s].ph = "native" /\ ~start[s].waits))
            THEN start'[s].ph = "over" ELSE start'[s] = start[s]
      /\ entry' = entry
      /\ stopCalls \subseteq stopCalls'
      /\ charged' \in [1 .. NR -> Nat]
      /\ \A q \in 1 .. NR : charged'[q] = charged[q] \/
            /\ q = r /\ charged'[q] = charged[q] + 1
            /\ entry # 0 /\ start[entry].ph = "native" /\ start[entry].on = r
            /\ ~start[entry].waits /\ status = "active"
  <2>1. StartsTyped /\ EntryGoverns /\ FALSE \in BOOLEAN
    BY DEF SInv
  <2> QED
    BY <2>1, SettledRows, Zenon
<1>4. StartsTyped' /\ OneResident' /\ HaltedOwesStop'
  BY <1>1, <1>2, <1>3, StartConstants DEF SInv, StartsTyped, OneResident, HaltedOwesStop, Halted
<1>5. EntryGoverns'
  <2>1. ASSUME NEW s \in 1 .. NS
        PROVE  /\ start'[s].ph = "over" \/ start'[s] = start[s]
               /\ start[s].ph \in {"native", "given"} => start[s].on \in 1 .. NR
    <3>1. start[s] \in StartRows
      BY DEF SInv, StartsTyped
    <3> QED
      BY <1>3, <3>1, StartConstants DEF SInv, EntryGoverns, StartRows
  <2>2. \A q \in 1 .. NR : residents'[q].ph = "none" => residents[q].ph = "none"
    BY <1>1
  <2>3. entry # 0 => entry \in 1 .. NS
    BY StartConstants DEF SInv, StartsTyped
  <2>4. entry # 0 => start'[entry].ph # "none"
    BY <2>1, <2>3 DEF SInv, EntryGoverns
  <2> QED
    BY <1>1, <1>3, <2>1, <2>2, <2>4 DEF SInv, EntryGoverns
<1>6. ASSUME acts.barriers PROVE OneAct' /\ ChargedIsFenced'
  <2>1. OneAct'
    BY <1>3, <1>6 DEF SInv, OneAct, Halted
  <2>2. entry # 0 => entry \in 1 .. NS
    BY StartConstants DEF SInv, StartsTyped
  <2>3. ASSUME NEW q \in 1 .. NR, q # r, GivenUpOn(q) PROVE GivenUpOn(q)'
    BY <1>3, <2>2, <2>3 DEF GivenUpOn
  <2>4. ASSUME NEW q \in 1 .. NR
        PROVE  charged'[q] <= 1 /\ (charged'[q] = 1 =>
                    /\ residents'[q].ph # "none" /\ status' # "staged"
                    /\ residents'[q].ph = "gone" \/ Halted' \/ GivenUpOn(q)')
    <3>1. charged[q] <= 1 /\ (charged[q] = 1 =>
                    /\ residents[q].ph # "none" /\ status # "staged"
                    /\ residents[q].ph = "gone" \/ Halted \/ GivenUpOn(q))
      BY <1>6 DEF SInv, ChargedIsFenced
    <3>2. CASE charged'[q] = charged[q]
      BY <1>1, <2>3, <3>1, <3>2 DEF Halted
    <3>3. CASE charged'[q] # charged[q]
      <4>1. /\ q = r /\ charged'[q] = charged[q] + 1 /\ status = "active"
            /\ entry \in 1 .. NS /\ start[entry].ph = "native" /\ start[entry].on = r
        BY <1>3, <2>2, <3>3
      <4>2. charged[q] = 0
        BY <1>6, <4>1 DEF SInv, ChargedIsFenced
      <4> QED
        BY <1>1, <4>1, <4>2
    <3> QED
      BY <3>2, <3>3
  <2>5. ASSUME NEW s \in 1 .. NS, start'[s].ph = "native" PROVE charged'[start'[s].on] = 0
    <3>1. start'[s] = start[s] /\ start[s].ph = "native" /\ entry = s /\ charged[start[s].on] = 0
      BY <1>3, <1>6, <2>5 DEF SInv, EntryGoverns, ChargedIsFenced
    <3>2. start[s].on \in 1 .. NR
      <4>1. start[s] \in StartRows
        BY DEF SInv, StartsTyped
      <4> QED
        BY <3>1, <4>1, StartConstants DEF SInv, EntryGoverns, StartRows
    <3>3. ~(start[s].on = r /\ ~start[s].waits)
      BY <1>3, <2>5, <3>1
    <3> QED
      BY <1>3, <3>1, <3>2, <3>3
  <2> QED
    BY <1>2, <2>1, <2>4, <2>5 DEF ChargedIsFenced
<1> QED
  BY <1>4, <1>5, <1>6 DEF SInv

LEMMA OpeningFailsStep == ASSUME SInv, NEW r \in 1 .. NR, Starting!OpeningFails(r) PROVE SInv'
<1>1. /\ acts' \in [owner : Nat, faults : Nat, barriers : BOOLEAN]
      /\ acts'.owner = acts.owner /\ acts'.barriers = acts.barriers
  BY DEF Starting!OpeningFails, SInv, StartsTyped
<1>2. /\ residents[r].ph \in {"preparing", "disposing"}
      /\ residents' = [residents EXCEPT ![r].ph = "gone"]
      /\ UNCHANGED <<status, owed>>
  BY DEF Starting!OpeningFails
<1>3. Starting!Forgets(r) /\ Starting!SettleOn(r, FALSE)
  BY Zenon DEF Starting!OpeningFails
<1> QED
  BY <1>1, <1>2, <1>3, RejectedStep, Zenon

LEMMA DiscardedStep == ASSUME SInv, NEW r \in 1 .. NR, Starting!Discarded(r) PROVE SInv'
<1>1. /\ acts' \in [owner : Nat, faults : Nat, barriers : BOOLEAN]
      /\ acts'.owner = acts.owner /\ acts'.barriers = acts.barriers
  BY DEF Starting!Discarded, SInv, StartsTyped
<1>2. /\ residents[r].ph \in {"preparing", "disposing"}
      /\ residents' = [residents EXCEPT ![r].ph = "gone"]
      /\ UNCHANGED <<status, owed>>
  BY DEF Starting!Discarded
<1>3. Starting!Forgets(r) /\ Starting!SettleOn(r, FALSE)
  BY Zenon DEF Starting!Discarded
<1> QED
  BY <1>1, <1>2, <1>3, RejectedStep, Zenon

LEMMA PublishStep == ASSUME SInv, NEW r \in 1 .. NR, Starting!Publish(r) PROVE SInv'
<1>1. /\ residents[r].ph = "created" /\ ~residents[r].aborted
      /\ residents' = [residents EXCEPT ![r].ph = "open"] /\ UNCHANGED <<status, owed, cur, acts>>
  BY DEF Starting!Publish, Starting!Fenced
<1>2. /\ residents' \in [1 .. NR -> ResidentRows]
      /\ \A q \in 1 .. NR :
            /\ residents'[q].aborted = residents[q].aborted
            /\ residents'[q].stopping = residents[q].stopping
            /\ residents'[q].ph = IF q = r THEN "open" ELSE residents[q].ph
  BY <1>1 DEF SInv, StartsTyped, ResidentRows
<1>3. /\ start' \in [1 .. NS -> StartRows]
      /\ \A s \in 1 .. NS :
            IF start[s].on = r /\ (start[s].ph = "given" \/ (start[s].ph = "native" /\ ~start[s].waits))
            THEN start'[s].ph = "over" ELSE start'[s] = start[s]
      /\ entry' \in {entry, 0} /\ (entry' # entry => start'[entry].ph = "over")
      /\ stopCalls \subseteq stopCalls' /\ charged' \in [1 .. NR -> Nat]
      /\ \A q \in 1 .. NR : charged'[q] = charged[q]
  <2>1. StartsTyped /\ EntryGoverns /\ TRUE \in BOOLEAN /\ Starting!SettleOn(r, TRUE)
    BY Zenon DEF SInv, Starting!Publish
  <2> QED
    BY <2>1, SettledRows, Zenon
<1>4. ASSUME NEW s \in 1 .. NS
      PROVE  /\ start'[s].ph = "over" \/ start'[s] = start[s]
             /\ start[s].ph \in {"native", "given"} => start[s].on \in 1 .. NR
  <2>1. start[s] \in StartRows
    BY DEF SInv, StartsTyped
  <2> QED
    BY <1>3, <2>1, StartConstants DEF SInv, EntryGoverns, StartRows
<1>5. entry # 0 => entry \in 1 .. NS /\ start'[entry].ph # "none"
  <2>1. entry # 0 => entry \in 1 .. NS
    BY StartConstants DEF SInv, StartsTyped
  <2> QED
    BY <1>4, <2>1 DEF SInv, EntryGoverns
<1>6. StartsTyped' /\ OneResident' /\ HaltedOwesStop'
  <2>1. StartsTyped'
    BY <1>1, <1>2, <1>3, StartConstants DEF SInv, StartsTyped
  <2>2. OneResident'
    BY <1>1, <1>2, StartConstants DEF SInv, StartsTyped, OneResident
  <2>3. cur # 0 => cur \in 1 .. NR
    BY StartConstants DEF SInv, StartsTyped
  <2>4. HaltedOwesStop'
    BY <1>1, <1>2, <1>3, <2>3 DEF SInv, HaltedOwesStop, Halted
  <2> QED
    BY <2>1, <2>2, <2>4
<1>7. EntryGoverns'
  BY <1>2, <1>3, <1>4, <1>5 DEF SInv, EntryGoverns
<1>8. ASSUME acts.barriers PROVE OneAct' /\ ChargedIsFenced'
  <2>1. OneAct'
    BY <1>1, <1>3, <1>8 DEF SInv, OneAct, Halted
  <2>2. ASSUME NEW q \in 1 .. NR, GivenUpOn(q) PROVE GivenUpOn(q)'
    <3>1. q # r
      BY <1>1, <1>5, <2>2 DEF SInv, EntryGoverns, GivenUpOn
    <3> QED
      BY <1>3, <1>5, <2>2, <3>1 DEF GivenUpOn
  <2>3. ASSUME NEW q \in 1 .. NR
        PROVE  charged'[q] <= 1 /\ (charged'[q] = 1 =>
                    /\ residents'[q].ph # "none" /\ status' # "staged"
                    /\ residents'[q].ph = "gone" \/ Halted' \/ GivenUpOn(q)')
    <3>1. charged[q] <= 1 /\ (charged[q] = 1 =>
                    /\ residents[q].ph # "none" /\ status # "staged"
                    /\ residents[q].ph = "gone" \/ Halted \/ GivenUpOn(q))
      BY <1>8 DEF SInv, ChargedIsFenced
    <3> QED
      BY <1>1, <1>2, <1>3, <2>2, <3>1 DEF Halted
  <2>4. \A s \in 1 .. NS : start'[s].ph = "native" => charged'[start'[s].on] = 0
    BY <1>3, <1>4, <1>8 DEF SInv, ChargedIsFenced
  <2>5. cur' # 0 /\ residents'[cur'].aborted /\ ~residents'[cur'].stopping => Halted' \/ GivenUpOn(cur)'
    <3>1. cur # 0 => cur \in 1 .. NR
      BY StartConstants DEF SInv, StartsTyped
    <3> QED
      BY <1>1, <1>2, <1>8, <2>2, <3>1 DEF SInv, ChargedIsFenced, Halted
  <2> QED
    BY <2>1, <2>3, <2>4, <2>5 DEF ChargedIsFenced
<1> QED
  BY <1>1, <1>6, <1>7, <1>8 DEF SInv

\* A step on the phase of the resident the map holds: it is created, or disposed of.
LEMMA ResidentMoves ==
    ASSUME SInv, NEW r \in 1 .. NR, NEW ph \in {"created", "disposing", "gone"},
           residents[r].ph \in {"preparing", "created", "open"},
           residents' = [residents EXCEPT ![r].ph = ph],
           cur' = IF ph = "gone" THEN 0 ELSE cur,
           UNCHANGED <<start, entry, status, stopCalls, owed, acts, charged>>
    PROVE  SInv'
<1>1. /\ residents' \in [1 .. NR -> ResidentRows]
      /\ \A q \in 1 .. NR :
            /\ residents'[q].aborted = residents[q].aborted
            /\ residents'[q].stopping = residents[q].stopping
            /\ residents'[q].ph = IF q = r THEN ph ELSE residents[q].ph
  BY DEF SInv, StartsTyped, ResidentRows
<1>2. cur = r
  BY DEF SInv, OneResident
<1>3. StartsTyped' /\ OneResident' /\ HaltedOwesStop'
  BY <1>1, <1>2, StartConstants DEF SInv, StartsTyped, OneResident, HaltedOwesStop, Halted
<1>4. EntryGoverns'
  <2>1. ASSUME NEW s \in 1 .. NS
        PROVE  start[s].ph \in {"native", "given"} => start[s].on \in 1 .. NR
    <3>1. start[s] \in StartRows
      BY DEF SInv, StartsTyped
    <3> QED
      BY <3>1, StartConstants DEF SInv, EntryGoverns, StartRows
  <2> QED
    BY <1>1, <2>1 DEF SInv, EntryGoverns
<1>5. ASSUME acts.barriers PROVE OneAct' /\ ChargedIsFenced'
  <2>1. \A q \in 1 .. NR : GivenUpOn(q)' = GivenUpOn(q)
    BY DEF GivenUpOn
  <2> QED
    BY <1>1, <1>2, <1>5, <2>1, StartConstants DEF SInv, OneAct, ChargedIsFenced, Halted, GivenUpOn
<1> QED
  BY <1>3, <1>4, <1>5 DEF SInv

LEMMA CreateStep == ASSUME SInv, NEW r \in 1 .. NR, Starting!Create(r) PROVE SInv'
  BY ResidentMoves DEF Starting!Create

LEMMA DiscardStep == ASSUME SInv, NEW r \in 1 .. NR, Starting!Discard(r) PROVE SInv'
  BY ResidentMoves DEF Starting!Discard

LEMMA EndOpenStep == ASSUME SInv, NEW r \in 1 .. NR, Starting!EndOpen(r) PROVE SInv'
<1>1. cur = r
  BY DEF SInv, OneResident, Starting!EndOpen
<1> QED
  BY <1>1, ResidentMoves DEF Starting!EndOpen, Starting!Forgets

\* A stop of the resident the map holds.
LEMMA StopStep ==
    ASSUME SInv, NEW r \in 1 .. NR, r = cur, residents' = Starting!Stopped(r),
           owed' \in BOOLEAN, owed' => acts.barriers,
           acts' \in [owner : Nat, faults : Nat, barriers : BOOLEAN],
           acts'.owner = acts.owner, acts'.barriers = acts.barriers,
           UNCHANGED <<start, entry, status, cur, charged>>
    PROVE  SInv'
<1>1. /\ residents' \in [1 .. NR -> ResidentRows]
      /\ \A q \in 1 .. NR : residents'[q].ph = residents[q].ph
      /\ \A q \in 1 .. NR \ {r} : residents'[q] = residents[q]
      /\ residents'[r].aborted /\ residents'[r].stopping
  BY StoppedRows DEF SInv
<1>2. StartsTyped' /\ OneResident' /\ HaltedOwesStop'
  BY <1>1, StartConstants DEF SInv, StartsTyped, OneResident, HaltedOwesStop, Halted
<1>3. EntryGoverns'
  <2>1. ASSUME NEW s \in 1 .. NS
        PROVE  start[s].ph \in {"native", "given"} => start[s].on \in 1 .. NR
    <3>1. start[s] \in StartRows
      BY DEF SInv, StartsTyped
    <3> QED
      BY <3>1, StartConstants DEF SInv, EntryGoverns, StartRows
  <2>2. residents[r].ph # "none"
    BY StartConstants DEF SInv, OneResident
  <2>3. \A q \in 1 .. NR : /\ residents[q].aborted => residents'[q].aborted
                           /\ residents'[q].stopping => residents'[q].aborted
                           /\ residents'[q].ph = "none" => ~residents'[q].aborted
    BY <1>1, <2>2 DEF SInv, EntryGoverns
  <2> QED
    BY <1>1, <2>1, <2>3 DEF SInv, EntryGoverns
<1>4. ASSUME acts.barriers PROVE OneAct' /\ ChargedIsFenced'
  <2>1. \A q \in 1 .. NR : GivenUpOn(q)' = GivenUpOn(q)
    BY DEF GivenUpOn
  <2> QED
    BY <1>1, <1>4, <2>1 DEF SInv, OneAct, ChargedIsFenced, Halted
<1> QED
  BY <1>2, <1>3, <1>4 DEF SInv

LEMMA HostRetiresStep == ASSUME SInv, NEW r \in 1 .. NR, Starting!HostRetires(r) PROVE SInv'
<1>1. r = cur /\ residents' = Starting!Stopped(r)
  BY DEF SInv, OneResident, Starting!HostRetires
<1>2. /\ acts' \in [owner : Nat, faults : Nat, barriers : BOOLEAN]
      /\ acts'.owner = acts.owner /\ acts'.barriers = acts.barriers
  BY DEF Starting!HostRetires, SInv, StartsTyped
<1>3. UNCHANGED <<start, entry, status, cur, charged, owed>>
  BY DEF Starting!HostRetires
<1>4. owed \in BOOLEAN /\ (owed => acts.barriers)
  BY DEF SInv, StartsTyped, HaltedOwesStop
<1> QED
  BY <1>1, <1>2, <1>3, <1>4, StopStep

LEMMA DeferredStopStep == ASSUME SInv, NEW kind, Starting!DeferredStop(kind) PROVE SInv'
<1>1. UNCHANGED <<status, owed, entry, start, cur, acts, charged>>
  BY DEF Starting!DeferredStop
<1>2. /\ owed \in BOOLEAN /\ (owed => acts.barriers)
      /\ acts \in [owner : Nat, faults : Nat, barriers : BOOLEAN]
  BY DEF SInv, StartsTyped, HaltedOwesStop
<1>3. CASE residents' = residents /\ (Starting!Moot(kind) \/ cur = 0)
  <2>1. ~Starting!Moot(kind) \/ ~Halted \/ acts.barriers
    BY <1>2 DEF Starting!Moot, Halted
  <2>2. HaltedOwesStop'
    BY <1>1, <1>3, <2>1 DEF SInv, HaltedOwesStop, Halted
  <2>3. StartsTyped' /\ OneResident' /\ EntryGoverns'
    BY <1>1, <1>3 DEF SInv, StartsTyped, OneResident, EntryGoverns
  <2>4. acts.barriers => OneAct' /\ ChargedIsFenced'
    BY <1>1, <1>3 DEF SInv, OneAct, ChargedIsFenced, GivenUpOn, Halted
  <2> QED
    BY <1>1, <2>2, <2>3, <2>4 DEF SInv
<1>4. CASE cur # 0 /\ residents' = Starting!Stopped(cur)
  <2>1. cur \in 1 .. NR
    BY <1>4, StartConstants DEF SInv, StartsTyped
  <2> QED
    BY <1>1, <1>2, <1>4, <2>1, StopStep
<1>5. \/ residents' = residents /\ (Starting!Moot(kind) \/ cur = 0)
      \/ cur # 0 /\ residents' = Starting!Stopped(cur)
  BY DEF Starting!DeferredStop, Starting!StopMember
<1> QED
  BY <1>3, <1>4, <1>5

LEMMA BarrierStep == ASSUME SInv, Starting!Barrier PROVE SInv'
<1>1. cur \in 1 .. NR /\ residents' = Starting!Stopped(cur)
  BY StartConstants DEF SInv, StartsTyped, Starting!Barrier, Starting!StopMember
<1>2. /\ acts' \in [owner : Nat, faults : Nat, barriers : BOOLEAN]
      /\ acts'.owner = acts.owner /\ acts'.barriers = acts.barriers
  <2>1. acts' = [acts EXCEPT !.faults = @ - 1] /\ acts.faults > 0
    BY Zenon DEF Starting!Barrier
  <2> QED
    BY <2>1 DEF SInv, StartsTyped
<1>3. UNCHANGED <<start, entry, status, cur, charged>> /\ owed' \in BOOLEAN /\ acts.barriers
  BY DEF Starting!Barrier
<1> QED
  BY <1>1, <1>2, <1>3, StopStep

\* Steps that touch no resident.
LEMMA OtherSteps ==
    ASSUME SInv, Starting!Launch \/ Starting!Resume \/ Starting!BarrierDone
    PROVE  SInv'
<1>1. /\ UNCHANGED <<start, entry, residents, cur, charged, stopCalls>>
      /\ acts' \in [owner : Nat, faults : Nat, barriers : BOOLEAN]
      /\ acts'.barriers = acts.barriers
      /\ owed' \in BOOLEAN /\ (owed' => owed)
      /\ (status' = status \/ status' = "active")
  <2>1. CASE Starting!Launch
    BY <2>1 DEF SInv, StartsTyped, Starting!Launch
  <2>2. CASE Starting!Resume
    BY <2>2 DEF SInv, StartsTyped, Starting!Resume
  <2>3. CASE Starting!BarrierDone
    <3>1. /\ UNCHANGED <<start, entry, residents, cur, charged, stopCalls, acts, status>> /\ ~owed'
          /\ owed' \in BOOLEAN
      BY <2>3 DEF Starting!BarrierDone
    <3> QED
      BY <3>1 DEF SInv, StartsTyped
  <2> QED
    BY <2>1, <2>2, <2>3
<1>2. StartsTyped' /\ OneResident' /\ EntryGoverns' /\ HaltedOwesStop'
  BY <1>1 DEF SInv, StartsTyped, OneResident, EntryGoverns, HaltedOwesStop, Halted
<1>3. ASSUME acts.barriers PROVE OneAct' /\ ChargedIsFenced'
  <2>1. acts' = acts /\ (Halted => UNCHANGED status)
    BY <1>3 DEF SInv, StartsTyped, OneAct, Halted, Starting!Launch, Starting!Resume, Starting!BarrierDone
  <2> QED
    BY <1>1, <1>3, <2>1 DEF SInv, StartsTyped, OneAct, ChargedIsFenced, GivenUpOn, Halted
<1> QED
  BY <1>1, <1>2, <1>3 DEF SInv

LEMMA RetryDueStep == ASSUME SInv, Starting!RetryDue PROVE SInv'
<1>1. entry \in 1 .. NS /\ start[entry].retry = "later"
  BY StartConstants DEF Starting!RetryDue, SInv, StartsTyped
<1>2. UNCHANGED <<entry, residents, cur, acts, status, stopCalls, owed, charged>>
  BY DEF Starting!RetryDue
<1>3. /\ start' \in [1 .. NS -> StartRows]
      /\ \A s \in 1 .. NS :
            /\ start'[s].ph = start[s].ph /\ start'[s].on = start[s].on
            /\ start'[s].aborted = start[s].aborted /\ start'[s].waits = start[s].waits
            /\ s # entry => start'[s] = start[s]
  BY <1>1 DEF Starting!RetryDue, SInv, StartsTyped, StartRows
<1>4. StartsTyped' /\ OneResident' /\ HaltedOwesStop'
  BY <1>2, <1>3 DEF SInv, StartsTyped, OneResident, HaltedOwesStop, Halted
<1>5. EntryGoverns'
  BY <1>1, <1>2, <1>3 DEF SInv, EntryGoverns
<1>6. ASSUME acts.barriers PROVE OneAct' /\ ChargedIsFenced'
  <2>1. \A q \in 1 .. NR : GivenUpOn(q)' <=> GivenUpOn(q)
    BY <1>1, <1>2, <1>3 DEF GivenUpOn
  <2>2. OneAct'
    BY <1>2, <1>6 DEF SInv, OneAct, Halted
  <2>3. cur # 0 => cur \in 1 .. NR
    BY StartConstants DEF SInv, StartsTyped
  <2> QED
    BY <1>2, <1>3, <1>6, <2>1, <2>2, <2>3 DEF SInv, ChargedIsFenced, Halted
<1> QED
  BY <1>2, <1>4, <1>5, <1>6 DEF SInv

LEMMA StartingInit == Starting!Init => SInv
<1> SUFFICES ASSUME Starting!Init PROVE SInv
  OBVIOUS
<1>1. /\ status \in {"staged", "active"} /\ owed = FALSE /\ entry = 0 /\ cur = 0
      /\ start = [s \in 1 .. NS |-> Starting!NoStart]
      /\ residents = [r \in 1 .. NR |-> Starting!NoRes]
      /\ charged = [r \in 1 .. NR |-> 0]
  BY Zenon DEF Starting!Init, Starting!Starts, Starting!Residents
<1>2. acts \in [owner : Nat, faults : Nat, barriers : BOOLEAN] /\ (acts.barriers => acts.owner = 1)
  <2> DEFINE fenced == [owner |-> 1, faults |-> MaxFaults, barriers |-> TRUE]
             free == [owner |-> MaxOwner, faults |-> MaxFaults, barriers |-> FALSE]
  <2>1. acts \in {fenced, free}
    BY Zenon DEF Starting!Init
  <2>2. fenced.owner = 1 /\ ~free.barriers
    BY Zenon
  <2>3. {fenced, free} \subseteq [owner : Nat, faults : Nat, barriers : BOOLEAN]
    BY WorkersBounds, Zenon DEF Starting!StartBounds
  <2> HIDE DEF fenced, free
  <2> QED
    BY <2>1, <2>2, <2>3
<1>3. Starting!NoStart \in StartRows /\ Starting!NoStart.ph = "none"
  <2>1. \A a, b, c \in BOOLEAN :
            LET row == [ph |-> "none", adm |-> a, aborted |-> b, retry |-> "none", on |-> 0, waits |-> c]
            IN  row \in StartRows /\ row.ph = "none"
    BY StartConstants DEF StartRows
  <2> QED
    BY <2>1, Zenon DEF Starting!NoStart
<1>4. Starting!NoRes \in ResidentRows /\ Starting!NoRes.ph = "none"
      /\ ~Starting!NoRes.aborted /\ ~Starting!NoRes.stopping
  <2>1. \A a, b \in BOOLEAN :
            LET row == [ph |-> "none", aborted |-> a, stopping |-> b]
            IN  row \in ResidentRows /\ row.ph = "none" /\ row.aborted = a /\ row.stopping = b
    BY DEF ResidentRows
  <2> QED
    BY <2>1, Zenon DEF Starting!NoRes
<1> DEFINE idle == Starting!NoStart
           unmade == Starting!NoRes
<1>5. /\ \A s \in 1 .. NS : start[s] = idle
      /\ \A r \in 1 .. NR : residents[r] = unmade /\ charged[r] = 0
      /\ start \in [1 .. NS -> StartRows] /\ residents \in [1 .. NR -> ResidentRows]
      /\ charged \in [1 .. NR -> Nat]
  BY <1>1, <1>3, <1>4
<1> HIDE DEF idle, unmade
<1>6. idle.ph = "none" /\ unmade.ph = "none" /\ ~unmade.aborted /\ ~unmade.stopping
  BY <1>3, <1>4 DEF idle, unmade
<1>7. StartsTyped /\ OneResident /\ EntryGoverns /\ HaltedOwesStop
  <2>0. /\ status \in {"staged", "active"} /\ owed \in BOOLEAN
        /\ entry \in (1 .. NS) \cup {0} /\ cur \in (1 .. NR) \cup {0}
    BY <1>1
  <2>1. StartsTyped
    BY <2>0, <1>2, <1>5, StartConstants DEF StartsTyped
  <2>2. OneResident /\ HaltedOwesStop
    BY <1>1, <1>5, <1>6 DEF OneResident, HaltedOwesStop, Halted
  <2>3. EntryGoverns
    BY <1>1, <1>5, <1>6 DEF EntryGoverns
  <2> QED
    BY <2>1, <2>2, <2>3
<1>8. acts.barriers => OneAct /\ ChargedIsFenced
  BY <1>1, <1>2, <1>5, <1>6 DEF OneAct, ChargedIsFenced, Halted
<1> QED
  BY <1>7, <1>8 DEF SInv

LEMMA StartingStep == SInv /\ Starting!Next => SInv'
<1> SUFFICES ASSUME SInv, Starting!Next PROVE SInv'
  OBVIOUS
<1>1. CASE Starting!StartWorker
  BY <1>1, StartWorkerStep
<1>2. CASE Starting!Admission
  BY <1>2, AdmissionStep
<1>3. CASE Starting!Launch \/ Starting!Resume \/ Starting!BarrierDone
  BY <1>3, OtherSteps
<1>4. CASE Starting!RetryDue
  BY <1>4, RetryDueStep
<1>5. CASE Starting!Barrier
  BY <1>5, BarrierStep
<1>6. ASSUME NEW s \in 1 .. NS, Starting!StartStep(s) \/ Starting!Timeout(s) PROVE SInv'
  BY <1>6, RefuseStep, OpenNewStep, WaitForStopStep, AdoptOpenStep, AdapterRefusesStep,
     GivenUpWaiterStep, TimeoutStep, Zenon DEF Starting!StartStep
<1>7. ASSUME NEW r \in 1 .. NR, Starting!ResidentStep(r) \/ Starting!HostRetires(r) PROVE SInv'
  BY <1>7, CreateStep, OpeningFailsStep, PublishStep, DiscardStep, DiscardedStep, EndOpenStep,
     HostRetiresStep, Zenon DEF Starting!ResidentStep
<1>8. ASSUME NEW next \in {"paused", "stopped"}, Starting!Control(next) PROVE SInv'
  BY <1>8, ControlStep, Zenon
<1>9. ASSUME NEW kind \in stopCalls, Starting!DeferredStop(kind) PROVE SInv'
  BY <1>9, DeferredStopStep, Zenon
<1> QED
  BY <1>1, <1>2, <1>3, <1>4, <1>5, <1>6, <1>7, <1>8, <1>9, Zenon
     DEF Starting!Next, Starting!Worker, Starting!Starts, Starting!Residents

\* The starts of a member keep to their invariant, whatever the bounds.
THEOREM StartsInvariant == WorkersSpec => []SInv
<1>1. WorkersInit => SInv
  BY StartingInit DEF WorkersInit
<1>2. SInv /\ [WorkersNext]_<<part, vars, inboxVars, startVars>> => SInv'
  <2> SUFFICES ASSUME SInv, [WorkersNext]_<<part, vars, inboxVars, startVars>> PROVE SInv'
    OBVIOUS
  <2>1. CASE Starting!Next
    BY <2>1, StartingStep
  <2>2. CASE UNCHANGED startVars
    BY <2>2 DEF startVars, SInv, StartsTyped, OneResident, EntryGoverns, HaltedOwesStop, Halted,
                OneAct, ChargedIsFenced, GivenUpOn
  <2> QED
    BY <2>1, <2>2, Zenon DEF WorkersNext
<1> QED
  BY <1>1, <1>2, PTL DEF WorkersSpec

\* A session never has two native handles, whatever start timed out, failed or was given up
\* while the next was made; with one act of the owner an opening costs its member one
\* failure at most, however many starts met it; and where no attempt is fenced, a mission
\* that was paused or stopped and is quiet has no handle left (startHandle, finishStart,
\* quiesce).
THEOREM OneNativeHandle == WorkersSpec => []OneHandle
<1>1. SInv => OneHandle
  <2> SUFFICES ASSUME SInv PROVE OneHandle
    OBVIOUS
  <2>1. Starting!OneHandle
    BY DEF SInv, OneResident, Starting!OneHandle, Starting!Residents, Starting!Live
  <2>3. acts.barriers => Starting!OpeningChargedOnce
    BY DEF SInv, ChargedIsFenced, Starting!OpeningChargedOnce, Starting!Residents
  <2>4. ~acts.barriers => Starting!QuietWhenInactive
    <3> SUFFICES ASSUME ~acts.barriers, Halted, Starting!Quiet, NEW r \in 1 .. NR
                 PROVE  ~Starting!Live(r)
      BY DEF Starting!QuietWhenInactive, Starting!Residents, Halted
    <3>1. cur = 0
      BY DEF SInv, HaltedOwesStop, Starting!Quiet
    <3> QED
      BY <3>1, StartConstants DEF SInv, OneResident, Starting!Live
  <2> QED
    BY <2>1, <2>3, <2>4 DEF OneHandle
<1> QED
  BY <1>1, StartsInvariant, PTL
=============================================================================
