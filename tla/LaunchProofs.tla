---------------------------- MODULE LaunchProofs -----------------------------
(***************************************************************************)
(* What starts a mission and what suspends it, for any team, pool, plans,  *)
(* launches and bounds: ActiveIsThePlan of a draft, FailureIsTold of an    *)
(* automatic request, and PreservedByCurrentPause, ResumedAfterQuiet,      *)
(* QuiescedOnce and StopIsFinal of the budget gate.                        *)
(***************************************************************************)
EXTENDS MCLaunches, FiniteSetTheorems, TLAPS

(***************************************************************************)
(* The budget gate.  That a preserved attempt is handed on only after      *)
(* quiet needs the path from the pause to the recorded quiescence: a       *)
(* handle that was active when the pause began is stopping until it is     *)
(* down; every stop in flight for the current pause still waits for each   *)
(* of those handles; and a new pause takes an id no stop in flight can     *)
(* hold, which in turn needs the ids in use to be an initial segment.      *)
(***************************************************************************)

Batches == [id : Pauses, todo : SUBSET Members, first : BOOLEAN]

\* The types of what a pause is about, and of the rest.
PauseTyped ==
    /\ status \in {"active", "paused", "blocked", "stopped"}
    /\ pause \in [id : 0..MaxPauses, quiesced : BOOLEAN, claim : {"none", "fresh", "aged"}]
    /\ work \in [Members -> {"pending", "running", "fenced", "done"}]
    /\ by \in [Members -> 0..MaxPauses]
    /\ handle \in [Members -> {"down", "up", "turn", "stopping"}]
    /\ stale \subseteq Members
    /\ stops \subseteq Batches
    /\ told \in [Pauses -> Nat \cup {-1}]

PoolTyped ==
    /\ req \subseteq {m \in Members : handle[m] \in {"turn", "stopping"}}
    /\ owed \subseteq Members
    /\ used \in Nat /\ limit \in 1..MaxLimit
    /\ userPaused \in BOOLEAN

\* The ids taken so far are the first ones, and stops and the mission row name those only.
IdsTaken ==
    /\ \E k \in 0..MaxPauses : \A p \in Pauses : told[p] >= 0 <=> p <= k
    /\ \A b \in stops : told[b.id] >= 0
    /\ pause.id # 0 => told[pause.id] >= 0

\* A pause that waits for its quiescence has not been told of it.
UntoldWhileAwaited == pause.id # 0 /\ ~pause.quiesced => told[pause.id] = 0

\* Activity older than the pause: its handle is stopping, every stop of the pause waits for
\* it, and none is left once the pause is quiesced.
StaleStopping == \A m \in stale : handle[m] = "stopping"

StopsCoverStale == \A b \in stops : b.id = pause.id => stale \subseteq b.todo

QuietWhenQuiesced == pause.id # 0 /\ pause.quiesced => stale = {}

BInv ==
    /\ PauseTyped
    /\ PreservedByCurrentPause
    /\ IdsTaken
    /\ UntoldWhileAwaited
    /\ StaleStopping
    /\ StopsCoverStale
    /\ QuietWhenQuiesced
    /\ QuiescedOnce

pauseVars == <<status, pause, work, by, handle, stops, stale, told>>
-----------------------------------------------------------------------------
LEMMA PausesType == MaxPauses \in Nat /\ Pauses \subseteq Nat /\ 0 \notin Pauses
  BY BudgetBounds DEF Pauses

LEMMA BInvInit == Init => BInv
<1> SUFFICES ASSUME Init PROVE BInv
  OBVIOUS
<1>1. PauseTyped
  BY PausesType DEF Init, NoPause, PauseTyped
<1>2. IdsTaken
  <2>1. 0 \in 0..MaxPauses /\ \A p \in Pauses : told[p] >= 0 <=> p <= 0
    BY PausesType DEF Init, Pauses
  <2> QED
    BY <2>1 DEF Init, IdsTaken, NoPause
<1> QED
  BY <1>1, <1>2 DEF Init, NoPause, BInv, PreservedByCurrentPause, UntoldWhileAwaited,
     StaleStopping, StopsCoverStale, QuietWhenQuiesced, QuiescedOnce

\* The next pause's id is the first one not taken.
LEMMA FreshPause ==
    ASSUME BInv, NextPause <= MaxPauses
    PROVE  /\ NextPause \in Pauses /\ told[NextPause] = -1
           /\ \A p \in Pauses : told[p] >= 0 <=> p < NextPause
<1>1. PICK k \in 0..MaxPauses : \A p \in Pauses : told[p] >= 0 <=> p <= k
  BY DEF BInv, IdsTaken
<1>2. {p \in Pauses : told[p] >= 0} = 1..k
  BY <1>1, PausesType DEF Pauses
<1>3. Cardinality(1..k) = k
  BY <1>1, FS_Interval, PausesType
<1>4. NextPause = k + 1
  BY <1>2, <1>3 DEF NextPause
<1>5. NextPause \in Pauses
  BY <1>1, <1>4, PausesType DEF Pauses
<1>6. ~(told[NextPause] >= 0) /\ told[NextPause] \in Nat \cup {-1}
  BY <1>1, <1>4, <1>5, PausesType DEF BInv, PauseTyped
<1>7. \A p \in Pauses : told[p] >= 0 <=> p < NextPause
  BY <1>1, <1>4, PausesType
<1> QED
  BY <1>5, <1>6, <1>7

\* Exhaustion begins a pause: every open attempt is marked with it, and its stop waits for
\* every handle that is not down.
LEMMA BlockBudgetStep ==
    ASSUME BInv, Blockable, BlockBudget, UNCHANGED work
    PROVE  BInv'
<1> DEFINE p == NextPause
<1>1. /\ p \in Pauses /\ told[p] = -1
      /\ \A q \in Pauses : told[q] >= 0 <=> q < p
  BY FreshPause DEF Blockable
<1>2. /\ pause' = [id |-> p, quiesced |-> FALSE, claim |-> "fresh"]
      /\ by' = [m \in Members |-> Marked(m, p)]
      /\ stops' = stops \cup {StopBatch(p)}
      /\ handle' = Stopping
      /\ stale' = {m \in Members : handle[m] # "down"}
      /\ told' = [told EXCEPT ![p] = 0]
  BY DEF BlockBudget
<1> HIDE DEF p
<1>3. StopBatch(p) \in Batches /\ StopBatch(p).todo = stale' /\ StopBatch(p).id = p
  BY <1>1, <1>2 DEF StopBatch, Batches
<1>4. PauseTyped'
  <2>1. by' \in [Members -> 0..MaxPauses]
    BY <1>1, <1>2, PausesType DEF Marked, Pauses
  <2>2. told' \in [Pauses -> Nat \cup {-1}]
    BY <1>2 DEF BInv, PauseTyped
  <2>3. handle' \in [Members -> {"down", "up", "turn", "stopping"}]
    BY <1>2 DEF Stopping
  <2>4. pause' \in [id : 0..MaxPauses, quiesced : BOOLEAN, claim : {"none", "fresh", "aged"}]
    BY <1>1, <1>2, PausesType DEF Pauses
  <2> QED
    BY <1>2, <1>3, <2>1, <2>2, <2>3, <2>4 DEF BInv, PauseTyped, BlockBudget
<1>5. PreservedByCurrentPause'
  BY <1>1, <1>2 DEF PreservedByCurrentPause, Marked, Open
<1>6. IdsTaken'
  <2>1. \A q \in Pauses : told'[q] = IF q = p THEN 0 ELSE told[q]
    BY <1>2 DEF BInv, PauseTyped
  <2>2. \A q \in Pauses : told'[q] >= 0 <=> q <= p
    BY <1>1, <2>1, PausesType
  <2>3. p \in 0..MaxPauses
    BY <1>1, PausesType DEF Pauses
  <2>4. \A b \in stops' : told'[b.id] >= 0
    BY <1>1, <1>2, <1>3, <2>1 DEF BInv, PauseTyped, Batches, IdsTaken
  <2>5. told'[pause'.id] >= 0
    BY <1>1, <1>2, <2>1
  <2> QED
    BY <2>2, <2>3, <2>4, <2>5 DEF IdsTaken
<1>7. UntoldWhileAwaited' /\ QuietWhenQuiesced'
  BY <1>1, <1>2 DEF UntoldWhileAwaited, QuietWhenQuiesced, BInv, PauseTyped
<1>8. StaleStopping'
  BY <1>2 DEF StaleStopping, Stopping
<1>9. StopsCoverStale'
  <2>1. \A b \in stops : b.id # p
    BY <1>1 DEF BInv, IdsTaken
  <2> QED
    BY <1>2, <1>3, <2>1 DEF StopsCoverStale
<1>10. QuiescedOnce'
  BY <1>1, <1>2 DEF BInv, PauseTyped, QuiescedOnce
<1> QED
  BY <1>4, <1>5, <1>6, <1>7, <1>8, <1>9, <1>10 DEF BInv

LEMMA SpendStep ==
    ASSUME BInv, Spend(1), UNCHANGED work
    PROVE  BInv'
<1>1. CASE Blockable /\ BlockBudget
  BY <1>1, BlockBudgetStep
<1>2. CASE Unblocked
  BY <1>2 DEF Unblocked, BInv, PauseTyped, PreservedByCurrentPause, Open, IdsTaken,
     UntoldWhileAwaited, StaleStopping, StopsCoverStale, QuietWhenQuiesced, QuiescedOnce
<1> QED
  BY <1>1, <1>2 DEF Spend

\* What a step that leaves the pause, its stops and its history alone has to show.
LEMMA SamePause ==
    ASSUME BInv, UNCHANGED <<pause, stops, stale, told>>, PauseTyped',
           PreservedByCurrentPause', \A m \in stale : handle'[m] = handle[m]
    PROVE  BInv'
  BY DEF BInv, IdsTaken, UntoldWhileAwaited, StaleStopping, StopsCoverStale, QuietWhenQuiesced,
     QuiescedOnce

\* A handle that turns, up or down, is not a stopping one.
LEMMA HandleStep ==
    ASSUME BInv, NEW m \in Members, NEW h \in {"down", "up", "turn", "stopping"},
           handle' = [handle EXCEPT ![m] = h], handle[m] # "stopping"
    PROVE  /\ handle' \in [Members -> {"down", "up", "turn", "stopping"}]
           /\ \A k \in stale : handle'[k] = handle[k]
  BY DEF BInv, PauseTyped, StaleStopping

LEMMA DispatchStep == ASSUME BInv, NEW m \in Members, Dispatch(m) PROVE BInv'
<1>1. /\ handle' \in [Members -> {"down", "up", "turn", "stopping"}]
      /\ \A k \in stale : handle'[k] = handle[k]
  BY HandleStep DEF Dispatch
<1>2. PauseTyped'
  BY <1>1 DEF Dispatch, BInv, PauseTyped
<1>3. PreservedByCurrentPause'
  BY DEF Dispatch, BInv, PauseTyped, PreservedByCurrentPause, Open
<1> QED
  BY <1>1, <1>2, <1>3, SamePause DEF Dispatch

LEMMA RefusedStep == ASSUME BInv, NEW m \in Members, StepRefused(m) PROVE BInv'
<1>1. /\ handle' \in [Members -> {"down", "up", "turn", "stopping"}]
      /\ \A k \in stale : handle'[k] = handle[k]
  BY HandleStep DEF StepRefused
<1>2. PauseTyped' /\ PreservedByCurrentPause'
  BY <1>1 DEF StepRefused, BInv, PauseTyped, PreservedByCurrentPause, Open
<1> QED
  BY <1>1, <1>2, SamePause DEF StepRefused

\* A submission is admitted only outside a pause, where nothing is preserved.
LEMMA SubmitStep == ASSUME BInv, NEW m \in Members, Submit(m) PROVE BInv'
<1>1. /\ handle' \in [Members -> {"down", "up", "turn", "stopping"}]
      /\ \A k \in stale : handle'[k] = handle[k]
  BY HandleStep DEF Submit
<1>2. PauseTyped'
  BY <1>1 DEF Submit, BInv, PauseTyped
<1>3. PreservedByCurrentPause'
  BY DEF Submit, Admits, BInv, PauseTyped, PreservedByCurrentPause, Open
<1> QED
  BY <1>1, <1>2, <1>3, SamePause DEF Submit

\* A handle that went down leaves the stops that wait for it, and is no longer stale; a
\* rejected stop takes the batches that waited for it along.
LEMMA DownStep ==
    ASSUME BInv, NEW m \in Members, HandleDown(m) \/ StopRejects(m)
    PROVE  BInv'
<1>1. /\ handle' = [handle EXCEPT ![m] = "down"] /\ stale' = stale \ {m}
      /\ stops' = Settled(m) \/ stops' = {b \in stops : m \notin b.todo}
      /\ UNCHANGED <<status, pause, work, by, told>>
  BY DEF HandleDown, StopRejects
<1>2. \A b \in stops' : /\ b \in Batches
                        /\ \E a \in stops : a.id = b.id /\ a.todo \ {m} \subseteq b.todo
  <2>1. CASE stops' = Settled(m)
    <3> SUFFICES ASSUME NEW a \in stops
                 PROVE  LET b == [a EXCEPT !.todo = @ \ {m}]
                        IN  b \in Batches /\ a.id = b.id /\ a.todo \ {m} \subseteq b.todo
      BY <2>1 DEF Settled
    <3>1. a \in Batches
      BY DEF BInv, PauseTyped
    <3> QED
      BY <3>1 DEF Batches
  <2>2. CASE stops' = {b \in stops : m \notin b.todo}
    BY <2>2 DEF BInv, PauseTyped
  <2> QED
    BY <1>1, <2>1, <2>2
<1>3. PauseTyped'
  BY <1>1, <1>2 DEF BInv, PauseTyped
<1>4. PreservedByCurrentPause' /\ UntoldWhileAwaited' /\ QuietWhenQuiesced' /\ QuiescedOnce'
  BY <1>1 DEF BInv, PreservedByCurrentPause, Open, UntoldWhileAwaited, QuietWhenQuiesced, QuiescedOnce
<1>5. IdsTaken'
  BY <1>1, <1>2 DEF BInv, IdsTaken
<1>6. StaleStopping'
  BY <1>1 DEF BInv, PauseTyped, StaleStopping
<1>7. StopsCoverStale'
  BY <1>1, <1>2 DEF BInv, StopsCoverStale
<1> QED
  BY <1>3, <1>4, <1>5, <1>6, <1>7 DEF BInv

\* A stop whose handles are all down is recorded for the pause it was issued for.
LEMMA QuiescedStep == ASSUME BInv, NEW b \in stops, Quiesced(b) PROVE BInv'
<1>0. b \in Batches /\ b.todo = {} /\ told[b.id] >= 0 /\ b.id \in Pauses /\ b.id # 0
  BY PausesType DEF Quiesced, Confirmed, BInv, PauseTyped, Batches, IdsTaken
<1>1. /\ stops' = stops \ {b}
      /\ UNCHANGED <<status, work, by, handle, stale>>
  BY DEF Quiesced
<1>2. CASE Awaited(b)
  <2>1. /\ pause' = [pause EXCEPT !.quiesced = TRUE, !.claim = "none"]
        /\ told' = [told EXCEPT ![b.id] = @ + 1]
        /\ pause.id = b.id /\ ~pause.quiesced
    BY <1>2 DEF Quiesced, Awaited
  <2>2. told[b.id] = 0 /\ stale = {}
    BY <1>0, <2>1 DEF BInv, UntoldWhileAwaited, StopsCoverStale
  <2>3. /\ \A p \in Pauses : told'[p] = IF p = b.id THEN 1 ELSE told[p]
        /\ told' \in [Pauses -> Nat \cup {-1}]
    BY <1>0, <2>1, <2>2 DEF BInv, PauseTyped
  <2>4. /\ pause'.id = pause.id /\ pause'.quiesced
        /\ pause' \in [id : 0..MaxPauses, quiesced : BOOLEAN, claim : {"none", "fresh", "aged"}]
    BY <2>1 DEF BInv, PauseTyped
  <2>5. PauseTyped'
    BY <1>1, <2>3, <2>4 DEF BInv, PauseTyped
  <2>6. IdsTaken'
    <3>1. PICK k \in 0..MaxPauses : \A p \in Pauses : told[p] >= 0 <=> p <= k
      BY DEF BInv, IdsTaken
    <3>2. \A p \in Pauses : told'[p] >= 0 <=> p <= k
      BY <1>0, <2>3, <3>1
    <3>3. \A a \in stops' : told'[a.id] >= 0
      BY <1>1, <2>3 DEF BInv, PauseTyped, Batches, IdsTaken
    <3>4. told'[pause'.id] >= 0
      BY <1>0, <2>1, <2>3, <2>4
    <3> QED
      BY <3>2, <3>3, <3>4 DEF IdsTaken
  <2>7. PreservedByCurrentPause' /\ UntoldWhileAwaited' /\ QuietWhenQuiesced'
    BY <1>1, <2>2, <2>4 DEF BInv, PreservedByCurrentPause, Open, UntoldWhileAwaited, QuietWhenQuiesced
  <2>8. StaleStopping' /\ StopsCoverStale'
    BY <1>1, <2>2 DEF StaleStopping, StopsCoverStale
  <2>9. QuiescedOnce'
    BY <2>3 DEF BInv, QuiescedOnce
  <2> QED
    BY <2>5, <2>6, <2>7, <2>8, <2>9 DEF BInv
<1>3. CASE ~Awaited(b)
  <2>1. UNCHANGED <<pause, told>>
    BY <1>3 DEF Quiesced
  <2> QED
    BY <1>1, <2>1 DEF BInv, PauseTyped, PreservedByCurrentPause, Open, IdsTaken,
       UntoldWhileAwaited, StaleStopping, StopsCoverStale, QuietWhenQuiesced, QuiescedOnce
<1> QED
  BY <1>2, <1>3

LEMMA ClaimAgesStep == ASSUME BInv, ClaimAges PROVE BInv'
<1>1. /\ pause'.id = pause.id /\ pause'.quiesced = pause.quiesced
      /\ pause' \in [id : 0..MaxPauses, quiesced : BOOLEAN, claim : {"none", "fresh", "aged"}]
      /\ UNCHANGED <<status, work, by, handle, stops, stale, told>>
  BY DEF ClaimAges, BInv, PauseTyped
<1> QED
  BY <1>1 DEF BInv, PauseTyped, PreservedByCurrentPause, Open, IdsTaken, UntoldWhileAwaited,
     StaleStopping, StopsCoverStale, QuietWhenQuiesced, QuiescedOnce

\* A stop claimed again waits for every handle that is still up, the stale ones included.
LEMMA BeginStopAgainStep == ASSUME BInv, BeginStopAgain PROVE BInv'
<1> DEFINE b == StopBatch(pause.id)
<1>1. /\ pause.id # 0 /\ pause.id \in Pauses /\ pause.id \in 0..MaxPauses /\ ~pause.quiesced
      /\ pause' = [pause EXCEPT !.claim = "fresh"]
      /\ stops' = stops \cup {b} /\ handle' = Stopping
      /\ UNCHANGED <<status, work, by, stale, told>>
  BY PausesType DEF BeginStopAgain, BInv, PauseTyped, Pauses
<1>2. b \in Batches /\ b.id = pause.id /\ b.todo = {m \in Members : handle[m] # "down"}
  BY <1>1 DEF StopBatch, Batches
<1> HIDE DEF b
<1>3. /\ pause'.id = pause.id /\ pause'.quiesced = pause.quiesced
      /\ pause' \in [id : 0..MaxPauses, quiesced : BOOLEAN, claim : {"none", "fresh", "aged"}]
  BY <1>1 DEF BInv, PauseTyped
<1>4. PauseTyped'
  BY <1>1, <1>2, <1>3 DEF BInv, PauseTyped, Stopping
<1>5. PreservedByCurrentPause' /\ UntoldWhileAwaited' /\ QuietWhenQuiesced' /\ QuiescedOnce'
  BY <1>1, <1>3 DEF BInv, PreservedByCurrentPause, Open, UntoldWhileAwaited, QuietWhenQuiesced,
     QuiescedOnce
<1>6. IdsTaken'
  BY <1>1, <1>2, <1>3 DEF BInv, IdsTaken
<1>7. StaleStopping'
  BY <1>1 DEF BInv, PauseTyped, StaleStopping, Stopping
<1>8. StopsCoverStale'
  BY <1>1, <1>2, <1>3 DEF BInv, PauseTyped, StaleStopping, StopsCoverStale
<1> QED
  BY <1>4, <1>5, <1>6, <1>7, <1>8 DEF BInv

\* The resume deletes the pause with every mark it left.
LEMMA ResumeTasksStep == ASSUME BInv, ResumeTasks PROVE BInv'
<1>1. /\ pause' = NoPause /\ stale = {} /\ pause.id # 0
      /\ by' = [m \in Members |-> IF Preserved(m) THEN 0 ELSE by[m]]
      /\ handle' = [m \in Members |->
                      IF Preserved(m) /\ handle[m] \in {"down", "up"} THEN "turn" ELSE handle[m]]
      /\ UNCHANGED <<status, work, stops, stale, told>>
  BY DEF ResumeTasks, BInv, QuietWhenQuiesced
<1>2. PauseTyped'
  BY <1>1, PausesType DEF BInv, PauseTyped, NoPause
<1>3. PreservedByCurrentPause'
  BY <1>1 DEF BInv, PreservedByCurrentPause, Preserved
<1>4. IdsTaken' /\ UntoldWhileAwaited' /\ QuietWhenQuiesced' /\ QuiescedOnce'
  BY <1>1 DEF BInv, IdsTaken, UntoldWhileAwaited, QuietWhenQuiesced, QuiescedOnce, NoPause
<1>5. StaleStopping' /\ StopsCoverStale'
  BY <1>1 DEF StaleStopping, StopsCoverStale
<1> QED
  BY <1>2, <1>3, <1>4, <1>5 DEF BInv

\* An owner's pause and an owner's stop take the marks away with the attempts.
LEMMA PauseStep == ASSUME BInv, Pause PROVE BInv'
<1>1. /\ handle' = Stopping /\ by' = [m \in Members |-> 0] /\ status' = "paused"
      /\ work' = [m \in Members |-> IF Open(m) THEN "fenced" ELSE work[m]]
      /\ UNCHANGED <<pause, stops, stale, told>>
  BY DEF Pause, FencedBy
<1>2. PauseTyped'
  BY <1>1, PausesType DEF BInv, PauseTyped, Stopping
<1>3. PreservedByCurrentPause'
  BY <1>1 DEF PreservedByCurrentPause
<1>4. \A m \in stale : handle'[m] = handle[m]
  BY <1>1 DEF BInv, PauseTyped, StaleStopping, Stopping
<1> QED
  BY <1>1, <1>2, <1>3, <1>4, SamePause

LEMMA StopStep == ASSUME BInv, Stop PROVE BInv'
<1>1. /\ handle' = Stopping /\ by' = [m \in Members |-> 0] /\ status' = "stopped"
      /\ pause' = NoPause
      /\ work' = [m \in Members |-> IF work[m] = "done" THEN "done" ELSE "fenced"]
      /\ UNCHANGED <<stops, stale, told>>
  BY DEF Stop, FencedBy
<1>2. PauseTyped'
  BY <1>1, PausesType DEF BInv, PauseTyped, Stopping, NoPause
<1>3. PreservedByCurrentPause'
  BY <1>1 DEF PreservedByCurrentPause
<1>4. IdsTaken' /\ UntoldWhileAwaited' /\ QuietWhenQuiesced' /\ QuiescedOnce'
  BY <1>1 DEF BInv, IdsTaken, UntoldWhileAwaited, QuietWhenQuiesced, QuiescedOnce, NoPause
<1>5. StaleStopping'
  BY <1>1 DEF BInv, PauseTyped, StaleStopping, Stopping
<1>6. StopsCoverStale'
  <2>1. \A b \in stops : b.id # 0
    BY PausesType DEF BInv, PauseTyped, Batches
  <2> QED
    BY <1>1, <2>1 DEF StopsCoverStale, NoPause
<1> QED
  BY <1>2, <1>3, <1>4, <1>5, <1>6 DEF BInv

\* The owner's extension and resume change the status only.
LEMMA StatusStep == ASSUME BInv, UpdateBudget \/ Resume PROVE BInv'
<1>1. /\ UNCHANGED <<pause, work, by, handle, stops, stale, told>>
      /\ status' \in {"active", "paused", "blocked", "stopped"}
  BY DEF UpdateBudget, Resume, BInv, PauseTyped
<1>2. PauseTyped' /\ PreservedByCurrentPause'
  BY <1>1 DEF BInv, PauseTyped, PreservedByCurrentPause, Open
<1> QED
  BY <1>1, <1>2, SamePause

LEMMA BarrierStep == ASSUME BInv, NEW m \in Members, BarrierDone(m) PROVE BInv'
<1>1. PauseTyped' /\ PreservedByCurrentPause'
  BY DEF BarrierDone, BInv, PauseTyped, PreservedByCurrentPause, Open
<1> QED
  BY <1>1, SamePause DEF BarrierDone

LEMMA RestartStep == ASSUME BInv, Restart PROVE BInv'
<1>1. /\ handle' = [m \in Members |-> "down"] /\ stops' = {} /\ stale' = {}
      /\ by' = [m \in Members |-> 0]
      /\ work' = [m \in Members |-> IF Open(m) THEN "pending" ELSE work[m]]
      /\ UNCHANGED <<status, told>>
  BY DEF Restart
<1>2. /\ pause'.id = pause.id /\ (pause.id # 0 => pause'.quiesced)
      /\ pause' \in [id : 0..MaxPauses, quiesced : BOOLEAN, claim : {"none", "fresh", "aged"}]
  BY DEF Restart, BInv, PauseTyped
<1>3. PauseTyped'
  BY <1>1, <1>2, PausesType DEF BInv, PauseTyped
<1>4. IdsTaken'
  BY <1>1, <1>2 DEF BInv, IdsTaken
<1> QED
  BY <1>1, <1>2, <1>3, <1>4 DEF BInv, PreservedByCurrentPause, UntoldWhileAwaited, StaleStopping,
     StopsCoverStale, QuietWhenQuiesced, QuiescedOnce

LEMMA SameStep == ASSUME BInv, UNCHANGED pauseVars PROVE BInv'
  BY DEF pauseVars, BInv, PauseTyped, PreservedByCurrentPause, Open, IdsTaken, UntoldWhileAwaited,
     StaleStopping, StopsCoverStale, QuietWhenQuiesced, QuiescedOnce

LEMMA BInvStep == BInv /\ [Next]_vars => BInv'
<1> SUFFICES ASSUME BInv, [Next]_vars PROVE BInv'
  OBVIOUS
<1>1. ASSUME NEW m \in Members, Dispatch(m) \/ StepRefused(m) \/ Submit(m) \/ BarrierDone(m)
      PROVE  BInv'
  BY <1>1, DispatchStep, RefusedStep, SubmitStep, BarrierStep
<1>2. ASSUME NEW m \in Members, Reconcile(m) \/ Settle(m) PROVE BInv'
  BY <1>2, SpendStep DEF Reconcile, Settle
<1>3. ASSUME NEW m \in Members, StepBlocks(m) PROVE BInv'
  BY <1>3, BlockBudgetStep DEF StepBlocks
<1>4. ASSUME NEW m \in Members, StepGranted(m) PROVE BInv'
  BY <1>4, SameStep DEF StepGranted, pauseVars
<1>5. ASSUME NEW m \in Members, HandleDown(m) \/ StopRejects(m) PROVE BInv'
  BY <1>5, DownStep
<1>6. ASSUME NEW b \in stops, Quiesced(b) PROVE BInv'
  BY <1>6, QuiescedStep
<1>7. CASE Schedule
  BY <1>7, BeginStopAgainStep, ResumeTasksStep, BlockBudgetStep DEF Schedule, ScheduleBlocks
<1>8. CASE Owner
  BY <1>8, StatusStep, PauseStep, StopStep DEF Owner
<1>9. CASE ClaimAges \/ Restart
  BY <1>9, ClaimAgesStep, RestartStep
<1>10. CASE UNCHANGED vars
  BY <1>10, SameStep DEF vars, pauseVars
<1> QED
  BY <1>1, <1>2, <1>3, <1>4, <1>5, <1>6, <1>7, <1>8, <1>9, <1>10 DEF Next, Worker
-----------------------------------------------------------------------------
\* A preserved attempt that goes on is handed on by the resume of a quiesced pause.
LEMMA OnlyResumeHandsOn ==
    ASSUME BInv, [Next]_vars, NEW m \in Members, by[m] # 0, by'[m] = 0, work'[m] = "running"
    PROVE  ResumeTasks
<1>1. Open(m) /\ pause.id # 0
  BY DEF BInv, PreservedByCurrentPause
<1>2. ASSUME Blockable, BlockBudget PROVE FALSE
  BY <1>1, <1>2, FreshPause, PausesType DEF Blockable, BlockBudget, Marked
<1>3. ASSUME UNCHANGED by PROVE FALSE
  BY <1>3
<1>4. ASSUME Spend(1) PROVE FALSE
  BY <1>2, <1>3, <1>4 DEF Spend, Unblocked
<1>5. ASSUME Pause \/ Stop \/ Restart PROVE FALSE
  BY <1>1, <1>5 DEF Pause, Stop, Restart, Open
<1>6. ASSUME NEW k \in Members, Worker(k) PROVE FALSE
  BY <1>2, <1>3, <1>4, <1>6 DEF Worker, Dispatch, Reconcile, StepRefused, StepGranted, StepBlocks,
     Settle, Submit, BarrierDone
<1>7. ASSUME NEW k \in Members, HandleDown(k) \/ StopRejects(k) PROVE FALSE
  BY <1>3, <1>7 DEF HandleDown, StopRejects
<1>8. ASSUME NEW b \in stops, Quiesced(b) PROVE FALSE
  BY <1>3, <1>8 DEF Quiesced
<1>9. ASSUME UpdateBudget \/ Resume \/ ClaimAges \/ BeginStopAgain PROVE FALSE
  BY <1>3, <1>9 DEF UpdateBudget, Resume, ClaimAges, BeginStopAgain
<1>10. ASSUME ScheduleBlocks PROVE FALSE
  BY <1>2, <1>10 DEF ScheduleBlocks
<1> QED
  BY <1>3, <1>5, <1>6, <1>7, <1>8, <1>9, <1>10 DEF Next, Schedule, Owner, vars

\* No step takes a stopped mission anywhere else.
LEMMA StoppedStays == ASSUME [Next]_vars, status = "stopped" PROVE status' = "stopped"
<1>1. ~Blockable
  BY DEF Blockable, Terminal
<1>2. ASSUME Spend(1) PROVE UNCHANGED status
  BY <1>1, <1>2 DEF Spend, Unblocked
<1>3. ASSUME NEW m \in Members, Worker(m) PROVE UNCHANGED status
  BY <1>1, <1>2, <1>3 DEF Worker, Dispatch, Reconcile, StepRefused, StepGranted, StepBlocks,
     Settle, Submit, BarrierDone
<1>4. ASSUME NEW m \in Members, HandleDown(m) \/ StopRejects(m) PROVE UNCHANGED status
  BY <1>4 DEF HandleDown, StopRejects
<1>5. ASSUME NEW b \in stops, Quiesced(b) PROVE UNCHANGED status
  BY <1>5 DEF Quiesced
<1>6. ~(Schedule \/ Owner \/ Restart)
  BY DEF Schedule, BeginStopAgain, ResumeTasks, ScheduleBlocks, Owner, UpdateBudget, Pause, Resume,
     Stop, Restart, Terminal
<1> QED
  BY <1>3, <1>4, <1>5, <1>6 DEF Next, ClaimAges, vars
-----------------------------------------------------------------------------
\* The inductive invariant of the budget's pauses.
THEOREM PausesInvariant == Spec => []BInv
  BY BInvInit, BInvStep, PTL DEF Spec

\* An attempt a pause preserved names the pause the mission row holds, so the resume that
\* deletes the row misses none (blockBudget, resumeBudgetTasks).
THEOREM MarksNameTheirPause == Spec => []PreservedByCurrentPause
<1>1. BInv => PreservedByCurrentPause
  BY DEF BInv
<1> QED
  BY <1>1, PausesInvariant, PTL

\* A preserved attempt is handed on only once nothing its handle began before the pause
\* still runs (beginBudgetStop, resumeBudgetTasks).
THEOREM HandedOnAfterQuiet == Spec => ResumedAfterQuiet
<1>1. ASSUME BInv, [Next]_vars
      PROVE  [\A m \in Members : by[m] # 0 /\ by'[m] = 0 /\ work'[m] = "running"
                                    => m \notin stale]_vars
  BY <1>1, OnlyResumeHandsOn DEF ResumeTasks, BInv, QuietWhenQuiesced
<1> QED
  BY <1>1, PausesInvariant, PTL DEF Spec, ResumedAfterQuiet

\* A pause is recorded as quiesced at most once, however many stops were claimed for it.
THEOREM QuiescenceToldOnce == Spec => []QuiescedOnce
<1>1. BInv => QuiescedOnce
  BY DEF BInv
<1> QED
  BY <1>1, PausesInvariant, PTL

\* Late usage does not bring a stopped mission back.
THEOREM StoppedIsFinal == Spec => StopIsFinal
<1>1. [Next]_vars => [status = "stopped" => status' = "stopped"]_vars
  BY StoppedStays
<1> QED
  BY <1>1, PTL DEF Spec, StopIsFinal

(***************************************************************************)
(* The launches of a draft.  One call holds the draft at a time, so what   *)
(* it repaired is still so when it activates: once the rows are repaired   *)
(* no task is left that the plan has not, none it has was withdrawn        *)
(* (TasksRepaired), and the member that works has its settings             *)
(* (MemberRepaired), though the mission may be stopped meanwhile.          *)
(***************************************************************************)

LaunchRows ==
    [pc : {"idle"}] \cup [pc : {"queued"}, revision : Nat]
    \cup [pc : {"checking", "repairing", "stopped", "invalidated", "adding", "starting", "assembling"},
          revision : Nat, copy : D!Drafts]

DraftTyped ==
    /\ draft \in D!Drafts
    /\ mission \in {"none", "staged", "active", "stopped"}
    /\ task \in [D!Keys -> {"absent", "pending", "cancelled"}]
    /\ member \in [phase : {"absent", "active", "stopped"}, set : Settings \cup {"none"}, session : Nat]
    /\ compose \in Nat /\ sessions \in Nat
    /\ launch \in [Launches -> LaunchRows]

\* One call at a time holds the draft, and none holds that of an active mission.
OneHolds == \A l, o \in Launches : D!Holding(l) /\ D!Holding(o) => l = o
ActiveQuiet == mission = "active" => \A l \in Launches : ~D!Holding(l)

\* Nothing is made of a mission that does not exist.
Unmade ==
    /\ mission = "none" =>
        /\ \A k \in D!Keys : task[k] = "absent"
        /\ member.phase = "absent"
        /\ \A l \in Launches : ~D!Assembling(l)
    /\ member.phase = "absent" => compose = 0

\* Once the rows are repaired the plan has every task that is left, and revives none.
TasksRepaired == \A l \in Launches :
    launch[l].pc \in {"adding", "starting", "assembling"} =>
        /\ \A k \in D!Keys : task[k] = "pending" => k \in D!Copy(l).input.tasks
        /\ \A k \in D!Copy(l).input.tasks : task[k] # "cancelled"

\* And the member that works has the plan's settings.
MemberRepaired == \A l \in Launches :
    /\ D!At(l, "invalidated") => compose = 0
    /\ D!At(l, "adding") /\ D!Wanted(l) # "none" /\ member.phase = "active" =>
        member.set = D!Wanted(l)
    /\ D!At(l, "starting") \/ D!At(l, "assembling") =>
        /\ D!Wanted(l) # "none" /\ member.phase # "absent" /\ member.set = D!Wanted(l)
        /\ mission = "staged" => member.phase = "active"

DraftInv ==
    /\ DraftTyped /\ OneHolds /\ ActiveQuiet /\ Unmade /\ TasksRepaired /\ MemberRepaired
    /\ D!ActiveIsThePlan /\ D!LaunchingIsAssembled /\ D!NoStaleComposition

LEMMA PlanKeys == \A p \in Plans : p \subseteq D!Keys
  BY DEF D!Keys

\* What each write of the row makes of it.
LEMMA RowWritten ==
    ASSUME NEW d \in D!Drafts, NEW i \in D!Inputs
    PROVE  /\ [d EXCEPT !.input = i, !.revision = @ + 1] \in D!Drafts
           /\ \A s \in {"discarded", "failed", "launched"} :
                [d EXCEPT !.status = s] \in D!Drafts
           /\ [d EXCEPT !.status = "discarded", !.revision = @ + 1] \in D!Drafts
           /\ [d EXCEPT !.status = "discarded", !.revision = @ + 1].status = "discarded"
           /\ [d EXCEPT !.status = "launched"].status = "launched"
           /\ [d EXCEPT !.status = "launched"].input = d.input
           /\ D!Launching(d) \in D!Drafts
           /\ D!Launching(d).status = "launching" /\ D!Launching(d).revision = d.revision + 1
           /\ D!Launching(d).input = d.input
           /\ D!Failed(d) \in D!Drafts /\ D!Failed(d).status = "failed"
           /\ D!Failed(d).input = d.input
<1> DEFINE St == {"draft", "launching", "launched", "failed", "discarded"}
<1> HIDE DEF St
<1>1. D!Drafts = [status : St, revision : Nat, input : D!Inputs, assembled : BOOLEAN]
  BY DEF D!Drafts, St
<1>2. d.revision + 1 \in Nat
  BY <1>1
<1>3. {"draft", "launching", "launched", "failed", "discarded"} \subseteq St
  BY DEF St
<1>4. [d EXCEPT !.input = i, !.revision = @ + 1] \in D!Drafts
  BY <1>1, <1>2
<1>5. \A s \in {"discarded", "failed", "launched"} : [d EXCEPT !.status = s] \in D!Drafts
  BY <1>1, <1>3
<1>6. [d EXCEPT !.status = "discarded", !.revision = @ + 1] \in D!Drafts
      /\ [d EXCEPT !.status = "discarded", !.revision = @ + 1].status = "discarded"
  BY <1>1, <1>2, <1>3
<1>a. [d EXCEPT !.status = "launched"].status = "launched"
      /\ [d EXCEPT !.status = "launched"].input = d.input
  BY <1>1, <1>3
<1>7. D!Launching(d) \in D!Drafts /\ D!Launching(d).status = "launching"
      /\ D!Launching(d).revision = d.revision + 1 /\ D!Launching(d).input = d.input
  BY <1>1, <1>2, <1>3 DEF D!Launching
<1>8. D!Failed(d) \in D!Drafts /\ D!Failed(d).status = "failed" /\ D!Failed(d).input = d.input
  BY <1>1, <1>3 DEF D!Failed
<1> QED
  BY <1>4, <1>5, <1>6, <1>a, <1>7, <1>8

LEMMA DraftInvInit == D!Init => DraftInv
<1> SUFFICES ASSUME D!Init PROVE DraftInv
  OBVIOUS
<1>1. DraftTyped
  BY DEF D!Init, DraftTyped, D!Drafts, D!Inputs, D!Idle, LaunchRows
<1>2. \A l \in Launches : launch[l].pc = "idle"
  BY DEF D!Init, D!Idle
<1>3. OneHolds /\ ActiveQuiet /\ TasksRepaired /\ MemberRepaired
  BY <1>2 DEF OneHolds, ActiveQuiet, TasksRepaired, MemberRepaired, D!Holding, D!At
<1>4. Unmade /\ D!ActiveIsThePlan /\ D!NoStaleComposition
  BY <1>2 DEF D!Init, Unmade, D!Assembling, D!ActiveIsThePlan, D!NoStaleComposition
<1>5. D!LaunchingIsAssembled
  BY DEF D!Init, D!LaunchingIsAssembled
<1> QED
  BY <1>1, <1>3, <1>4, <1>5 DEF DraftInv

\* The draft is the owner's to save or discard only while no call assembles it.
LEMMA EditedStep == ASSUME DraftInv, NEW i \in D!Inputs, D!UpdateDraft(i) PROVE DraftInv'
<1>1. draft' \in D!Drafts
  <2>1. draft \in D!Drafts /\ draft' = [draft EXCEPT !.input = i, !.revision = @ + 1]
    BY DEF D!UpdateDraft, DraftInv, DraftTyped
  <2> QED
    BY <2>1, RowWritten
<1>2. DraftTyped'
  BY <1>1 DEF D!UpdateDraft, DraftInv, DraftTyped
<1>3. OneHolds' /\ ActiveQuiet' /\ Unmade'
  BY DEF D!UpdateDraft, DraftInv, OneHolds, ActiveQuiet, Unmade, D!Holding, D!Assembling
<1>4. TasksRepaired' /\ MemberRepaired'
  BY DEF D!UpdateDraft, DraftInv, TasksRepaired, MemberRepaired, D!At, D!Copy, D!Wanted
<1>5. D!ActiveIsThePlan' /\ D!NoStaleComposition'
  BY DEF D!UpdateDraft, D!Editable, DraftInv, D!ActiveIsThePlan, D!NoStaleComposition
<1>6. D!LaunchingIsAssembled'
  BY DEF D!UpdateDraft, D!Editable, DraftInv, DraftTyped, D!Drafts, D!LaunchingIsAssembled
<1> QED
  BY <1>2, <1>3, <1>4, <1>5, <1>6 DEF DraftInv

LEMMA DiscardedStep == ASSUME DraftInv, D!DiscardDraft PROVE DraftInv'
<1>1. draft' \in D!Drafts /\ draft'.status = "discarded"
  <2>1. draft \in D!Drafts /\ draft' = [draft EXCEPT !.status = "discarded", !.revision = @ + 1]
    BY DEF D!DiscardDraft, DraftInv, DraftTyped
  <2>2. draft.input \in D!Inputs
    BY <2>1 DEF D!Drafts
  <2> QED
    BY <2>1, <2>2, RowWritten
<1>a. mission # "active" /\ mission' \in {mission, "stopped"} /\ UNCHANGED <<task, member, compose, launch, sessions>>
  BY DEF D!DiscardDraft, D!Editable, D!Stopped, DraftInv, D!ActiveIsThePlan
<1>b. (mission' = "none" => mission = "none") /\ (mission' = "staged" => mission = "staged") /\ mission' # "active"
  BY <1>a
<1>2. DraftTyped'
  BY <1>1, <1>a DEF DraftInv, DraftTyped
<1>3. OneHolds' /\ ActiveQuiet' /\ Unmade'
  BY <1>a, <1>b DEF DraftInv, OneHolds, ActiveQuiet, Unmade, D!Holding, D!Assembling
<1>4. TasksRepaired' /\ MemberRepaired'
  BY <1>a, <1>b DEF DraftInv, TasksRepaired, MemberRepaired, D!At, D!Copy, D!Wanted
<1>5. D!ActiveIsThePlan' /\ D!NoStaleComposition' /\ D!LaunchingIsAssembled'
  BY <1>1, <1>a, <1>b DEF DraftInv, D!ActiveIsThePlan, D!NoStaleComposition, D!LaunchingIsAssembled
<1> QED
  BY <1>2, <1>3, <1>4, <1>5 DEF DraftInv

LEMMA StoppedStep == ASSUME DraftInv, D!StopMission \/ D!EndMembership PROVE DraftInv'
<1>1. CASE D!StopMission
  <2>2. DraftTyped'
    BY <1>1 DEF D!StopMission, DraftInv, DraftTyped
  <2>3. OneHolds' /\ ActiveQuiet' /\ Unmade'
    BY <1>1 DEF D!StopMission, DraftInv, OneHolds, ActiveQuiet, Unmade, D!Holding, D!Assembling
  <2>4. TasksRepaired' /\ MemberRepaired'
    BY <1>1 DEF D!StopMission, DraftInv, TasksRepaired, MemberRepaired, D!At, D!Copy, D!Wanted
  <2>5. D!ActiveIsThePlan' /\ D!NoStaleComposition' /\ D!LaunchingIsAssembled'
    BY <1>1 DEF D!StopMission, DraftInv, D!ActiveIsThePlan, D!NoStaleComposition, D!LaunchingIsAssembled,
       D!Assembling, D!Copy
  <2> QED
    BY <2>2, <2>3, <2>4, <2>5 DEF DraftInv
<1>2. CASE D!EndMembership
  <2>1. /\ member' = [member EXCEPT !.phase = "stopped"] /\ mission = "stopped" /\ member.phase = "active"
        /\ UNCHANGED <<draft, mission, task, compose, launch, sessions>>
    BY <1>2 DEF D!EndMembership
  <2>a. member' \in [phase : {"absent", "active", "stopped"}, set : Settings \cup {"none"}, session : Nat]
        /\ member'.phase = "stopped" /\ member'.set = member.set /\ member'.session = member.session
    BY <2>1 DEF DraftInv, DraftTyped
  <2>2. DraftTyped'
    BY <2>1, <2>a DEF DraftInv, DraftTyped
  <2>3. OneHolds' /\ ActiveQuiet' /\ Unmade'
    BY <2>1, <2>a DEF DraftInv, OneHolds, ActiveQuiet, Unmade, D!Holding, D!Assembling
  <2>4. TasksRepaired' /\ MemberRepaired'
    BY <2>1, <2>a DEF DraftInv, TasksRepaired, MemberRepaired, D!At, D!Copy, D!Wanted
  <2>5. D!ActiveIsThePlan' /\ D!NoStaleComposition' /\ D!LaunchingIsAssembled'
    BY <2>1, <2>a DEF DraftInv, D!ActiveIsThePlan, D!NoStaleComposition, D!LaunchingIsAssembled,
       D!Assembling, D!Copy
  <2> QED
    BY <2>2, <2>3, <2>4, <2>5 DEF DraftInv
<1> QED
  BY <1>1, <1>2

\* What a step of one call leaves to the others: none of them holds the draft, unless the
\* call did not.
LEMMA OthersIdle ==
    ASSUME DraftInv, NEW l \in Launches, D!Holding(l)
    PROVE  \A o \in Launches : o # l => launch[o].pc \in {"idle", "queued"}
  BY DEF DraftInv, OneHolds, D!Holding

\* A call that holds no more, or asks, where nothing else changes but a draft that is not
\* launching.
LEMMA LetGoStep ==
    ASSUME DraftInv, NEW l \in Launches, NEW r \in LaunchRows, r.pc \in {"idle", "queued"},
           launch' = [launch EXCEPT ![l] = r], draft' \in D!Drafts,
           UNCHANGED <<mission, member, compose, sessions>>,
           task' \in [D!Keys -> {"absent", "pending", "cancelled"}],
           task' = task \/ (mission = "staged" /\ D!Holding(l)),
           draft' = draft \/ draft'.status # "launching",
           mission = "active" => draft' = draft,
           draft.status = "launching" /\ draft' = draft =>
             ~ (D!Assembling(l) /\ D!Copy(l).revision = draft.revision)
    PROVE  DraftInv'
<1>1. \A o \in Launches : launch'[o] = IF o = l THEN r ELSE launch[o]
  BY DEF DraftInv, DraftTyped
<1>2. DraftTyped'
  BY DEF DraftInv, DraftTyped
<1>3. OneHolds' /\ ActiveQuiet' /\ Unmade'
  BY <1>1 DEF DraftInv, OneHolds, ActiveQuiet, Unmade, D!Holding, D!Assembling
<1>4. MemberRepaired'
  BY <1>1 DEF DraftInv, MemberRepaired, D!At, D!Copy, D!Wanted
<1>7. TasksRepaired'
  <2>1. CASE task' = task
    BY <1>1, <2>1 DEF DraftInv, TasksRepaired, D!Copy
  <2>2. CASE D!Holding(l)
    BY <1>1, <2>2 DEF DraftInv, OneHolds, D!Holding, TasksRepaired
  <2> QED
    BY <2>1, <2>2
<1>5. D!ActiveIsThePlan' /\ D!NoStaleComposition'
  BY DEF DraftInv, D!ActiveIsThePlan, D!NoStaleComposition
<1>6. D!LaunchingIsAssembled'
  <2> SUFFICES ASSUME draft'.status = "launching"
               PROVE  \E o \in Launches : (D!Assembling(o) /\ D!Copy(o).revision = draft.revision)'
    BY DEF D!LaunchingIsAssembled
  <2>1. draft' = draft
    OBVIOUS
  <2>2. PICK o \in Launches : D!Assembling(o) /\ D!Copy(o).revision = draft.revision
    BY <2>1 DEF DraftInv, D!LaunchingIsAssembled
  <2>3. o # l
    BY <2>1, <2>2
  <2> QED
    BY <1>1, <2>1, <2>2, <2>3 DEF D!Assembling, D!Copy
<1> QED
  BY <1>2, <1>3, <1>4, <1>5, <1>6, <1>7 DEF DraftInv

LEMMA AskedStep == ASSUME DraftInv, NEW l \in Launches, D!AskLaunch(l) \/ D!RefuseLaunch(l) PROVE DraftInv'
<1>1. [pc |-> "queued", revision |-> draft.revision] \in LaunchRows /\ D!Idle \in LaunchRows
  BY DEF DraftInv, DraftTyped, D!Drafts, LaunchRows, D!Idle
<1>2. ~D!Assembling(l) /\ draft \in D!Drafts /\ task \in [D!Keys -> {"absent", "pending", "cancelled"}]
  BY DEF D!AskLaunch, D!RefuseLaunch, D!Assembling, D!At, DraftInv, DraftTyped
<1>3. CASE D!AskLaunch(l)
  BY <1>1, <1>2, <1>3, LetGoStep DEF D!AskLaunch
<1>4. CASE D!RefuseLaunch(l)
  BY <1>1, <1>2, <1>4, LetGoStep DEF D!RefuseLaunch, D!Ends, D!Idle
<1> QED
  BY <1>3, <1>4

LEMMA HoldingRow == ASSUME DraftInv, NEW l \in Launches, D!Holding(l)
                    PROVE  /\ launch[l] \in [pc : {"checking", "repairing", "stopped", "invalidated", "adding",
                                                   "starting", "assembling"}, revision : Nat, copy : D!Drafts]
                           /\ D!Copy(l) \in D!Drafts
  BY DEF DraftInv, DraftTyped, LaunchRows, D!Holding, D!Copy

LEMMA ReadStep == ASSUME DraftInv, NEW l \in Launches, D!ReadDraft(l) PROVE DraftInv'
<1>0. /\ launch[l].pc = "queued" /\ \A o \in Launches : ~D!Holding(o)
      /\ UNCHANGED <<draft, mission, task, member, compose, sessions>>
      /\ draft \in D!Drafts /\ launch[l] \in LaunchRows
      /\ task \in [D!Keys -> {"absent", "pending", "cancelled"}]
  BY DEF D!ReadDraft, D!At, DraftInv, DraftTyped
<1>1. launch[l].revision \in Nat
  BY <1>0 DEF LaunchRows
<1> DEFINE r == [pc |-> "checking", revision |-> launch[l].revision, copy |-> draft]
<1>2. r \in LaunchRows /\ r.pc = "checking" /\ D!Idle \in LaunchRows /\ D!Idle.pc = "idle"
  BY <1>0, <1>1 DEF LaunchRows, D!Idle
<1>3. CASE ~(D!Editable /\ draft.revision = launch[l].revision)
  <2>1. launch' = [launch EXCEPT ![l] = D!Idle]
    BY <1>3 DEF D!ReadDraft
  <2>2. ~D!Assembling(l)
    BY <1>0 DEF D!Assembling
  <2> QED
    BY <1>0, <1>2, <2>1, <2>2, LetGoStep
<1>4. CASE D!Editable /\ draft.revision = launch[l].revision
  <2>1. launch' = [launch EXCEPT ![l] = r]
    BY <1>4 DEF D!ReadDraft
  <2> HIDE DEF r
  <2>2. \A o \in Launches : launch'[o] = IF o = l THEN r ELSE launch[o]
    BY <2>1 DEF DraftInv, DraftTyped
  <2>3. DraftTyped'
    BY <1>0, <1>2, <2>1 DEF DraftInv, DraftTyped
  <2>4. mission # "active" /\ draft.status # "launching"
    BY <1>4 DEF DraftInv, D!ActiveIsThePlan, D!Editable
  <2>5. OneHolds' /\ ActiveQuiet' /\ Unmade'
    BY <1>0, <1>2, <2>2, <2>4 DEF DraftInv, OneHolds, ActiveQuiet, Unmade, D!Holding, D!Assembling
  <2>6. TasksRepaired' /\ MemberRepaired'
    BY <1>0, <1>2, <2>2 DEF DraftInv, TasksRepaired, MemberRepaired, D!Holding, D!At
  <2>7. D!ActiveIsThePlan' /\ D!NoStaleComposition' /\ D!LaunchingIsAssembled'
    BY <1>0, <2>4 DEF DraftInv, D!ActiveIsThePlan, D!NoStaleComposition, D!LaunchingIsAssembled
  <2> QED
    BY <2>3, <2>5, <2>6, <2>7 DEF DraftInv
<1> QED
  BY <1>3, <1>4

LEMMA FailedStep == ASSUME DraftInv, NEW l \in Launches, D!FailAssembly(l) \/ D!ProposeSome(l) PROVE DraftInv'
<1>0. /\ D!Holding(l) /\ draft' = (IF draft.revision = D!Copy(l).revision THEN D!Failed(D!Copy(l))
                                     ELSE draft)
      /\ launch' = [launch EXCEPT ![l] = D!Idle]
      /\ UNCHANGED <<mission, member, compose, sessions>>
      /\ task' = task \/ mission = "staged"
  BY DEF D!FailAssembly, D!ProposeSome, D!Assembling, D!Ready, D!At, D!Holding, D!Ends
<1>1. D!Copy(l) \in D!Drafts /\ D!Idle \in LaunchRows /\ D!Idle.pc = "idle" /\ draft \in D!Drafts
  BY <1>0, HoldingRow DEF LaunchRows, D!Idle, DraftInv, DraftTyped
<1>2. D!Copy(l).input \in D!Inputs
  BY <1>1 DEF D!Drafts
<1>3. D!Failed(D!Copy(l)) \in D!Drafts /\ D!Failed(D!Copy(l)).status = "failed"
  BY <1>1, <1>2, RowWritten
<1>4. task' \in [D!Keys -> {"absent", "pending", "cancelled"}]
  BY DEF D!FailAssembly, D!ProposeSome, D!Proposed, DraftInv, DraftTyped
<1>5. mission # "active"
  BY <1>0 DEF DraftInv, ActiveQuiet
<1>6. draft' \in D!Drafts /\ (draft' = draft \/ draft'.status # "launching")
      /\ (draft.status = "launching" /\ draft' = draft =>
            ~ (D!Assembling(l) /\ D!Copy(l).revision = draft.revision))
  BY <1>0, <1>1, <1>3
<1> QED
  BY <1>0, <1>1, <1>4, <1>5, <1>6, LetGoStep

LEMMA BeganStep == ASSUME DraftInv, NEW l \in Launches, D!BeginAssembly(l) PROVE DraftInv'
<1> DEFINE c == D!Launching(D!Copy(l))
<1>0. /\ D!Holding(l) /\ launch[l].pc = "checking"
      /\ mission' = (IF mission = "none" THEN "staged" ELSE mission)
      /\ UNCHANGED <<task, member, compose, sessions>>
  BY DEF D!BeginAssembly, D!At, D!Holding
<1>1. /\ launch[l] \in [pc : {"checking", "repairing", "stopped", "invalidated", "adding",
                              "starting", "assembling"}, revision : Nat, copy : D!Drafts]
      /\ D!Copy(l) \in D!Drafts /\ D!Idle \in LaunchRows /\ D!Idle.pc = "idle" /\ draft \in D!Drafts
      /\ task \in [D!Keys -> {"absent", "pending", "cancelled"}]
  BY <1>0, HoldingRow DEF LaunchRows, D!Idle, DraftInv, DraftTyped
<1>2. D!Copy(l).input \in D!Inputs
  BY <1>1 DEF D!Drafts
<1>3. c \in D!Drafts /\ c.status = "launching"
  BY <1>1, <1>2, RowWritten
<1>a. c.input \in D!Inputs
  BY <1>3 DEF D!Drafts
<1>b. D!Failed(c) \in D!Drafts /\ D!Failed(c).status = "failed"
  BY <1>3, <1>a, RowWritten
<1>5. mission # "active"
  BY <1>0 DEF DraftInv, ActiveQuiet
<1>6. CASE mission \notin {"none", "staged"}
  <2>1. draft' = D!Failed(c) /\ launch' = [launch EXCEPT ![l] = D!Idle]
    BY <1>6 DEF D!BeginAssembly, D!Ends
  <2>2. ~D!Assembling(l) /\ mission' = mission
    BY <1>0, <1>6 DEF D!Assembling
  <2> HIDE DEF c
  <2> QED
    BY <1>0, <1>1, <1>b, <1>5, <2>1, <2>2, LetGoStep
<1>7. CASE mission \in {"none", "staged"}
  <2> DEFINE p == IF mission = "none" THEN "adding" ELSE "repairing"
  <2>1. /\ draft' = c
        /\ launch' = [launch EXCEPT ![l].copy = c, ![l].pc = p]
        /\ mission' = "staged"
    BY <1>0, <1>7 DEF D!BeginAssembly
  <2> HIDE DEF c
  <2>2. \A o \in Launches : o # l => launch'[o] = launch[o] /\ launch[o].pc \in {"idle", "queued"}
    BY <1>0, <2>1, OthersIdle DEF DraftInv, DraftTyped
  <2>3. launch'[l].pc = p /\ launch'[l].copy = c /\ launch'[l] \in LaunchRows
    BY <1>1, <1>3, <2>1 DEF DraftInv, DraftTyped, LaunchRows
  <2>4. DraftTyped'
    <3>1. launch' \in [Launches -> LaunchRows]
      BY <2>1, <2>2, <2>3 DEF DraftInv, DraftTyped
    <3> QED
      BY <1>0, <1>3, <2>1, <3>1 DEF DraftInv, DraftTyped
  <2>5. OneHolds' /\ ActiveQuiet' /\ Unmade'
    BY <1>0, <2>1, <2>2, <2>3 DEF DraftInv, OneHolds, ActiveQuiet, Unmade, D!Holding
  <2>a. mission = "none" => (\A k \in D!Keys : task[k] = "absent") /\ member.phase = "absent"
    BY DEF DraftInv, Unmade
  <2>b. c.input.tasks \subseteq D!Keys
    BY <1>a, PlanKeys DEF D!Inputs
  <2>c. /\ \A o \in Launches : launch'[o].pc \in {"idle", "queued"} \/ (o = l /\ launch'[o].pc = p)
        /\ launch'[l].copy = c /\ p \in {"adding", "repairing"} /\ (p = "adding" => mission = "none")
        /\ task' = task /\ member' = member
    BY <1>0, <2>2, <2>3
  <2> HIDE DEF p
  <2>6. TasksRepaired'
    BY <2>a, <2>b, <2>c DEF TasksRepaired, D!Copy
  <2>7. MemberRepaired'
    BY <2>a, <2>c DEF MemberRepaired, D!At
  <2>8. D!ActiveIsThePlan' /\ D!NoStaleComposition' /\ D!LaunchingIsAssembled'
    BY <1>0, <2>1, <2>3, <2>c DEF DraftInv, D!ActiveIsThePlan, D!NoStaleComposition, D!LaunchingIsAssembled,
       D!Assembling, D!Copy
  <2> QED
    BY <2>4, <2>5, <2>6, <2>7, <2>8 DEF DraftInv
<1> QED
  BY <1>6, <1>7

\* A step of the assembly: the call moves on, and the others hold nothing.
LEMMA AssemblyMoves ==
    ASSUME DraftInv, NEW l \in Launches, D!Assembling(l),
           NEW p \in {"repairing", "stopped", "invalidated", "adding", "starting", "assembling"},
           D!Moves(l, p), UNCHANGED <<draft, mission>>,
           task' \in [D!Keys -> {"absent", "pending", "cancelled"}],
           member' \in [phase : {"absent", "active", "stopped"}, set : Settings \cup {"none"}, session : Nat],
           compose' \in Nat, sessions' \in Nat,
           member'.phase = "absent" => compose' = 0
    PROVE  /\ DraftTyped' /\ OneHolds' /\ ActiveQuiet' /\ Unmade'
           /\ D!ActiveIsThePlan' /\ D!LaunchingIsAssembled'
           /\ launch'[l].pc = p /\ launch'[l].copy = launch[l].copy
           /\ \A o \in Launches : o # l => launch'[o].pc \in {"idle", "queued"}
<1>1. D!Holding(l) /\ mission # "none" /\ mission # "active"
  BY DEF D!Assembling, D!Holding, DraftInv, Unmade, ActiveQuiet
<1>2. launch[l] \in [pc : {"checking", "repairing", "stopped", "invalidated", "adding",
                           "starting", "assembling"}, revision : Nat, copy : D!Drafts]
  BY <1>1, HoldingRow
<1>3. launch' = [launch EXCEPT ![l].pc = p] /\ launch \in [Launches -> LaunchRows]
  BY DEF D!Moves, DraftInv, DraftTyped
<1>4. \A o \in Launches : o # l => launch'[o] = launch[o] /\ launch[o].pc \in {"idle", "queued"}
  BY <1>1, <1>3, OthersIdle
<1>5. launch'[l].pc = p /\ launch'[l].copy = launch[l].copy /\ launch'[l] \in LaunchRows
  BY <1>2, <1>3 DEF LaunchRows
<1>6. launch' \in [Launches -> LaunchRows]
  BY <1>3, <1>4, <1>5
<1>7. DraftTyped'
  BY <1>6 DEF DraftInv, DraftTyped
<1>8. OneHolds' /\ ActiveQuiet' /\ Unmade'
  BY <1>1, <1>4 DEF OneHolds, ActiveQuiet, Unmade, D!Holding
<1>9. D!ActiveIsThePlan'
  BY <1>1 DEF D!ActiveIsThePlan
<1>10. D!LaunchingIsAssembled'
  <2> SUFFICES ASSUME draft.status = "launching"
               PROVE  (D!Assembling(l) /\ D!Copy(l).revision = draft.revision)'
    BY DEF D!LaunchingIsAssembled
  <2>1. PICK o \in Launches : D!Assembling(o) /\ D!Copy(o).revision = draft.revision
    BY DEF DraftInv, D!LaunchingIsAssembled
  <2>2. o = l
    BY <1>4, <2>1 DEF D!Assembling
  <2> QED
    BY <1>5, <2>1, <2>2 DEF D!Assembling, D!Copy
<1> QED
  BY <1>4, <1>5, <1>7, <1>8, <1>9, <1>10

\* What is left to show of such a step is what it did to the rows of its own plan.
LEMMA AssembledStep ==
    ASSUME DraftInv, NEW l \in Launches, D!Assembling(l),
           NEW p \in {"repairing", "stopped", "invalidated", "adding", "starting", "assembling"},
           D!Moves(l, p), UNCHANGED <<draft, mission>>,
           task' \in [D!Keys -> {"absent", "pending", "cancelled"}],
           member' \in [phase : {"absent", "active", "stopped"}, set : Settings \cup {"none"}, session : Nat],
           compose' \in Nat, sessions' \in Nat,
           member'.phase = "absent" => compose' = 0,
           compose' \in {0, member'.session},
           p \in {"adding", "starting", "assembling"} =>
              /\ \A k \in D!Keys : task'[k] = "pending" => k \in D!Copy(l).input.tasks
              /\ \A k \in D!Copy(l).input.tasks : task'[k] # "cancelled",
           p = "invalidated" => compose' = 0,
           p = "adding" /\ D!Wanted(l) # "none" /\ member'.phase = "active" => member'.set = D!Wanted(l),
           p \in {"starting", "assembling"} =>
              /\ D!Wanted(l) # "none" /\ member'.phase # "absent" /\ member'.set = D!Wanted(l)
              /\ mission = "staged" => member'.phase = "active"
    PROVE  DraftInv'
<1>1. /\ DraftTyped' /\ OneHolds' /\ ActiveQuiet' /\ Unmade'
      /\ D!ActiveIsThePlan' /\ D!LaunchingIsAssembled'
      /\ launch'[l].pc = p /\ launch'[l].copy = launch[l].copy
      /\ \A o \in Launches : o # l => launch'[o].pc \in {"idle", "queued"}
  BY AssemblyMoves
<1>2. TasksRepaired'
  BY <1>1 DEF TasksRepaired, D!Copy
<1>3. MemberRepaired'
  BY <1>1 DEF MemberRepaired, D!At, D!Wanted, D!Copy
<1>4. D!NoStaleComposition'
  BY DEF D!NoStaleComposition
<1> QED
  BY <1>1, <1>2, <1>3, <1>4 DEF DraftInv

LEMMA RepairStep ==
    ASSUME DraftInv, NEW l \in Launches,
           D!StopMember(l) \/ D!InvalidateComposition(l) \/ D!RepairMember(l) \/ D!RepairTasks(l)
    PROVE  DraftInv'
<1>0. /\ task \in [D!Keys -> {"absent", "pending", "cancelled"}] /\ compose \in Nat /\ sessions \in Nat
      /\ member \in [phase : {"absent", "active", "stopped"}, set : Settings \cup {"none"}, session : Nat]
      /\ compose \in {0, member.session} /\ (member.phase = "absent" => compose = 0)
      /\ D!Assembling(l)
  BY DEF DraftInv, DraftTyped, Unmade, D!NoStaleComposition, D!StopMember, D!InvalidateComposition,
     D!RepairMember, D!RepairTasks, D!Assembling, D!At
<1>t. D!Wanted(l) \in Settings \cup {"none"} /\ D!Copy(l).input.tasks \subseteq D!Keys
  <2>1. D!Copy(l) \in D!Drafts
    BY <1>0, HoldingRow DEF D!Assembling, D!Holding
  <2> QED
    BY <2>1, PlanKeys DEF D!Drafts, D!Inputs, D!Wanted
<1>1. CASE D!StopMember(l)
  BY <1>0, <1>1, AssembledStep DEF D!StopMember
<1>2. CASE D!InvalidateComposition(l)
  BY <1>0, <1>2, AssembledStep DEF D!InvalidateComposition
<1>3. CASE D!RepairMember(l)
  <2>1. /\ member' = IF D!Wanted(l) = "none" THEN [member EXCEPT !.phase = "stopped"]
                     ELSE [phase |-> "active", set |-> D!Wanted(l),
                           session |-> IF D!Changed(l) THEN sessions + 1 ELSE member.session]
        /\ sessions' = (IF D!Changed(l) THEN sessions + 1 ELSE sessions)
        /\ D!Moves(l, "repairing") /\ UNCHANGED <<draft, mission, task, compose>>
        /\ D!Changed(l) => compose = 0
    BY <1>3 DEF D!RepairMember, DraftInv, MemberRepaired, D!At
  <2>2. /\ member' \in [phase : {"absent", "active", "stopped"}, set : Settings \cup {"none"}, session : Nat]
        /\ member'.phase # "absent" /\ (~D!Changed(l) => member'.session = member.session)
        /\ sessions' \in Nat
    <3>1. CASE D!Wanted(l) = "none"
      BY <1>0, <2>1, <3>1
    <3>2. CASE D!Wanted(l) # "none"
      BY <1>0, <1>t, <2>1, <3>2
    <3> QED
      BY <3>1, <3>2
  <2> QED
    BY <1>0, <2>1, <2>2, AssembledStep
<1>4. CASE D!RepairTasks(l)
  <2>1. /\ D!MemberStands(l) \/ D!Wanted(l) = "none"
        /\ \A k \in D!Copy(l).input.tasks : task[k] # "cancelled"
        /\ task' = [k \in D!Keys |-> IF task[k] = "pending" /\ k \notin D!Copy(l).input.tasks
                             THEN "cancelled" ELSE task[k]]
        /\ D!Moves(l, "adding")
        /\ UNCHANGED <<draft, mission, member, compose, sessions>>
    BY <1>4 DEF D!RepairTasks
  <2>2. task' \in [D!Keys -> {"absent", "pending", "cancelled"}]
    BY <1>0, <2>1
  <2>3. /\ \A k \in D!Keys : task'[k] = "pending" => k \in D!Copy(l).input.tasks
        /\ \A k \in D!Copy(l).input.tasks : task'[k] # "cancelled"
    BY <1>0, <1>t, <2>1
  <2>4. D!Wanted(l) # "none" /\ member'.phase = "active" => member'.set = D!Wanted(l)
    BY <2>1 DEF D!MemberStands, D!Changed
  <2> QED
    BY <1>0, <2>1, <2>2, <2>3, <2>4, AssembledStep
<1> QED
  BY <1>1, <1>2, <1>3, <1>4

LEMMA AddedStep == ASSUME DraftInv, NEW l \in Launches, D!AddMember(l) \/ D!StartMember(l) PROVE DraftInv'
<1>0. /\ task \in [D!Keys -> {"absent", "pending", "cancelled"}] /\ compose \in Nat /\ sessions \in Nat
      /\ member \in [phase : {"absent", "active", "stopped"}, set : Settings \cup {"none"}, session : Nat]
      /\ compose \in {0, member.session} /\ (member.phase = "absent" => compose = 0)
      /\ D!Assembling(l) /\ launch[l].pc \in {"adding", "starting"}
  BY DEF DraftInv, DraftTyped, Unmade, D!NoStaleComposition, D!AddMember, D!StartMember,
     D!Assembling, D!At
<1>1. /\ \A k \in D!Keys : task[k] = "pending" => k \in D!Copy(l).input.tasks
      /\ \A k \in D!Copy(l).input.tasks : task[k] # "cancelled"
  BY <1>0 DEF DraftInv, TasksRepaired
<1>t. D!Wanted(l) \in Settings \cup {"none"}
  <2>1. D!Copy(l) \in D!Drafts
    BY <1>0, HoldingRow DEF D!Assembling, D!Holding
  <2> QED
    BY <2>1 DEF D!Drafts, D!Inputs, D!Wanted
<1>2. CASE D!AddMember(l)
  <2>1. /\ D!Wanted(l) # "none" /\ D!Moves(l, "starting") /\ UNCHANGED <<draft, mission, task, compose>>
        /\ D!At(l, "adding")
    BY <1>2 DEF D!AddMember
  <2>2. CASE /\ member.phase = "absent" /\ sessions' = sessions + 1
             /\ member' = [phase |-> "active", set |-> D!Wanted(l), session |-> sessions + 1]
    BY <1>0, <1>1, <1>t, <2>1, <2>2, AssembledStep
  <2>3. CASE member.phase = "active" /\ UNCHANGED <<member, sessions>>
    <3>1. member.set = D!Wanted(l)
      BY <2>1, <2>3 DEF DraftInv, MemberRepaired
    <3> QED
      BY <1>0, <1>1, <2>1, <2>3, <3>1, AssembledStep
  <2> QED
    BY <1>2, <2>2, <2>3 DEF D!AddMember
<1>3. CASE D!StartMember(l)
  <2>1. /\ D!Moves(l, "assembling") /\ UNCHANGED <<draft, mission, task, member, sessions>>
        /\ D!At(l, "starting") /\ compose' = member.session
    BY <1>3 DEF D!StartMember
  <2>2. /\ D!Wanted(l) # "none" /\ member.phase # "absent" /\ member.set = D!Wanted(l)
        /\ mission = "staged" => member.phase = "active"
    BY <2>1 DEF DraftInv, MemberRepaired
  <2> QED
    BY <1>0, <1>1, <2>1, <2>2, AssembledStep
<1> QED
  BY <1>2, <1>3

\* The activation commits exactly the plan that was assembled.
LEMMA ActivatedStep == ASSUME DraftInv, NEW l \in Launches, D!Activate(l) PROVE DraftInv'
<1>0. /\ launch[l].pc \in {"adding", "assembling"} /\ D!Holding(l) /\ mission = "staged"
      /\ launch[l].pc = "assembling" \/ D!Wanted(l) = "none"
      /\ task' = D!Proposed(D!Copy(l).input.tasks) /\ mission' = "active"
      /\ draft' = [D!Copy(l) EXCEPT !.status = "launched"]
      /\ launch' = [launch EXCEPT ![l] = D!Idle]
      /\ UNCHANGED <<member, compose, sessions>>
  BY DEF D!Activate, D!Ready, D!At, D!Holding, D!Ends
<1>1. D!Copy(l) \in D!Drafts /\ D!Idle \in LaunchRows /\ D!Idle.pc = "idle"
  BY <1>0, HoldingRow DEF LaunchRows, D!Idle
<1>2. D!Copy(l).input \in D!Inputs
  BY <1>1 DEF D!Drafts
<1>3. draft' \in D!Drafts /\ draft'.status = "launched" /\ draft'.input = D!Copy(l).input
  BY <1>0, <1>1, <1>2, RowWritten
<1>4. D!Copy(l).input.tasks \subseteq D!Keys
  BY <1>2, PlanKeys DEF D!Inputs
<1>5. \A o \in Launches : launch'[o].pc \in {"idle", "queued"}
  BY <1>0, <1>1, OthersIdle DEF DraftInv, DraftTyped
<1>6. DraftTyped'
  <2>1. task' \in [D!Keys -> {"absent", "pending", "cancelled"}]
    BY <1>0 DEF D!Proposed, DraftInv, DraftTyped
  <2>2. launch' \in [Launches -> LaunchRows]
    BY <1>0, <1>1 DEF DraftInv, DraftTyped
  <2> QED
    BY <1>0, <1>3, <2>1, <2>2 DEF DraftInv, DraftTyped
<1>7. OneHolds' /\ ActiveQuiet' /\ Unmade' /\ TasksRepaired' /\ MemberRepaired'
  BY <1>0, <1>5 DEF DraftInv, OneHolds, ActiveQuiet, Unmade, TasksRepaired, MemberRepaired,
     D!Holding, D!At
<1>8. D!ActiveIsThePlan'
  <2>1. /\ \A k \in D!Keys : task[k] = "pending" => k \in D!Copy(l).input.tasks
        /\ \A k \in D!Copy(l).input.tasks : task[k] # "cancelled"
    BY <1>0 DEF DraftInv, TasksRepaired
  <2>2. \A k \in D!Keys : task'[k] = "pending" <=> k \in D!Copy(l).input.tasks
    BY <1>0, <1>4, <2>1 DEF D!Proposed, DraftInv, DraftTyped
  <2>3. {k \in D!Keys : task'[k] = "pending"} = draft'.input.tasks
    BY <1>3, <1>4, <2>2
  <2>4. D!Wanted(l) # "none" => member.phase = "active" /\ member.set = D!Wanted(l)
    BY <1>0 DEF DraftInv, MemberRepaired, D!At
  <2> QED
    BY <1>0, <1>3, <2>3, <2>4 DEF D!ActiveIsThePlan, D!Wanted
<1>9. D!LaunchingIsAssembled' /\ D!NoStaleComposition'
  BY <1>0, <1>3 DEF DraftInv, D!LaunchingIsAssembled, D!NoStaleComposition
<1> QED
  BY <1>6, <1>7, <1>8, <1>9 DEF DraftInv

LEMMA DraftRestarts == ASSUME DraftInv, D!Restart PROVE DraftInv'
<1>0. /\ launch' = [o \in Launches |-> D!Idle] /\ UNCHANGED <<mission, task, member, compose, sessions>>
      /\ draft' = IF draft.status = "launching" THEN D!Failed(draft) ELSE draft
  BY DEF D!Restart
<1>1. draft \in D!Drafts /\ D!Idle \in LaunchRows /\ \A o \in Launches : launch'[o].pc = "idle"
  BY <1>0 DEF DraftInv, DraftTyped, LaunchRows, D!Idle
<1>2. draft.input \in D!Inputs
  BY <1>1 DEF D!Drafts
<1>3. draft' \in D!Drafts /\ draft'.status # "launching"
  BY <1>0, <1>1, <1>2, RowWritten
<1>4. DraftTyped'
  BY <1>0, <1>1, <1>3 DEF DraftInv, DraftTyped
<1>5. OneHolds' /\ ActiveQuiet' /\ Unmade' /\ TasksRepaired' /\ MemberRepaired'
  BY <1>0, <1>1 DEF DraftInv, OneHolds, ActiveQuiet, Unmade, TasksRepaired, MemberRepaired,
     D!Holding, D!Assembling, D!At
<1>6. D!ActiveIsThePlan' /\ D!LaunchingIsAssembled' /\ D!NoStaleComposition'
  BY <1>0, <1>3 DEF DraftInv, D!ActiveIsThePlan, D!LaunchingIsAssembled, D!NoStaleComposition
<1> QED
  BY <1>4, <1>5, <1>6 DEF DraftInv

LEMMA DraftStep == ASSUME DraftInv, D!Next PROVE DraftInv'
<1>1. CASE D!Owner
  BY <1>1, EditedStep, DiscardedStep, StoppedStep DEF D!Owner
<1>2. CASE D!EndMembership
  BY <1>2, StoppedStep
<1>3. ASSUME NEW l \in Launches, D!AskLaunch(l) \/ D!Assemble(l) PROVE DraftInv'
  BY <1>3, AskedStep, ReadStep, BeganStep, FailedStep, RepairStep, AddedStep, ActivatedStep
     DEF D!Assemble
<1>4. CASE D!Restart
  BY <1>4, DraftRestarts
<1> QED
  BY <1>1, <1>2, <1>3, <1>4 DEF D!Next

\* It is kept while nothing of the draft changes, as in the parts that are about the rest.
LEMMA DraftStutters == ASSUME DraftInv, UNCHANGED draftVars PROVE DraftInv'
  BY DEF draftVars, DraftInv, DraftTyped, OneHolds, ActiveQuiet, Unmade, TasksRepaired, MemberRepaired,
     D!Holding, D!Assembling, D!At, D!Copy, D!Wanted,
     D!ActiveIsThePlan, D!LaunchingIsAssembled, D!NoStaleComposition

\* ActiveIsThePlan, of any plans, settings, launches and bounds: whatever failed, was edited
\* and was repaired before, an active mission has exactly the tasks and the member of the plan
\* saved as launched, a plan reads as launching only while a call assembles that revision, and
\* no member is left with a composition of an earlier identity (launchDraft,
\* repairDraftAdmissions, addMember).
THEOREM PlansAreLaunched == LaunchesSpec => []ActiveIsThePlan
<1>1. LaunchesInit => DraftInv
  BY DraftInvInit DEF LaunchesInit
<1>2. DraftInv /\ [LaunchesNext]_<<part, vars, draftVars, startVars>> => DraftInv'
  BY DraftStep, DraftStutters DEF LaunchesNext
<1>3. DraftInv => ActiveIsThePlan
  BY DEF DraftInv, ActiveIsThePlan
<1> QED
  BY <1>1, <1>2, <1>3, PTL DEF LaunchesSpec

(***************************************************************************)
(* An automatic request.  A notice is cleared only once its message is     *)
(* flushed (OwedOrSaved), and what is flushed or waits for it is in the    *)
(* conversation (Said).  An assembly has the draft it wrote, for the       *)
(* current generation, or the draft has gone past its revision (Owned),    *)
(* as the decision that ended the generation fenced it.                    *)
(***************************************************************************)

RequestRows ==
    [status : {"planning", "launching", "running", "failed", "stopped", "completed"},
     epoch : 1..MaxEpoch, fenced : BOOLEAN, dispatch : BOOLEAN, notice : BOOLEAN,
     drafted : BOOLEAN]
DraftRows == [status : {"none", "draft", "launching", "failed", "launched"}, revision : Nat]
BodyRows ==
    [pc : {"idle"}] \cup
    [pc : {"queued", "authorizing", "checking", "assembling", "done", "failed"},
     revision : Nat, epoch : 0..MaxEpoch, cut : BOOLEAN]
Deliveries ==
    [kind : {"command", "planning", "failure"}, epoch : 1..MaxEpoch,
     pc : {"prepare", "preparing", "send", "flush"}]
Messages == {"planning", "failure"} \X (1..MaxEpoch)

RowsTyped ==
    /\ row \in RequestRows /\ plan \in DraftRows /\ body \in [Bodies -> BodyRows]
    /\ launched \in {"none", "staged", "active", "stopped", "completed"}
TalkTyped ==
    /\ deliver \subseteq Deliveries /\ said \in [Messages -> Nat] /\ saved \subseteq Messages

\* A failed and fenced request that is owed no notice has one flushed to the conversation.
OwedOrSaved == row.status = "failed" /\ row.fenced /\ ~row.notice
                 => <<"failure", row.epoch>> \in saved

\* What is flushed, or waits for the flush, is in the conversation.
Said == /\ \A m \in saved : said[m] > 0
        /\ \A d \in deliver : d.pc = "flush" => said[A!Message(d)] > 0

Holds(b) == body[b].pc \in {"authorizing", "checking", "assembling"}
OneBody == \A b, o \in Bodies : Holds(b) /\ Holds(o) => b = o

\* An assembly owns the draft it wrote, for the generation that is current, or the draft has
\* gone past it; and a draft reads as launching only for an assembly of that revision.
Owned ==
    /\ plan.status = "none" => plan.revision = 0
    /\ \A b \in Bodies : body[b].pc = "assembling" =>
         \/ plan.status = "launching" /\ plan.revision = body[b].revision /\ body[b].epoch = row.epoch
         \/ plan.revision > body[b].revision
    /\ plan.status = "launching" =>
         \E b \in Bodies : body[b].pc = "assembling" /\ body[b].revision = plan.revision

RowsInv == RowsTyped /\ A!JournalFollowsMission /\ OwedOrSaved /\ OneBody /\ Owned
TalkInv == TalkTyped /\ Said /\ A!RecoveryToldOnce
StartInv == RowsInv /\ TalkInv

LEMMA EpochIsNat == MaxEpoch \in Nat \ {0}
  BY RequestBounds DEF A!AutoAssumption

LEMMA StartInvInit == A!Init => StartInv
<1> SUFFICES ASSUME A!Init PROVE StartInv
  OBVIOUS
<1>0. 1 \in 1..MaxEpoch
  BY EpochIsNat
<1>1. row \in RequestRows
  BY <1>0 DEF A!Init, RequestRows
<1>2. plan \in DraftRows /\ body \in [Bodies -> BodyRows] /\ launched = "none"
      /\ \A b \in Bodies : body[b].pc = "idle"
  BY DEF A!Init, A!NoBody, DraftRows, BodyRows
<1>3. RowsTyped /\ OneBody
  BY <1>1, <1>2 DEF RowsTyped, OneBody, Holds
<1>4. row.status = "planning" /\ plan.status = "none" /\ plan.revision = 0
  BY DEF A!Init
<1>5. A!JournalFollowsMission /\ OwedOrSaved /\ Owned
  BY <1>2, <1>4 DEF A!JournalFollowsMission, OwedOrSaved, Owned
<1>6. said = [m \in Messages |-> 0] /\ saved = {}
      /\ deliver = {[kind |-> k, epoch |-> 1, pc |-> "prepare"] : k \in bound.kinds \cap {"command"}}
  BY DEF A!Init, Messages, A!Epochs
<1>7. deliver \subseteq Deliveries /\ \A d \in deliver : d.pc = "prepare"
  BY <1>0, <1>6 DEF Deliveries
<1>8. TalkTyped /\ Said
  BY <1>6, <1>7 DEF TalkTyped, Said
<1>9. A!RecoveryToldOnce
  BY <1>6 DEF A!RecoveryToldOnce, Messages, A!Epochs
<1> QED
  BY <1>3, <1>5, <1>8, <1>9 DEF StartInv, RowsInv, TalkInv

\* What each write of the row makes of it.
LEMMA SyncedRow ==
    ASSUME NEW r \in RequestRows, NEW m
    PROVE  /\ A!Synced(r, m) \in RequestRows
           /\ A!Synced(r, m).status = IF m \in {"completed", "stopped"} THEN m ELSE "running"
           /\ A!Synced(r, m).epoch = r.epoch
<1> DEFINE s == CASE m = "completed" -> "completed" [] m = "stopped" -> "stopped" [] OTHER -> "running"
<1>1. s \in {"planning", "launching", "running", "failed", "stopped", "completed"}
      /\ s = IF m \in {"completed", "stopped"} THEN m ELSE "running"
  OBVIOUS
<1>2. A!Synced(r, m) = [r EXCEPT !.status = s, !.dispatch = FALSE, !.notice = FALSE]
  BY DEF A!Synced
<1> HIDE DEF s
<1>3. FALSE \in BOOLEAN
  OBVIOUS
<1>4. A!Synced(r, m) \in RequestRows
  BY <1>1, <1>2, <1>3 DEF RequestRows
<1>5. A!Synced(r, m).status = s /\ A!Synced(r, m).epoch = r.epoch
  BY <1>2 DEF RequestRows
<1> QED
  BY <1>1, <1>4, <1>5

LEMMA FailedRow ==
    ASSUME NEW r \in RequestRows
    PROVE  LET w == [r EXCEPT !.status = "failed", !.fenced = TRUE, !.notice = TRUE, !.dispatch = FALSE]
               f == [r EXCEPT !.status = "failed"]
               n == [r EXCEPT !.status = "failed", !.notice = TRUE, !.dispatch = FALSE]
               q == [r EXCEPT !.notice = FALSE]
               p == [r EXCEPT !.dispatch = FALSE]
               g == [r EXCEPT !.status = "launching", !.drafted = TRUE]
           IN  /\ w \in RequestRows /\ w.status = "failed" /\ w.notice /\ w.epoch = r.epoch
               /\ f \in RequestRows /\ f.status = "failed" /\ f.epoch = r.epoch /\ f.fenced = r.fenced
               /\ n \in RequestRows /\ n.status = "failed" /\ n.notice /\ n.epoch = r.epoch
               /\ q \in RequestRows /\ q.status = r.status /\ q.epoch = r.epoch
               /\ p \in RequestRows /\ p.status = r.status /\ p.epoch = r.epoch
                  /\ p.fenced = r.fenced /\ p.notice = r.notice
               /\ g \in RequestRows /\ g.status = "launching" /\ g.epoch = r.epoch
<1> DEFINE w == [r EXCEPT !.status = "failed", !.fenced = TRUE, !.notice = TRUE, !.dispatch = FALSE]
           f == [r EXCEPT !.status = "failed"]
           n == [r EXCEPT !.status = "failed", !.notice = TRUE, !.dispatch = FALSE]
           q == [r EXCEPT !.notice = FALSE]
           p == [r EXCEPT !.dispatch = FALSE]
           g == [r EXCEPT !.status = "launching", !.drafted = TRUE]
<1>1. w \in RequestRows /\ w.status = "failed" /\ w.notice /\ w.epoch = r.epoch
  BY DEF RequestRows
<1>2. f \in RequestRows /\ f.status = "failed" /\ f.epoch = r.epoch /\ f.fenced = r.fenced
  BY DEF RequestRows
<1>3. n \in RequestRows /\ n.status = "failed" /\ n.notice /\ n.epoch = r.epoch
  BY DEF RequestRows
<1>4. q \in RequestRows /\ q.status = r.status /\ q.epoch = r.epoch
  BY DEF RequestRows
<1>5. p \in RequestRows /\ p.status = r.status /\ p.epoch = r.epoch
      /\ p.fenced = r.fenced /\ p.notice = r.notice
  BY DEF RequestRows
<1>6. g \in RequestRows /\ g.status = "launching" /\ g.epoch = r.epoch
  BY DEF RequestRows
<1> QED
  BY <1>1, <1>2, <1>3, <1>4, <1>5, <1>6

LEMMA FencedRow ==
    ASSUME NEW d \in DraftRows
    PROVE  /\ A!Fenced(d) \in DraftRows /\ A!Fenced(d).status # "launching"
           /\ d.status = "launching" => A!Fenced(d).revision = d.revision + 1 /\ A!Fenced(d).status = "failed"
           /\ d.status # "launching" => A!Fenced(d) = d
  BY DEF DraftRows, A!Fenced

LEMMA CutBodies ==
    ASSUME RowsInv, A!Cut
    PROVE  /\ body' \in [Bodies -> BodyRows]
           /\ \A b \in Bodies : /\ body'[b].pc = body[b].pc
                                /\ body[b].pc # "idle" => /\ body'[b].revision = body[b].revision
                                                          /\ body'[b].epoch = body[b].epoch
<1>1. ASSUME NEW r \in BodyRows, r.pc # "idle"
      PROVE  LET c == [r EXCEPT !.cut = TRUE]
             IN  c \in BodyRows /\ c.pc = r.pc /\ c.revision = r.revision /\ c.epoch = r.epoch
  <2>1. r \in [pc : {"queued", "authorizing", "checking", "assembling", "done", "failed"},
               revision : Nat, epoch : 0..MaxEpoch, cut : BOOLEAN]
    BY <1>1 DEF BodyRows
  <2>2. [r EXCEPT !.cut = TRUE] \in
          [pc : {"queued", "authorizing", "checking", "assembling", "done", "failed"},
               revision : Nat, epoch : 0..MaxEpoch, cut : BOOLEAN]
    BY <2>1
  <2> QED
    BY <2>1, <2>2 DEF BodyRows
<1>2. body \in [Bodies -> BodyRows]
  BY DEF RowsInv, RowsTyped
<1>3. body' = [b \in Bodies |-> IF call.pc = "waiting" /\ call.body = b /\ body[b].pc # "idle"
                                THEN [body[b] EXCEPT !.cut = TRUE] ELSE body[b]]
  BY DEF A!Cut
<1> QED
  BY <1>1, <1>2, <1>3

\* An owner's decision, or a failure, retires the assembly with its draft.
LEMMA FencedStep ==
    ASSUME RowsInv, A!Cut, plan' = A!Fenced(plan)
    PROVE  body' \in [Bodies -> BodyRows] /\ plan' \in DraftRows /\ OneBody' /\ Owned'
<1>1. plan \in DraftRows
  BY DEF RowsInv, RowsTyped
<1>2. /\ plan' \in DraftRows /\ plan'.status # "launching"
      /\ plan.status = "launching" => plan'.revision = plan.revision + 1 /\ plan'.status = "failed"
      /\ plan.status # "launching" => plan' = plan
  BY <1>1, FencedRow
<1>3. OneBody'
  BY CutBodies DEF RowsInv, OneBody, Holds
<1>4. \A b \in Bodies : body[b].pc = "assembling" => body[b].revision \in Nat
  BY DEF RowsInv, RowsTyped, BodyRows
<1>5. plan.revision \in Nat
  BY <1>1 DEF DraftRows
<1>6. Owned'
  BY <1>2, <1>4, <1>5, CutBodies DEF RowsInv, Owned
<1> QED
  BY <1>2, <1>3, <1>6, CutBodies

LEMMA KeptStep ==
    ASSUME RowsInv, UNCHANGED <<row, plan, launched, body>>, saved \subseteq saved' PROVE RowsInv'
<1>1. RowsTyped' /\ A!JournalFollowsMission'
  BY DEF RowsInv, RowsTyped, A!JournalFollowsMission
<1>2. OwedOrSaved'
  BY DEF RowsInv, OwedOrSaved
<1>3. OneBody' /\ Owned'
  BY DEF RowsInv, OneBody, Owned, Holds
<1> QED
  BY <1>1, <1>2, <1>3 DEF RowsInv

\* A write of the request alone.
LEMMA RequestStep ==
    ASSUME RowsInv, UNCHANGED <<plan, body>>, row' \in RequestRows, row'.epoch = row.epoch,
           launched' \in {"none", "staged", "active", "stopped", "completed"},
           A!JournalFollowsMission', OwedOrSaved'
    PROVE  RowsInv'
<1>1. RowsTyped'
  BY DEF RowsInv, RowsTyped
<1>2. OneBody' /\ Owned'
  BY DEF RowsInv, OneBody, Owned, Holds
<1> QED
  BY <1>1, <1>2 DEF RowsInv

LEMMA SyncedStep ==
    ASSUME RowsInv, UNCHANGED <<plan, body>>, launched' \in {"active", "stopped", "completed"},
           row' = A!Synced(row, launched')
    PROVE  RowsInv'
<1>1. row \in RequestRows
  BY DEF RowsInv, RowsTyped
<1>2. /\ row' \in RequestRows /\ row'.epoch = row.epoch
      /\ row'.status = IF launched' \in {"completed", "stopped"} THEN launched' ELSE "running"
  BY <1>1, SyncedRow
<1>3. A!JournalFollowsMission' /\ OwedOrSaved'
  BY <1>2 DEF A!JournalFollowsMission, OwedOrSaved
<1> QED
  BY <1>2, <1>3, RequestStep

LEMMA FailedStart == ASSUME RowsInv, A!FailStart, launched' = launched, saved \subseteq saved' PROVE RowsInv'
<1>0. row \in RequestRows /\ launched \in {"none", "staged", "active", "stopped", "completed"}
  BY DEF RowsInv, RowsTyped
<1>1. CASE A!Ended(launched) /\ row' = A!Synced(row, launched) /\ UNCHANGED <<plan, call, body>>
  BY <1>1, SyncedStep DEF A!Ended
<1>2. CASE UNCHANGED <<row, plan, call, body>>
  BY <1>2, KeptStep
<1>3. CASE /\ ~A!Ended(launched) /\ plan' = A!Fenced(plan) /\ A!Cut
           /\ row' = [row EXCEPT !.status = "failed", !.fenced = TRUE, !.notice = TRUE, !.dispatch = FALSE]
  <2>1. row' \in RequestRows /\ row'.status = "failed" /\ row'.notice
    BY <1>0, <1>3, FailedRow
  <2>2. launched \in {"none", "staged"}
    BY <1>0, <1>3 DEF A!Ended
  <2>3. A!JournalFollowsMission' /\ OwedOrSaved'
    BY <2>1, <2>2 DEF A!JournalFollowsMission, OwedOrSaved
  <2>4. body' \in [Bodies -> BodyRows] /\ plan' \in DraftRows /\ OneBody' /\ Owned'
    BY <1>3, FencedStep
  <2> QED
    BY <1>0, <2>1, <2>3, <2>4 DEF RowsInv, RowsTyped
<1> QED
  BY <1>1, <1>2, <1>3 DEF A!FailStart

\* The clock and the owner's decisions.
LEMMA DecideStep == ASSUME RowsInv, A!Decide PROVE RowsInv'
<1>0. row \in RequestRows /\ launched \in {"none", "staged", "active", "stopped", "completed"}
  BY DEF RowsInv, RowsTyped
<1>1. CASE A!DeadlinePasses \/ A!Extend
  BY <1>1, KeptStep DEF A!DeadlinePasses, A!Extend, A!work, A!talk
<1>2. CASE A!Sweep
  BY <1>2, FailedStart DEF A!Sweep, A!talk
<1>3. CASE A!Retry
  <2>1. /\ row' = [row EXCEPT !.status = "planning", !.epoch = @ + 1, !.fenced = FALSE,
                        !.dispatch = TRUE, !.notice = FALSE]
        /\ row.epoch < MaxEpoch /\ launched' = launched /\ ~A!Ended(launched)
        /\ plan' = A!Fenced(plan) /\ A!Cut
    BY <1>3 DEF A!Retry
  <2>2. row.epoch + 1 \in 1..MaxEpoch
    BY <1>0, <2>1, EpochIsNat DEF RequestRows
  <2>3. row' \in RequestRows /\ row'.status = "planning"
    BY <1>0, <2>1, <2>2 DEF RequestRows
  <2>4. A!JournalFollowsMission' /\ OwedOrSaved'
    BY <1>0, <2>1, <2>3 DEF A!JournalFollowsMission, OwedOrSaved, A!Ended
  <2>5. body' \in [Bodies -> BodyRows] /\ plan' \in DraftRows /\ OneBody' /\ Owned'
    BY <2>1, FencedStep
  <2> QED
    BY <1>0, <2>1, <2>3, <2>4, <2>5 DEF RowsInv, RowsTyped
<1>4. CASE A!StopRequest
  <2>1. /\ row' = [row EXCEPT !.status = "stopped", !.epoch = @ + 1, !.fenced = TRUE,
                        !.dispatch = FALSE, !.notice = FALSE]
        /\ row.epoch < MaxEpoch /\ ~A!Ended(launched)
        /\ launched' = IF launched = "staged" THEN "stopped" ELSE launched
        /\ plan' = A!Fenced(plan) /\ A!Cut
    BY <1>4 DEF A!StopRequest
  <2>2. row.epoch + 1 \in 1..MaxEpoch
    BY <1>0, <2>1, EpochIsNat DEF RequestRows
  <2>3. row' \in RequestRows /\ row'.status = "stopped"
    BY <1>0, <2>1, <2>2 DEF RequestRows
  <2>4. launched' \in {"none", "stopped"}
    BY <1>0, <2>1 DEF A!Ended
  <2>5. A!JournalFollowsMission' /\ OwedOrSaved'
    BY <2>3, <2>4 DEF A!JournalFollowsMission, OwedOrSaved
  <2>6. body' \in [Bodies -> BodyRows] /\ plan' \in DraftRows /\ OneBody' /\ Owned'
    BY <2>1, FencedStep
  <2> QED
    BY <1>0, <2>3, <2>4, <2>5, <2>6 DEF RowsInv, RowsTyped
<1>5. CASE A!ControlMission
  <2>1. PICK m \in {"stopped", "completed"} : launched' = m /\ row' = A!Synced(row, m)
    BY <1>5 DEF A!ControlMission
  <2>2. UNCHANGED <<plan, body>>
    BY <1>5 DEF A!ControlMission, A!work
  <2> QED
    BY <2>1, <2>2, SyncedStep
<1> QED
  BY <1>1, <1>2, <1>3, <1>4, <1>5 DEF A!Decide

\* A call is made, cut or ends, and the plan is saved again or refused.
LEMMA CallStep ==
    ASSUME RowsInv,
           \/ \E e \in A!Epochs : A!RejectPlan(e) \/ \E b \in Bodies : A!StartPlan(e, b)
           \/ A!CancelCall \/ A!CallEnds
    PROVE  RowsInv'
<1>0. /\ row \in RequestRows /\ launched \in {"none", "staged", "active", "stopped", "completed"}
      /\ plan \in DraftRows /\ body \in [Bodies -> BodyRows]
  BY DEF RowsInv, RowsTyped
<1>1. ASSUME NEW e \in A!Epochs, A!RejectPlan(e) PROVE RowsInv'
  <2>1. /\ row' = [row EXCEPT !.status = "failed"] /\ ~row.fenced /\ ~A!Ended(launched)
        /\ UNCHANGED <<plan, launched, body>>
    BY <1>1 DEF A!RejectPlan, A!Launchable, A!work
  <2>2. row' \in RequestRows /\ row'.status = "failed" /\ row'.epoch = row.epoch /\ ~row'.fenced
    BY <1>0, <2>1, FailedRow
  <2>3. A!JournalFollowsMission' /\ OwedOrSaved'
    BY <2>1, <2>2 DEF A!JournalFollowsMission, OwedOrSaved, A!Ended
  <2> QED
    BY <1>0, <2>1, <2>2, <2>3, RequestStep
<1>2. ASSUME NEW e \in A!Epochs, NEW b \in Bodies, A!StartPlan(e, b) PROVE RowsInv'
  <2>1. /\ row' = [row EXCEPT !.status = "launching", !.drafted = TRUE] /\ ~A!Ended(launched)
        /\ body[b].pc = "idle" /\ launched' = launched
        /\ body' = [body EXCEPT ![b] = [pc |-> "queued", revision |-> plan'.revision,
                                        epoch |-> 0, cut |-> FALSE]]
    BY <1>2 DEF A!StartPlan, A!Launchable, A!NoBody
  <2>2. row' \in RequestRows /\ row'.status = "launching" /\ row'.epoch = row.epoch
    BY <1>0, <2>1, FailedRow
  <2>3. A!JournalFollowsMission' /\ OwedOrSaved'
    BY <2>1, <2>2 DEF A!JournalFollowsMission, OwedOrSaved, A!Ended
  <2>4. /\ plan' \in DraftRows /\ plan'.status # "none"
        /\ \/ plan.status = "none"
           \/ plan.status # "launching" /\ plan'.status # "launching" /\ plan'.revision = plan.revision + 1
           \/ plan' = plan
    <3>1. CASE plan.status = "none" /\ plan' = [status |-> "draft", revision |-> 1]
      BY <3>1 DEF DraftRows
    <3>2. CASE plan.status \in {"draft", "failed"} /\ plan' = [plan EXCEPT !.revision = @ + 1]
      BY <1>0, <3>2 DEF DraftRows
    <3>3. CASE plan.status # "none" /\ UNCHANGED plan
      BY <1>0, <3>3
    <3> QED
      BY <1>2, <3>1, <3>2, <3>3 DEF A!StartPlan
  <2>5. [pc |-> "queued", revision |-> plan'.revision, epoch |-> 0, cut |-> FALSE] \in BodyRows
    BY <2>4, EpochIsNat DEF BodyRows, DraftRows
  <2>6. body' \in [Bodies -> BodyRows] /\ body'[b].pc = "queued"
        /\ \A o \in Bodies : o # b => body'[o] = body[o]
    BY <1>0, <2>1, <2>5
  <2>7. OneBody'
    BY <2>6 DEF RowsInv, OneBody, Holds
  <2>8. \A o \in Bodies : body[o].pc = "assembling" => body[o].revision \in Nat
    BY <1>0 DEF BodyRows
  <2>9. plan.revision \in Nat /\ plan'.revision \in Nat
    BY <1>0, <2>4 DEF DraftRows
  <2>10. Owned'
    <3>1. CASE plan.status = "none"
      <4>1. \A o \in Bodies : body[o].pc # "assembling"
        BY <2>8, <3>1 DEF RowsInv, Owned
      <4>2. plan'.status # "launching"
        BY <1>2, <3>1 DEF A!StartPlan
      <4> QED
        BY <2>4, <2>6, <4>1, <4>2 DEF Owned
    <3>2. CASE plan.status # "none"
      BY <2>1, <2>2, <2>4, <2>6, <2>8, <2>9, <3>2 DEF RowsInv, Owned
    <3> QED
      BY <3>1, <3>2
  <2> QED
    BY <1>0, <2>1, <2>2, <2>3, <2>4, <2>6, <2>7, <2>10 DEF RowsInv, RowsTyped
<1>3. CASE A!CancelCall
  <2>1. UNCHANGED <<row, plan, launched>> /\ saved' = saved /\ A!Cut
    BY <1>3 DEF A!CancelCall, A!rows, A!talk
  <2>2. RowsTyped' /\ A!JournalFollowsMission' /\ OwedOrSaved'
    BY <2>1, CutBodies DEF RowsInv, RowsTyped, A!JournalFollowsMission, OwedOrSaved
  <2>3. OneBody' /\ Owned'
    BY <2>1, CutBodies DEF RowsInv, OneBody, Owned, Holds
  <2> QED
    BY <2>2, <2>3 DEF RowsInv
<1>4. CASE A!CallEnds
  <2>1. /\ row' = IF A!Ended(launched) THEN A!Synced(row, launched)
                  ELSE IF row.epoch = call.epoch /\ ~row.fenced /\ row.status # "stopped"
                       THEN [row EXCEPT !.status = "failed"] ELSE row
        /\ body' = A!Freed /\ UNCHANGED <<plan, launched, saved>>
    BY <1>4 DEF A!CallEnds, A!talk
  <2>2. /\ row' \in RequestRows /\ row'.epoch = row.epoch
        /\ \/ A!Ended(launched)
              /\ row'.status = IF launched \in {"completed", "stopped"} THEN launched ELSE "running"
           \/ ~A!Ended(launched) /\ row' = row
           \/ ~A!Ended(launched) /\ row'.status = "failed" /\ ~row'.fenced
    <3>1. CASE A!Ended(launched)
      BY <1>0, <2>1, <3>1, SyncedRow
    <3>2. CASE ~A!Ended(launched)
      BY <1>0, <2>1, <3>2, FailedRow
    <3> QED
      BY <3>1, <3>2
  <2>3. A!JournalFollowsMission' /\ OwedOrSaved'
    BY <1>0, <2>1, <2>2 DEF RowsInv, A!JournalFollowsMission, OwedOrSaved, A!Ended
  <2>4. /\ body' \in [Bodies -> BodyRows]
        /\ \A b \in Bodies : body'[b] = body[b]
                             \/ (body[b].pc \in {"done", "failed"} /\ body'[b].pc = "idle")
    BY <1>0, <2>1 DEF A!Freed, A!NoBody, BodyRows
  <2>5. OneBody' /\ Owned'
    BY <2>1, <2>2, <2>4 DEF RowsInv, OneBody, Owned, Holds
  <2> QED
    BY <1>0, <2>1, <2>2, <2>3, <2>4, <2>5 DEF RowsInv, RowsTyped
<1> QED
  BY <1>1, <1>2, <1>3, <1>4

LEMMA FinishedBody ==
    ASSUME RowsInv, NEW b \in Bodies, body[b].pc # "idle", NEW pc \in {"done", "failed"}, A!Finish(b, pc)
    PROVE  /\ body' \in [Bodies -> BodyRows] /\ body'[b].pc \in {"idle", "done", "failed"}
           /\ \A o \in Bodies : o # b => body'[o] = body[o]
<1>1. body \in [Bodies -> BodyRows]
  BY DEF RowsInv, RowsTyped
<1>2. body[b] \in [pc : {"queued", "authorizing", "checking", "assembling", "done", "failed"},
                   revision : Nat, epoch : 0..MaxEpoch, cut : BOOLEAN]
  BY <1>1 DEF BodyRows
<1>3. [body[b] EXCEPT !.pc = pc] \in BodyRows /\ [body[b] EXCEPT !.pc = pc].pc = pc
  <2>1. [body[b] EXCEPT !.pc = pc] \in
          [pc : {"queued", "authorizing", "checking", "assembling", "done", "failed"},
           revision : Nat, epoch : 0..MaxEpoch, cut : BOOLEAN]
    BY <1>2
  <2> QED
    BY <1>2, <2>1 DEF BodyRows
<1>4. A!NoBody \in BodyRows /\ A!NoBody.pc = "idle"
  BY DEF A!NoBody, BodyRows
<1>5. body' = [body EXCEPT ![b] = IF A!Awaited(b) THEN [body[b] EXCEPT !.pc = pc] ELSE A!NoBody]
  BY DEF A!Finish
<1> HIDE DEF A!NoBody
<1> QED
  BY <1>1, <1>3, <1>4, <1>5

\* The steps of a body: only the one that is assembling writes the draft.
LEMMA BodyStep ==
    ASSUME RowsInv, NEW b \in Bodies,
           A!BodyReads(b) \/ A!BodyAuthorized(b) \/ A!BodyAssembles(b)
             \/ A!BodyActivates(b) \/ A!BodyFails(b)
    PROVE  RowsInv'
<1>0. /\ row \in RequestRows /\ launched \in {"none", "staged", "active", "stopped", "completed"}
      /\ plan \in DraftRows /\ body \in [Bodies -> BodyRows]
  BY DEF RowsInv, RowsTyped
<1>a. /\ body[b].pc # "idle"
      /\ body[b] \in [pc : {"queued", "authorizing", "checking", "assembling", "done", "failed"},
                      revision : Nat, epoch : 0..MaxEpoch, cut : BOOLEAN]
  BY <1>0 DEF BodyRows, A!BodyReads, A!BodyAuthorized, A!BodyAssembles, A!BodyActivates, A!BodyFails
<1>b. \A o \in Bodies : body[o].pc = "assembling" => body[o].revision \in Nat
  BY <1>0 DEF BodyRows
<1>c. plan.revision \in Nat
  BY <1>0 DEF DraftRows
<1>d. row.epoch \in 0..MaxEpoch
  BY <1>0, EpochIsNat DEF RequestRows
<1>1. CASE A!BodyReads(b)
  <2>1. UNCHANGED <<row, plan, launched, saved>> /\ body[b].pc = "queued"
        /\ \A o \in Bodies : ~Holds(o)
    BY <1>1 DEF A!BodyReads, A!rows, A!talk, Holds
  <2>2. /\ body' \in [Bodies -> BodyRows]
        /\ body'[b].pc # "assembling"
        /\ \A o \in Bodies : o # b => body'[o] = body[o]
    <3>1. CASE body' = [body EXCEPT ![b].pc = "authorizing"]
      <4>1. [body[b] EXCEPT !.pc = "authorizing"] \in
              [pc : {"queued", "authorizing", "checking", "assembling", "done", "failed"},
               revision : Nat, epoch : 0..MaxEpoch, cut : BOOLEAN]
        BY <1>a
      <4> QED
        BY <1>0, <1>a, <3>1, <4>1 DEF BodyRows
    <3>2. CASE A!Finish(b, "failed")
      BY <1>a, <3>2, FinishedBody
    <3> QED
      BY <1>1, <3>1, <3>2 DEF A!BodyReads
  <2>3. OneBody' /\ Owned'
    BY <2>1, <2>2 DEF RowsInv, OneBody, Owned, Holds
  <2>4. A!JournalFollowsMission' /\ OwedOrSaved'
    BY <2>1 DEF RowsInv, A!JournalFollowsMission, OwedOrSaved
  <2> QED
    BY <1>0, <2>1, <2>2, <2>3, <2>4 DEF RowsInv, RowsTyped
<1>2. CASE A!BodyAuthorized(b)
  <2>1. /\ UNCHANGED <<row, plan, launched, saved>> /\ body[b].pc = "authorizing"
        /\ body' = [body EXCEPT ![b].pc = "checking", ![b].epoch = row.epoch]
    BY <1>2 DEF A!BodyAuthorized, A!rows, A!talk
  <2>2. [[body[b] EXCEPT !.pc = "checking"] EXCEPT !.epoch = row.epoch] \in
          [pc : {"queued", "authorizing", "checking", "assembling", "done", "failed"},
           revision : Nat, epoch : 0..MaxEpoch, cut : BOOLEAN]
    BY <1>a, <1>d
  <2>3. /\ body' \in [Bodies -> BodyRows] /\ body'[b].pc = "checking"
        /\ \A o \in Bodies : o # b => body'[o] = body[o]
    BY <1>0, <1>a, <2>1, <2>2 DEF BodyRows
  <2>4. OneBody' /\ Owned'
    BY <2>1, <2>3 DEF RowsInv, OneBody, Owned, Holds
  <2>5. A!JournalFollowsMission' /\ OwedOrSaved'
    BY <2>1 DEF RowsInv, A!JournalFollowsMission, OwedOrSaved
  <2> QED
    BY <1>0, <2>1, <2>3, <2>4, <2>5 DEF RowsInv, RowsTyped
<1>3. CASE A!BodyAssembles(b)
  <2>1. /\ UNCHANGED <<row, saved>> /\ body[b].pc = "checking" /\ launched \in {"none", "staged"}
        /\ launched' = "staged" /\ body[b].epoch = row.epoch
        /\ plan' = [status |-> "launching", revision |-> body[b].revision + 1]
        /\ body' = [body EXCEPT ![b].pc = "assembling", ![b].revision = @ + 1]
    BY <1>3 DEF A!BodyAssembles, A!Current, A!talk
  <2>2. [[body[b] EXCEPT !.pc = "assembling"] EXCEPT !.revision = body[b].revision + 1] \in
          [pc : {"queued", "authorizing", "checking", "assembling", "done", "failed"},
           revision : Nat, epoch : 0..MaxEpoch, cut : BOOLEAN]
    <3>1. body[b].revision + 1 \in Nat
      BY <1>a
    <3> QED
      BY <1>a, <3>1
  <2>3. /\ body' \in [Bodies -> BodyRows] /\ body'[b].pc = "assembling"
        /\ body'[b].revision = body[b].revision + 1 /\ body'[b].epoch = body[b].epoch
        /\ \A o \in Bodies : o # b => body'[o] = body[o]
    BY <1>0, <1>a, <2>1, <2>2 DEF BodyRows
  <2>4. OneBody' /\ plan' \in DraftRows
    BY <1>a, <2>1, <2>3 DEF RowsInv, OneBody, Holds, DraftRows
  <2>5. \A o \in Bodies : o # b => body[o].pc # "assembling"
    BY <2>1 DEF RowsInv, OneBody, Holds
  <2>6. Owned'
    BY <2>1, <2>3, <2>5 DEF Owned
  <2>7. A!JournalFollowsMission' /\ OwedOrSaved'
    BY <2>1 DEF RowsInv, A!JournalFollowsMission, OwedOrSaved
  <2> QED
    BY <1>0, <2>1, <2>3, <2>4, <2>6, <2>7 DEF RowsInv, RowsTyped
<1>4. CASE A!BodyActivates(b)
  <2>1. /\ saved' = saved /\ body[b].pc = "assembling" /\ launched' = "active"
        /\ plan' = [status |-> "launched", revision |-> body[b].revision]
        /\ row' = A!Synced(row, "active") /\ A!Finish(b, "done")
    BY <1>4 DEF A!BodyActivates, A!talk
  <2>2. /\ body' \in [Bodies -> BodyRows] /\ body'[b].pc \in {"idle", "done", "failed"}
        /\ \A o \in Bodies : o # b => body'[o] = body[o] /\ body'[o].pc # "assembling"
    BY <1>a, <2>1, FinishedBody DEF RowsInv, OneBody, Holds
  <2>3. row' \in RequestRows /\ row'.status = "running"
    BY <1>0, <2>1, SyncedRow
  <2>4. OneBody' /\ plan' \in DraftRows
    BY <1>b, <2>1, <2>2 DEF RowsInv, OneBody, Holds, DraftRows
  <2>5. Owned'
    BY <2>1, <2>2 DEF Owned
  <2>6. A!JournalFollowsMission' /\ OwedOrSaved'
    BY <2>1, <2>3 DEF A!JournalFollowsMission, OwedOrSaved
  <2> QED
    BY <1>0, <2>1, <2>2, <2>3, <2>4, <2>5, <2>6 DEF RowsInv, RowsTyped
<1>5. CASE A!BodyFails(b)
  <2>1. /\ UNCHANGED <<row, launched, saved>> /\ A!Finish(b, "failed")
        /\ plan' = IF body[b].pc = "assembling" /\ plan.revision = body[b].revision
                   THEN [plan EXCEPT !.status = "failed"] ELSE plan
    BY <1>5 DEF A!BodyFails, A!talk
  <2>2. /\ body' \in [Bodies -> BodyRows] /\ body'[b].pc \in {"idle", "done", "failed"}
        /\ \A o \in Bodies : o # b => body'[o] = body[o]
    BY <1>a, <2>1, FinishedBody
  <2>3. plan' \in DraftRows /\ plan'.revision = plan.revision
        /\ (plan' = plan \/ (body[b].pc = "assembling" /\ plan'.status = "failed"))
        /\ (plan' = plan /\ plan.status = "launching" =>
              ~(body[b].pc = "assembling" /\ plan.revision = body[b].revision))
    BY <1>0, <2>1 DEF DraftRows
  <2>4. OneBody'
    BY <2>2 DEF RowsInv, OneBody, Holds
  <2>5. Owned'
    <3>1. CASE plan' = plan
      BY <2>1, <2>2, <2>3, <3>1 DEF RowsInv, Owned
    <3>2. CASE body[b].pc = "assembling" /\ plan'.status = "failed"
      <4>1. \A o \in Bodies : body'[o].pc # "assembling"
        BY <2>2, <3>2 DEF RowsInv, OneBody, Holds
      <4> QED
        BY <3>2, <4>1 DEF Owned
    <3> QED
      BY <2>3, <3>1, <3>2
  <2>6. A!JournalFollowsMission' /\ OwedOrSaved'
    BY <2>1 DEF RowsInv, A!JournalFollowsMission, OwedOrSaved
  <2> QED
    BY <1>0, <2>1, <2>2, <2>3, <2>4, <2>5, <2>6 DEF RowsInv, RowsTyped
<1> QED
  BY <1>1, <1>2, <1>3, <1>4, <1>5

\* The planner writes the request when it acknowledges a message, or fails its own generation.
LEMMA PlanStep == ASSUME StartInv, A!Plan PROVE RowsInv'
<1>0. /\ RowsInv /\ row \in RequestRows
      /\ launched \in {"none", "staged", "active", "stopped", "completed"}
  BY DEF StartInv, RowsInv, RowsTyped
<1>1. CASE A!Pump \/ A!OwnerLeaves \/ A!OwnerReturns
  BY <1>0, <1>1, KeptStep DEF A!Pump, A!OwnerLeaves, A!OwnerReturns, A!rows, A!work, A!talk
<1>2. ASSUME NEW d \in deliver, A!Prepare(d) \/ A!Prepared(d) \/ A!Send(d) PROVE RowsInv'
  BY <1>0, <1>2, KeptStep DEF A!Prepare, A!Prepared, A!Send, A!rows, A!work
<1>3. ASSUME NEW d \in deliver, A!Acknowledge(d) PROVE RowsInv'
  <2>1. /\ saved' = saved \cup {A!Message(d)} /\ UNCHANGED <<plan, launched, body>>
        /\ \/ row' = row
           \/ A!Pending(d.kind, d.epoch) /\ d.kind = "planning" /\ row' = [row EXCEPT !.dispatch = FALSE]
           \/ A!Pending(d.kind, d.epoch) /\ d.kind # "planning" /\ row' = [row EXCEPT !.notice = FALSE]
    BY <1>3 DEF A!Acknowledge, A!work
  <2>2. CASE row' = row
    BY <1>0, <2>1, <2>2, KeptStep
  <2>3. CASE d.kind = "planning" /\ row' = [row EXCEPT !.dispatch = FALSE]
    <3>1. /\ row' \in RequestRows /\ row'.status = row.status /\ row'.epoch = row.epoch
          /\ row'.fenced = row.fenced /\ row'.notice = row.notice
      BY <1>0, <2>3, FailedRow
    <3>2. A!JournalFollowsMission' /\ OwedOrSaved'
      BY <1>0, <2>1, <3>1 DEF RowsInv, A!JournalFollowsMission, OwedOrSaved
    <3> QED
      BY <1>0, <2>1, <3>1, <3>2, RequestStep
  <2>4. CASE A!Pending(d.kind, d.epoch) /\ d.kind # "planning" /\ row' = [row EXCEPT !.notice = FALSE]
    <3>1. /\ row' \in RequestRows /\ row'.status = row.status /\ row'.epoch = row.epoch
      BY <1>0, <2>4, FailedRow
    <3>2. row.epoch = d.epoch /\ (row.status = "failed" => d.kind = "failure")
      <4>1. d.kind \in {"command", "planning", "failure"}
        BY DEF StartInv, TalkInv, TalkTyped, Deliveries
      <4> QED
        BY <2>4, <4>1 DEF A!Pending
    <3>3. A!JournalFollowsMission' /\ OwedOrSaved'
      BY <1>0, <2>1, <3>1, <3>2 DEF RowsInv, A!JournalFollowsMission, OwedOrSaved, A!Message
    <3> QED
      BY <1>0, <2>1, <3>1, <3>3, RequestStep
  <2> QED
    BY <2>1, <2>2, <2>3, <2>4
<1>4. ASSUME NEW d \in deliver, A!Superseded(d) \/ A!DeliveryFails(d) PROVE RowsInv'
  BY <1>0, <1>4, KeptStep, FailedStart DEF A!Superseded, A!DeliveryFails
<1>5. ASSUME NEW e \in A!Epochs, A!TurnEnds(e) PROVE RowsInv'
  BY <1>0, <1>5, KeptStep, FailedStart DEF A!TurnEnds
<1> QED
  BY <1>1, <1>2, <1>3, <1>4, <1>5 DEF A!Plan

\* The host dies: no body is left, and no draft reads as launching.
LEMMA RestartRows == ASSUME RowsInv, A!Restart PROVE RowsInv'
<1>0. /\ row \in RequestRows /\ launched \in {"none", "staged", "active", "stopped", "completed"}
      /\ plan \in DraftRows
  BY DEF RowsInv, RowsTyped
<1>1. /\ UNCHANGED <<launched, saved>> /\ body' = [b \in Bodies |-> A!NoBody]
      /\ plan' = IF plan.status = "launching" THEN [plan EXCEPT !.status = "failed"] ELSE plan
  BY DEF A!Restart
<1>2. body' \in [Bodies -> BodyRows] /\ \A b \in Bodies : body'[b].pc = "idle"
  BY <1>1 DEF A!NoBody, BodyRows
<1>3. plan' \in DraftRows /\ plan'.status # "launching" /\ plan'.revision = plan.revision
      /\ (plan'.status = "none" => plan.status = "none")
  BY <1>0, <1>1 DEF DraftRows
<1>4. OneBody' /\ Owned'
  BY <1>2, <1>3 DEF RowsInv, OneBody, Owned, Holds
<1>5. /\ row' \in RequestRows
      /\ \/ row' = row /\ ~A!Ended(launched)
         \/ row'.status = "failed" /\ row'.notice /\ ~A!Ended(launched)
         \/ A!Ended(launched)
            /\ row'.status = IF launched \in {"completed", "stopped"} THEN launched ELSE "running"
  <2>1. CASE A!Ended(launched)
    <3>1. row' = [A!Synced(row, launched) EXCEPT !.dispatch = row.dispatch, !.notice = row.notice]
      BY <2>1 DEF A!Restart
    <3>2. A!Synced(row, launched) \in RequestRows
          /\ A!Synced(row, launched).status = IF launched \in {"completed", "stopped"} THEN launched ELSE "running"
      BY <1>0, SyncedRow
    <3>3. row.dispatch \in BOOLEAN /\ row.notice \in BOOLEAN
      BY <1>0 DEF RequestRows
    <3>4. row' \in RequestRows
      BY <3>1, <3>2, <3>3 DEF RequestRows
    <3>5. row'.status = A!Synced(row, launched).status
      BY <3>1, <3>2 DEF RequestRows
    <3> QED
      BY <2>1, <3>2, <3>4, <3>5
  <2>2. CASE ~A!Ended(launched)
    BY <1>0, <2>2, FailedRow DEF A!Restart
  <2> QED
    BY <2>1, <2>2
<1>6. A!JournalFollowsMission' /\ OwedOrSaved'
  BY <1>0, <1>1, <1>5 DEF RowsInv, A!JournalFollowsMission, OwedOrSaved, A!Ended
<1> QED
  BY <1>0, <1>1, <1>2, <1>3, <1>4, <1>5, <1>6 DEF RowsInv, RowsTyped

\* Deliveries that end, or are new or prepared: the conversation has what it had.
LEMMA TalkKept ==
    ASSUME TalkInv, UNCHANGED <<said, saved>>, deliver' \subseteq Deliveries,
           \A d \in deliver' : d \in deliver \/ d.pc # "flush"
    PROVE  TalkInv'
<1>1. TalkTyped' /\ Said'
  BY DEF TalkInv, TalkTyped, Said, A!Message
<1> QED
  BY <1>1 DEF TalkInv, A!RecoveryToldOnce

LEMMA MovedDelivery ==
    ASSUME NEW d \in Deliveries, NEW pc \in {"prepare", "preparing", "send", "flush"}
    PROVE  LET m == [d EXCEPT !.pc = pc]
           IN  m \in Deliveries /\ m.pc = pc /\ A!Message(m) = A!Message(d)
<1> DEFINE m == [d EXCEPT !.pc = pc]
<1>1. m \in Deliveries /\ m.pc = pc /\ m.kind = d.kind /\ m.epoch = d.epoch
  BY DEF Deliveries
<1> HIDE DEF m
<1>2. A!Message(m) = A!Message(d)
  BY <1>1 DEF A!Message
<1> QED
  BY <1>1, <1>2 DEF m

LEMMA TalkStep == ASSUME StartInv, A!Next PROVE TalkInv'
<1>0. /\ TalkInv /\ deliver \subseteq Deliveries /\ said \in [Messages -> Nat] /\ saved \subseteq Messages
      /\ row \in RequestRows
  BY DEF StartInv, TalkInv, TalkTyped, RowsInv, RowsTyped
<1>1. CASE A!Decide \/ A!Launch
  <2>1. UNCHANGED <<deliver, said, saved>>
    BY <1>1 DEF A!Decide, A!DeadlinePasses, A!Sweep, A!Extend, A!Retry, A!StopRequest, A!ControlMission,
       A!Launch, A!RejectPlan, A!StartPlan, A!CancelCall, A!CallEnds, A!BodyReads, A!BodyAuthorized,
       A!BodyAssembles, A!BodyActivates, A!BodyFails, A!talk
  <2> QED
    BY <1>0, <2>1, TalkKept
<1>2. CASE A!Pump
  <2>1. PICK k \in A!Outbox :
          deliver' = deliver \cup {[kind |-> k, epoch |-> row.epoch,
                                    pc |-> IF k = "planning" THEN "prepare" ELSE "send"]}
    BY <1>2 DEF A!Pump
  <2>2. k \in {"planning", "failure"}
    BY <2>1 DEF A!Outbox
  <2>3. [kind |-> k, epoch |-> row.epoch, pc |-> IF k = "planning" THEN "prepare" ELSE "send"] \in Deliveries
    BY <1>0, <2>2 DEF Deliveries, RequestRows
  <2>4. UNCHANGED <<said, saved>>
    BY <1>2 DEF A!Pump
  <2> QED
    BY <1>0, <2>1, <2>2, <2>3, <2>4, TalkKept
<1>3. ASSUME NEW d \in deliver, A!Prepare(d) \/ A!Prepared(d) PROVE TalkInv'
  <2>1. PICK pc \in {"preparing", "send"} : A!To(d, pc)
    BY <1>3 DEF A!Prepare, A!Prepared
  <2>2. deliver' = (deliver \ {d}) \cup {[d EXCEPT !.pc = pc]} /\ UNCHANGED <<said, saved>>
    BY <1>3, <2>1 DEF A!To, A!Prepare, A!Prepared
  <2>3. [d EXCEPT !.pc = pc] \in Deliveries /\ [d EXCEPT !.pc = pc].pc = pc
    <3>1. d \in Deliveries /\ pc \in {"prepare", "preparing", "send", "flush"}
      BY <1>0
    <3> QED
      BY <3>1, MovedDelivery
  <2> QED
    BY <1>0, <2>2, <2>3, TalkKept
<1>4. ASSUME NEW d \in deliver, A!Send(d) PROVE TalkInv'
  <2> DEFINE msg == A!Message(d)
  <2>1. /\ said' = [said EXCEPT ![msg] = IF d.kind # "command" /\ said[msg] > 0 THEN said[msg] ELSE said[msg] + 1]
        /\ saved' = saved
        /\ deliver' = deliver \ {d} \/ deliver' = (deliver \ {d}) \cup {[d EXCEPT !.pc = "flush"]}
    BY <1>4 DEF A!Send, A!Drop, A!To
  <2>2. [d EXCEPT !.pc = "flush"] \in Deliveries /\ A!Message([d EXCEPT !.pc = "flush"]) = msg
    BY <1>0, MovedDelivery
  <2>3. msg \in Messages /\ (d.kind = "command" => \A e \in 1..MaxEpoch : msg # <<"failure", e>>)
    BY <1>0 DEF Deliveries, Messages, A!Message
  <2> HIDE DEF msg
  <2>4. /\ said' \in [Messages -> Nat] /\ said'[msg] > 0
        /\ \A m \in Messages : said'[m] >= said[m] /\ (m # msg => said'[m] = said[m])
        /\ d.kind # "command" /\ said[msg] <= 1 => said'[msg] <= 1
    BY <1>0, <2>1, <2>3
  <2>5. \A x \in deliver : A!Message(x) \in Messages
    BY <1>0 DEF Deliveries, Messages, A!Message
  <2>6. TalkTyped'
    BY <1>0, <2>1, <2>2, <2>4 DEF TalkTyped
  <2>7. Said'
    <3>1. \A m \in saved : said'[m] > 0
      BY <1>0, <2>4 DEF TalkInv, Said
    <3>2. \A x \in deliver : x.pc = "flush" => said'[A!Message(x)] > 0
      BY <1>0, <2>4, <2>5 DEF TalkInv, Said
    <3>3. \A x \in deliver' : x.pc = "flush" => said'[A!Message(x)] > 0
      BY <2>1, <2>2, <2>4, <3>2
    <3> QED
      BY <2>1, <3>1, <3>3 DEF Said, A!Message
  <2>8. A!RecoveryToldOnce'
    <3> SUFFICES ASSUME NEW e \in 1..MaxEpoch PROVE said'[<<"failure", e>>] <= 1
      BY DEF A!RecoveryToldOnce, A!Epochs
    <3>1. <<"failure", e>> \in Messages /\ said[<<"failure", e>>] <= 1
      BY <1>0 DEF Messages, TalkInv, A!RecoveryToldOnce, A!Epochs
    <3> QED
      BY <2>3, <2>4, <3>1
  <2> QED
    BY <2>6, <2>7, <2>8 DEF TalkInv
<1>5. ASSUME NEW d \in deliver, A!Acknowledge(d) PROVE TalkInv'
  <2>1. /\ d.pc = "flush" /\ saved' = saved \cup {A!Message(d)} /\ deliver' = deliver \ {d}
        /\ said' = said
    BY <1>5 DEF A!Acknowledge, A!Drop
  <2>2. A!Message(d) \in Messages /\ said[A!Message(d)] > 0
    BY <1>0, <2>1 DEF Deliveries, Messages, A!Message, TalkInv, Said
  <2>3. TalkTyped' /\ Said'
    BY <1>0, <2>1, <2>2 DEF TalkInv, TalkTyped, Said, A!Message
  <2> QED
    BY <1>0, <2>1, <2>3 DEF TalkInv, A!RecoveryToldOnce
<1>6. ASSUME NEW d \in deliver, A!Superseded(d) \/ A!DeliveryFails(d) PROVE TalkInv'
  BY <1>0, <1>6, TalkKept DEF A!Superseded, A!DeliveryFails, A!Drop
<1>7. ASSUME A!OwnerLeaves \/ A!OwnerReturns \/ \E e \in A!Epochs : A!TurnEnds(e) PROVE TalkInv'
  BY <1>0, <1>7, TalkKept DEF A!OwnerLeaves, A!OwnerReturns, A!TurnEnds, A!talk
<1>8. CASE A!Restart
  <2>1. /\ deliver' = {} /\ saved' = saved
        /\ said' = [m \in Messages |-> IF m \in saved THEN said[m] ELSE 0]
    BY <1>0, <1>8 DEF A!Restart
  <2>2. TalkTyped' /\ Said'
    BY <1>0, <2>1 DEF TalkInv, TalkTyped, Said
  <2>3. A!RecoveryToldOnce'
    <3> SUFFICES ASSUME NEW e \in 1..MaxEpoch PROVE said'[<<"failure", e>>] <= 1
      BY DEF A!RecoveryToldOnce, A!Epochs
    <3>1. <<"failure", e>> \in Messages /\ said[<<"failure", e>>] <= 1
      BY <1>0 DEF Messages, TalkInv, A!RecoveryToldOnce, A!Epochs
    <3> QED
      BY <2>1, <3>1
  <2> QED
    BY <2>2, <2>3 DEF TalkInv
<1> QED
  BY <1>1, <1>2, <1>3, <1>4, <1>5, <1>6, <1>7, <1>8 DEF A!Next, A!Plan

LEMMA RequestInv == ASSUME StartInv, A!Next PROVE StartInv'
<1>0. RowsInv
  BY DEF StartInv
<1>1. ASSUME A!Decide PROVE RowsInv'
  BY <1>0, <1>1, DecideStep
<1>2. ASSUME A!Launch PROVE RowsInv'
  BY <1>0, <1>2, CallStep, BodyStep DEF A!Launch
<1>3. ASSUME A!Plan PROVE RowsInv'
  BY <1>3, PlanStep
<1>4. ASSUME A!Restart PROVE RowsInv'
  BY <1>0, <1>4, RestartRows
<1>5. RowsInv'
  BY <1>1, <1>2, <1>3, <1>4 DEF A!Next
<1> QED
  BY <1>5, TalkStep DEF StartInv

LEMMA RequestStutters == ASSUME StartInv, UNCHANGED startVars PROVE StartInv'
<1>0. /\ RowsInv /\ TalkInv /\ deliver \subseteq Deliveries
      /\ UNCHANGED <<row, plan, launched, body, deliver, said, saved>>
  BY DEF StartInv, TalkInv, TalkTyped, startVars
<1>1. RowsInv'
  BY <1>0, KeptStep
<1>2. TalkInv'
  BY <1>0, TalkKept
<1> QED
  BY <1>1, <1>2 DEF StartInv

\* What is left of an assembly whose generation is over finds a draft that has gone past it.
LEMMA FailureKeepsOff ==
    ASSUME RowsInv, A!FailStart, launched' = launched, row' = row,
           NEW b \in Bodies, body[b].pc = "assembling", body[b].epoch # row.epoch
    PROVE  plan' = plan
<1>0. plan \in DraftRows /\ body[b].revision \in Nat
  BY DEF RowsInv, RowsTyped, BodyRows
<1>1. plan.revision > body[b].revision
  BY DEF RowsInv, Owned
<1>2. ASSUME NEW o \in Bodies, body[o].pc = "assembling" PROVE o = b
  BY <1>2 DEF RowsInv, OneBody, Holds
<1>3. plan.status # "launching"
  BY <1>0, <1>1, <1>2 DEF RowsInv, Owned, DraftRows
<1> QED
  BY <1>0, <1>3, FencedRow DEF A!FailStart

LEMMA KeepsOff == ASSUME StartInv, A!Next PROVE A!SupersededKeepsOff
<1> SUFFICES ASSUME NEW b \in Bodies, body[b].pc = "assembling", body[b].epoch # row.epoch,
                    body'[b] # body[b], row' = row
             PROVE  plan' = plan /\ launched' = launched
  BY DEF A!SupersededKeepsOff
<1>0. /\ RowsInv /\ row \in RequestRows /\ plan \in DraftRows /\ body \in [Bodies -> BodyRows]
  BY DEF StartInv, RowsInv, RowsTyped
<1>1. CASE A!Decide
  <2>1. CASE A!DeadlinePasses \/ A!Extend \/ A!ControlMission
    BY <2>1 DEF A!DeadlinePasses, A!Extend, A!ControlMission, A!work
  <2>2. CASE A!Sweep
    BY <1>0, <2>2, FailureKeepsOff DEF A!Sweep
  <2>3. CASE A!Retry \/ A!StopRequest
    <3>1. row'.epoch = row.epoch + 1
      BY <1>0, <2>3 DEF A!Retry, A!StopRequest, RequestRows
    <3> QED
      BY <1>0, <3>1 DEF RequestRows
  <2> QED
    BY <1>1, <2>1, <2>2, <2>3 DEF A!Decide
<1>2. CASE A!Launch
  <2>1. ASSUME NEW e \in A!Epochs, A!RejectPlan(e) PROVE FALSE
    BY <2>1 DEF A!RejectPlan, A!work
  <2>2. ASSUME NEW e \in A!Epochs, NEW o \in Bodies, A!StartPlan(e, o) PROVE FALSE
    BY <1>0, <2>2 DEF A!StartPlan, A!NoBody
  <2>3. CASE A!CancelCall \/ A!CallEnds
    BY <2>3 DEF A!CancelCall, A!CallEnds, A!rows
  <2>4. ASSUME NEW o \in Bodies, A!BodyReads(o) \/ A!BodyAuthorized(o) PROVE plan' = plan /\ launched' = launched
    BY <2>4 DEF A!BodyReads, A!BodyAuthorized, A!rows
  <2>5. ASSUME NEW o \in Bodies, A!BodyAssembles(o) PROVE FALSE
    <3>1. o # b /\ Holds(o) /\ Holds(b)
      BY <2>5 DEF A!BodyAssembles, Holds
    <3> QED
      BY <1>0, <3>1 DEF RowsInv, OneBody
  <2>6. ASSUME NEW o \in Bodies, A!BodyActivates(o) PROVE FALSE
    <3>1. Holds(o) /\ Holds(b) /\ body[o].epoch = row.epoch
      BY <2>6 DEF A!BodyActivates, A!Current, Holds
    <3> QED
      BY <1>0, <3>1 DEF RowsInv, OneBody
  <2>7. ASSUME NEW o \in Bodies, A!BodyFails(o) PROVE plan' = plan /\ launched' = launched
    <3>1. body[o].pc # "assembling" \/ o = b
      BY <1>0 DEF RowsInv, OneBody, Holds
    <3>2. plan.revision > body[b].revision
      BY <1>0 DEF RowsInv, Owned
    <3>3. plan.revision \in Nat /\ body[b].revision \in Nat
      BY <1>0 DEF DraftRows, BodyRows
    <3> QED
      BY <2>7, <3>1, <3>2, <3>3 DEF A!BodyFails
  <2> QED
    BY <1>2, <2>1, <2>2, <2>3, <2>4, <2>5, <2>6, <2>7 DEF A!Launch
<1>3. CASE A!Plan
  <2>1. CASE A!Pump \/ A!OwnerLeaves \/ A!OwnerReturns
    BY <2>1 DEF A!Pump, A!OwnerLeaves, A!OwnerReturns, A!rows
  <2>2. ASSUME NEW d \in deliver, A!Prepare(d) \/ A!Prepared(d) \/ A!Send(d) \/ A!Acknowledge(d)
        PROVE  plan' = plan /\ launched' = launched
    BY <2>2 DEF A!Prepare, A!Prepared, A!Send, A!Acknowledge, A!rows
  <2>3. ASSUME NEW d \in deliver, A!Superseded(d) \/ A!DeliveryFails(d) PROVE plan' = plan /\ launched' = launched
    BY <1>0, <2>3, FailureKeepsOff DEF A!Superseded, A!DeliveryFails
  <2>4. ASSUME NEW e \in A!Epochs, A!TurnEnds(e) PROVE plan' = plan /\ launched' = launched
    BY <1>0, <2>4, FailureKeepsOff DEF A!TurnEnds
  <2> QED
    BY <1>3, <2>1, <2>2, <2>3, <2>4 DEF A!Plan
<1>4. CASE A!Restart
  <2>1. launched' = launched
    BY <1>4 DEF A!Restart
  <2>2. plan.status # "launching"
    <3>1. plan.revision > body[b].revision /\ plan.revision \in Nat /\ body[b].revision \in Nat
      BY <1>0 DEF RowsInv, Owned, DraftRows, BodyRows
    <3>2. \A o \in Bodies : body[o].pc = "assembling" => o = b
      BY <1>0 DEF RowsInv, OneBody, Holds
    <3> QED
      BY <1>0, <3>1, <3>2 DEF RowsInv, Owned
  <2> QED
    BY <1>4, <2>1, <2>2 DEF A!Restart
<1> QED
  BY <1>1, <1>2, <1>3, <1>4 DEF A!Next

\* FailureIsTold, of any assemblies, epochs and bounds: the request follows its mission, a
\* request that failed is owed its recovery message or its owner has it, and has it once,
\* whatever is sent again, flushed or lost with the host; and what is left of an assembly a
\* decision superseded writes neither the draft nor the mission (failStart, fenceStartDraft,
\* ackStartMessage, the catch of launchDraft).
THEOREM FailuresAreTold == LaunchesSpec => FailureIsTold
<1>1. LaunchesInit => StartInv
  BY StartInvInit DEF LaunchesInit
<1>2. StartInv /\ [LaunchesNext]_<<part, vars, draftVars, startVars>> => StartInv'
  BY RequestInv, RequestStutters DEF LaunchesNext
<1>3. StartInv => (part = "request" =>
         A!JournalFollowsMission /\ A!FailureIsTold /\ A!RecoveryToldOnce)
  <2> SUFFICES ASSUME StartInv PROVE A!FailureIsTold
    BY DEF StartInv, RowsInv, TalkInv
  <2> QED
    BY DEF StartInv, RowsInv, TalkInv, OwedOrSaved, Said, A!FailureIsTold
<1>4. StartInv /\ [LaunchesNext]_<<part, vars, draftVars, startVars>>
        => [part = "request" => A!SupersededKeepsOff]_<<part, startVars>>
  BY KeepsOff DEF LaunchesNext
<1> QED
  BY <1>1, <1>2, <1>3, <1>4, PTL DEF LaunchesSpec, FailureIsTold

\* A stopped request has no mission that runs, or may come to run.
StoppedHasNone == row.status = "stopped" => launched \in {"none", "stopped"}

LEMMA StoppedRow ==
    ASSUME RowsInv, StoppedHasNone, A!Next
    PROVE  StoppedHasNone' /\ (row.status = "stopped" => row'.status = "stopped")
<1>0. /\ row \in RequestRows /\ launched \in {"none", "staged", "active", "stopped", "completed"}
      /\ launched = "active" <=> row.status = "running"
      /\ launched \in {"stopped", "completed"} => row.status = launched
  BY DEF RowsInv, RowsTyped, A!JournalFollowsMission
<1> DEFINE Goal == StoppedHasNone' /\ (row.status = "stopped" => row'.status = "stopped")
<1>1. ASSUME UNCHANGED <<row, launched>> PROVE Goal
  BY <1>1 DEF StoppedHasNone
<1>2. ASSUME A!Ended(launched), launched' = launched, row'.status = A!Synced(row, launched).status
      PROVE  Goal
  BY <1>0, <1>2, SyncedRow DEF A!Ended, StoppedHasNone
<1>3. ASSUME row.status # "stopped", row'.status # "stopped" PROVE Goal
  BY <1>3 DEF StoppedHasNone
<1>4. ASSUME A!FailStart, launched' = launched PROVE Goal
  <2>1. CASE A!Ended(launched) /\ row' = A!Synced(row, launched)
    BY <1>2, <1>4, <2>1
  <2>2. CASE UNCHANGED row
    BY <1>1, <1>4, <2>2
  <2>3. CASE row.status # "stopped"
             /\ row' = [row EXCEPT !.status = "failed", !.fenced = TRUE, !.notice = TRUE, !.dispatch = FALSE]
    BY <1>0, <1>3, <2>3, FailedRow
  <2> QED
    BY <1>4, <2>1, <2>2, <2>3 DEF A!FailStart
<1>5. ASSUME A!Decide PROVE Goal
  <2>1. CASE A!DeadlinePasses \/ A!Extend
    BY <1>1, <2>1 DEF A!DeadlinePasses, A!Extend
  <2>2. CASE A!Sweep
    BY <1>4, <2>2 DEF A!Sweep
  <2>3. CASE A!Retry
    <3>1. row.status = "failed" /\ row'.status = "planning"
      BY <1>0, <2>3 DEF A!Retry, RequestRows
    <3> QED
      BY <1>3, <3>1
  <2>4. CASE A!StopRequest
    <3>1. row.status # "stopped" /\ launched' \in {"none", "stopped"}
      BY <1>0, <2>4 DEF A!StopRequest, A!Ended
    <3> QED
      BY <3>1 DEF StoppedHasNone
  <2>5. CASE A!ControlMission
    <3>1. PICK m \in {"stopped", "completed"} : /\ launched \in {"active", "staged"}
                                                /\ launched' = m /\ row' = A!Synced(row, m)
      BY <2>5 DEF A!ControlMission
    <3>2. row'.status = m
      BY <1>0, <3>1, SyncedRow
    <3> QED
      BY <1>0, <3>1, <3>2 DEF StoppedHasNone
  <2> QED
    BY <1>5, <2>1, <2>2, <2>3, <2>4, <2>5 DEF A!Decide
<1>6. ASSUME A!Launch PROVE Goal
  <2>1. ASSUME NEW e \in A!Epochs, A!RejectPlan(e) \/ \E b \in Bodies : A!StartPlan(e, b) PROVE Goal
    <3>1. row.status # "stopped" /\ row'.status # "stopped"
      BY <1>0, <2>1, FailedRow DEF A!RejectPlan, A!StartPlan, A!Launchable
    <3> QED
      BY <1>3, <3>1
  <2>2. CASE A!CancelCall \/ \E b \in Bodies : A!BodyReads(b) \/ A!BodyAuthorized(b) \/ A!BodyFails(b)
    BY <1>1, <2>2 DEF A!CancelCall, A!BodyReads, A!BodyAuthorized, A!BodyFails, A!rows
  <2>3. CASE A!CallEnds
    <3>1. CASE A!Ended(launched)
      BY <1>2, <2>3, <3>1 DEF A!CallEnds
    <3>2. CASE ~A!Ended(launched) /\ UNCHANGED row
      BY <1>1, <2>3, <3>2 DEF A!CallEnds
    <3>3. CASE row.status # "stopped" /\ row' = [row EXCEPT !.status = "failed"]
      BY <1>0, <1>3, <3>3, FailedRow
    <3> QED
      BY <2>3, <3>1, <3>2, <3>3 DEF A!CallEnds
  <2>4. ASSUME NEW b \in Bodies, A!BodyAssembles(b) PROVE Goal
    <3>1. row.status # "stopped" /\ row' = row
      BY <2>4 DEF A!BodyAssembles, A!Current
    <3> QED
      BY <1>3, <3>1
  <2>5. ASSUME NEW b \in Bodies, A!BodyActivates(b) PROVE Goal
    <3>1. row.status # "stopped" /\ row' = A!Synced(row, "active")
      BY <2>5 DEF A!BodyActivates, A!Current
    <3>2. row'.status = "running"
      BY <1>0, <3>1, SyncedRow
    <3> QED
      BY <1>3, <3>1, <3>2
  <2> QED
    BY <1>6, <2>1, <2>2, <2>3, <2>4, <2>5 DEF A!Launch
<1>7. ASSUME A!Plan PROVE Goal
  <2>1. CASE A!Pump \/ A!OwnerLeaves \/ A!OwnerReturns
             \/ \E d \in deliver : A!Prepare(d) \/ A!Prepared(d) \/ A!Send(d)
    BY <1>1, <2>1 DEF A!Pump, A!OwnerLeaves, A!OwnerReturns, A!Prepare, A!Prepared, A!Send, A!rows
  <2>2. ASSUME NEW d \in deliver, A!Acknowledge(d) PROVE Goal
    <3>1. /\ launched' = launched
          /\ \/ row' = row \/ row' = [row EXCEPT !.dispatch = FALSE] \/ row' = [row EXCEPT !.notice = FALSE]
      BY <2>2 DEF A!Acknowledge
    <3>2. CASE row' = row
      BY <1>1, <3>1, <3>2
    <3>3. CASE row' = [row EXCEPT !.dispatch = FALSE]
      <4>1. row'.status = row.status
        BY <1>0, <3>3, FailedRow
      <4> QED
        BY <3>1, <4>1 DEF StoppedHasNone
    <3>4. CASE row' = [row EXCEPT !.notice = FALSE]
      <4>1. row'.status = row.status
        BY <1>0, <3>4, FailedRow
      <4> QED
        BY <3>1, <4>1 DEF StoppedHasNone
    <3> QED
      BY <3>1, <3>2, <3>3, <3>4
  <2>3. ASSUME NEW d \in deliver, A!Superseded(d) \/ A!DeliveryFails(d) PROVE Goal
    BY <1>1, <1>4, <2>3 DEF A!Superseded, A!DeliveryFails
  <2>4. ASSUME NEW e \in A!Epochs, A!TurnEnds(e) PROVE Goal
    BY <1>1, <1>4, <2>4 DEF A!TurnEnds
  <2> QED
    BY <1>7, <2>1, <2>2, <2>3, <2>4 DEF A!Plan
<1>8. ASSUME A!Restart PROVE Goal
  <2>1. CASE A!Ended(launched)
    <3>1. row' = [A!Synced(row, launched) EXCEPT !.dispatch = row.dispatch, !.notice = row.notice]
      BY <1>8, <2>1 DEF A!Restart
    <3>2. A!Synced(row, launched) \in RequestRows
      BY <1>0, SyncedRow
    <3>3. row'.status = A!Synced(row, launched).status
      BY <3>1, <3>2 DEF RequestRows
    <3> QED
      BY <1>2, <1>8, <2>1, <3>3 DEF A!Restart
  <2>2. CASE ~A!Ended(launched) /\ row.status \notin A!Busy
    BY <1>1, <1>8, <2>2 DEF A!Restart
  <2>3. CASE ~A!Ended(launched) /\ row.status \in A!Busy
    <3>1. row' = [row EXCEPT !.status = "failed", !.notice = TRUE, !.dispatch = FALSE]
      BY <1>8, <2>3 DEF A!Restart
    <3>2. row.status # "stopped" /\ row'.status = "failed"
      BY <1>0, <2>3, <3>1, FailedRow DEF A!Busy
    <3> QED
      BY <1>3, <3>2
  <2> QED
    BY <2>1, <2>2, <2>3
<1> QED
  BY <1>5, <1>6, <1>7, <1>8 DEF A!Next

\* StopIsFinal, of the same: the owner's stop of a request is for good, and what it
\* interrupted never makes a mission of it (controlStart, assertCurrent of launchDraft).
THEOREM StoppedRequestsStay == LaunchesSpec => A!StopIsFinal
<1>1. LaunchesInit => StartInv /\ StoppedHasNone
  <2>1. LaunchesInit => row.status = "planning"
    BY DEF LaunchesInit, A!Init
  <2> QED
    BY <2>1, StartInvInit DEF LaunchesInit, StoppedHasNone
<1>2. StartInv /\ StoppedHasNone /\ [LaunchesNext]_<<part, vars, draftVars, startVars>>
        => /\ StartInv' /\ StoppedHasNone'
           /\ row.status = "stopped" => row'.status = "stopped"
  <2> SUFFICES ASSUME StartInv, StoppedHasNone, [LaunchesNext]_<<part, vars, draftVars, startVars>>
               PROVE  /\ StartInv' /\ StoppedHasNone'
                      /\ row.status = "stopped" => row'.status = "stopped"
    OBVIOUS
  <2>1. CASE A!Next
    BY <2>1, RequestInv, StoppedRow DEF StartInv
  <2>2. CASE UNCHANGED startVars
    <3>1. UNCHANGED <<row, launched>>
      BY <2>2 DEF startVars
    <3> QED
      BY <2>2, <3>1, RequestStutters DEF StoppedHasNone
  <2> QED
    BY <2>1, <2>2 DEF LaunchesNext
<1>3. StoppedHasNone' /\ (row.status = "stopped" => row'.status = "stopped")
        => [row.status = "stopped" => row'.status = "stopped" /\ launched' \in {"none", "stopped"}]_<<row, launched>>
  BY DEF StoppedHasNone
<1> QED
  BY <1>1, <1>2, <1>3, PTL DEF LaunchesSpec, A!StopIsFinal
=============================================================================
