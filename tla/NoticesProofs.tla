---------------------------- MODULE NoticesProofs ----------------------------
(***************************************************************************)
(* What a mission tells its owner, for any questions, answers, facts,      *)
(* deliveries, missions, pumps and bounds.                                 *)
(*                                                                         *)
(* The reply protocol (OwnerQuestions): an answer waits in the outbox      *)
(* once, a receipt is settled once, and the owner's turn is held to        *)
(* account for what it saw and no more.  The turn's account needs every    *)
(* open question it saw to be booked at every step of the turn and nothing *)
(* else to be, and so that a question that was not yet asked is on no      *)
(* record and that what is on record stays there.  That an answer is       *)
(* queued needs that a mission which is over never runs again.             *)
(*                                                                         *)
(* The ledger (NoticeLedger): a fact is told under one delivery.  That     *)
(* needs a reminder to carry the number it spends, above every number      *)
(* told, and a delivery that takes further facts not to have been handed   *)
(* over; that a covered fact stays quiet needs that only what was handed   *)
(* over is reminded.                                                       *)
(*                                                                         *)
(* The outbox (OutboxPump): a request is answered by a sweep that starts   *)
(* after it.  That needs the current pump, once no start is pending, to    *)
(* sweep again or to have every requested row ahead of it, which a walk    *)
(* up to the row it tries keeps and a walk to the end empties.             *)
(***************************************************************************)
EXTENDS MCNotices, TLAPS

\* What the ledger keeps of a question.
Ledger ==
    [state : {"none", "open", "answered", "dismissed", "posted"}, host : BOOLEAN,
     delivered : BOOLEAN, consumed : BOOLEAN, nudges : 0..MaxNudges, terminal : BOOLEAN]

QInv ==
    /\ TypeOK
    /\ AnswerQueuedOnce
    /\ SeenIsBooked
    /\ \A q \in bookings : Saw(q)
    /\ \A q \in onRecord : OnRecord(q)
    /\ \A q \in Questions : asked[q].state = "none" => ~Saw(q) /\ ~asked[q].host /\ ~OnRecord(q)

LEMMA QInvInit == Init => QInv
<1> SUFFICES ASSUME Init PROVE QInv
  OBVIOUS
<1>1. Unasked \in Ledger
  BY QuestionBounds DEF Unasked, Ledger
<1>2. asked \in [Questions -> Ledger] /\ left \in 0..MaxControls
  BY <1>1, QuestionBounds DEF Init
<1>3. AnswerQueuedOnce
  BY DEF Init, AnswerQueuedOnce, Unasked
<1>4. replies \in [Questions -> [Contents -> 0..2]]
  BY DEF Init
<1>5. /\ status \in {"active", "blocked", "paused", "stopped", "completed"} /\ turn = "none"
      /\ bookings = {} /\ admitted = {} /\ onRecord = {}
  BY DEF Init
<1>6. \A q \in Questions : asked[q] = Unasked
  BY DEF Init
<1> QED
  BY <1>2, <1>3, <1>4, <1>5, <1>6 DEF QInv, TypeOK, Ledger, SeenIsBooked, Saw, OnRecord, Unasked

\* The receipts, with their type under one name.
LEMMA LedgerType ==
    /\ QInv => asked \in [Questions -> Ledger]
    /\ QInv => \A q \in Questions : asked[q] \in Ledger
  BY DEF QInv, TypeOK, Ledger

\* Between two messages of a turn no settled question is reopened, nothing is taken off
\* the record, and a question is on no record before it is asked; then what the turn saw
\* is still what is booked.
RecordKept(q) ==
    /\ asked'[q].state = "open" => asked[q].state \in {"open", "none"}
    /\ OnRecord(q) => OnRecord(q)'
    /\ asked'[q].state = "none" =>
        asked[q].state = "none" /\ asked'[q].host = asked[q].host /\ (OnRecord(q)' => OnRecord(q))

LEMMA TypedNext ==
    ASSUME QInv, asked' \in [Questions -> Ledger], UNCHANGED <<status, left>>,
           replies' \in [Questions -> [Contents -> 0..2]],
           turn' \in {"none", "running", "completed", "failed"}, bookings' \subseteq Questions,
           admitted' \subseteq Questions, onRecord' \subseteq Questions
    PROVE  TypeOK'
  BY DEF QInv, TypeOK, Ledger

LEMMA LedgerTypeNext ==
    ASSUME QInv, asked' \in [Questions -> Ledger], AnswerQueuedOnce', \A q \in Questions : RecordKept(q),
           UNCHANGED <<status, turn, bookings, admitted, onRecord, left>>,
           replies' \in [Questions -> [Contents -> 0..2]]
    PROVE  QInv'
<1>1. TypeOK'
  BY TypedNext DEF QInv, TypeOK
<1>2. SeenIsBooked'
  BY DEF QInv, SeenIsBooked, Saw, Open, RecordKept
<1>3. \A q \in bookings' : Saw(q)'
  BY DEF QInv, Saw
<1>4. \A q \in onRecord' : OnRecord(q)'
  BY DEF QInv, RecordKept, TypeOK
<1>5. \A q \in Questions : asked'[q].state = "none" => ~Saw(q)' /\ ~asked'[q].host /\ ~OnRecord(q)'
  BY DEF QInv, RecordKept, Saw
<1> QED
  BY <1>1, <1>2, <1>3, <1>4, <1>5 DEF QInv

\* A step that ends the turn leaves nothing booked.
LEMMA EndedNext ==
    ASSUME QInv, asked' \in [Questions -> Ledger], AnswerQueuedOnce', UNCHANGED <<status, replies, left>>,
           \A q \in Questions : RecordKept(q), turn' \in {"none", "running", "completed", "failed"},
           bookings' = {}, admitted' = {}, onRecord' = {}
    PROVE  QInv'
<1>1. TypeOK'
  BY TypedNext DEF QInv, TypeOK
<1>2. SeenIsBooked' /\ (\A q \in bookings' : Saw(q)') /\ (\A q \in onRecord' : OnRecord(q)')
  BY DEF SeenIsBooked, Saw
<1>3. \A q \in Questions : asked'[q].state = "none" => ~Saw(q)' /\ ~asked'[q].host /\ ~OnRecord(q)'
  BY DEF QInv, RecordKept, Saw
<1> QED
  BY <1>1, <1>2, <1>3 DEF QInv

\* A question's next receipt.
LEMMA ReceiptOf ==
    ASSUME QInv, NEW q \in Questions, NEW s \in {"answered", "dismissed", "posted"}, Receipt(q, s)
    PROVE  /\ asked' \in [Questions -> Ledger]
           /\ \A k \in Questions : /\ asked'[k].nudges = asked[k].nudges
                                   /\ asked'[k].terminal = asked[k].terminal
           /\ \A k \in Questions \ {q} : asked'[k] = asked[k]
           /\ asked'[q].state = IF Open(q) THEN s ELSE asked[q].state
           /\ \A k \in Questions : RecordKept(k)
<1>1. CASE Open(q)
  <2>1. asked' = [asked EXCEPT ![q].state = s]
    BY <1>1 DEF Receipt
  <2> QED
    BY <1>1, <2>1, LedgerType DEF Ledger, Open, RecordKept, OnRecord
<1>2. CASE ~Open(q)
  BY <1>2, LedgerType DEF Receipt, RecordKept, OnRecord, Ledger
<1> QED
  BY <1>1, <1>2

\* Whatever a step leaves of a settled receipt and of the replies, the answers stay queued.
LEMMA StillQueued ==
    ASSUME QInv, UNCHANGED replies, Over => Over',
           \A q \in Questions : asked'[q].state = "answered" => asked[q].state = "answered"
    PROVE  AnswerQueuedOnce'
  BY DEF QInv, AnswerQueuedOnce

LEMMA AskStep == ASSUME QInv, NEW q \in Questions, Ask(q) PROVE QInv'
<1>1. asked' \in [Questions -> Ledger]
  BY LedgerType DEF Ask, Ledger
<1>2. \A k \in Questions : asked'[k].state = "answered" => asked[k].state = "answered"
  BY LedgerType DEF Ask, Ledger
<1>3. AnswerQueuedOnce'
  BY <1>2, StillQueued DEF Ask, Over
<1>4. \A k \in Questions : RecordKept(k)
  BY LedgerType DEF Ask, Ledger, RecordKept, OnRecord
<1> QED
  BY <1>1, <1>3, <1>4, LedgerTypeNext DEF Ask, QInv, TypeOK

LEMMA DeliverStep == ASSUME QInv, NEW q \in Questions, Deliver(q) PROVE QInv'
<1>0. PICK acknowledged \in BOOLEAN :
        asked' = [asked EXCEPT ![q] = [[@ EXCEPT !.host = TRUE] EXCEPT !.delivered = acknowledged]]
  BY LedgerType DEF Deliver
<1>1. asked' \in [Questions -> Ledger]
  BY <1>0, LedgerType DEF Ledger
<1>2. \A k \in Questions : asked'[k].state = asked[k].state
  BY <1>0, LedgerType DEF Ledger
<1>3. AnswerQueuedOnce'
  BY <1>2, StillQueued DEF Deliver, Over
<1>4. \A k \in Questions : RecordKept(k)
  BY <1>0, LedgerType DEF Deliver, Ledger, RecordKept, OnRecord, Open
<1> QED
  BY <1>1, <1>3, <1>4, LedgerTypeNext DEF Deliver, QInv, TypeOK

\* An admission books what the message came after, and keeps what the messages before it
\* booked: of what they saw, what is open now was open then.
LEMMA AdmitStep == ASSUME QInv, NEW a \in SUBSET Questions, Admit(a) PROVE QInv'
<1>1. PICK recorded \in SUBSET a : asked' = [q \in Questions |->
          IF q \in recorded THEN [asked[q] EXCEPT !.consumed = TRUE] ELSE asked[q]]
  BY DEF Admit
<1>2. asked' \in [Questions -> Ledger]
  BY <1>1, LedgerType DEF Ledger
<1>3. \A k \in Questions : asked'[k].state = asked[k].state
  BY <1>1, LedgerType DEF Ledger
<1>4. \A k \in Questions : /\ asked'[k].host = asked[k].host /\ (OnRecord(k) => OnRecord(k)')
                           /\ OnRecord(k)' => OnRecord(k) \/ k \in a
  BY <1>1, LedgerType DEF Ledger, OnRecord
<1>5. TypeOK'
  BY <1>2, TypedNext DEF Admit, Books, Booked, QInv, TypeOK
<1>6. AnswerQueuedOnce'
  BY <1>3, StillQueued DEF Admit, Over
<1>7. \A k \in a : asked[k].host
  BY DEF Admit
<1>8. CASE Watched
  <2>1. bookings' = bookings \cup Booked(a) /\ admitted' = admitted \cup a
        /\ onRecord' = {k \in Questions : OnRecord(k)}
    BY <1>8 DEF Admit, Books
  <2>2. SeenIsBooked'
    BY <1>3, <2>1 DEF QInv, SeenIsBooked, Saw, Open, Booked
  <2>3. \A k \in bookings' : Saw(k)'
    BY <2>1 DEF QInv, TypeOK, Saw, Booked
  <2>4. \A k \in onRecord' : OnRecord(k)'
    BY <1>4, <2>1
  <2>5. \A k \in Questions : asked'[k].state = "none" => ~Saw(k)' /\ ~asked'[k].host /\ ~OnRecord(k)'
    BY <1>3, <1>4, <1>7, <2>1 DEF QInv, Saw
  <2> QED
    BY <1>5, <1>6, <2>2, <2>3, <2>4, <2>5 DEF QInv
<1>9. CASE ~Watched
  <2>1. UNCHANGED <<bookings, admitted, onRecord>>
    BY <1>9 DEF Admit, Books
  <2>2. SeenIsBooked' /\ (\A k \in bookings' : Saw(k)')
    BY <1>3, <2>1 DEF QInv, SeenIsBooked, Saw, Open
  <2>3. \A k \in onRecord' : OnRecord(k)'
    BY <1>4, <2>1 DEF QInv, TypeOK
  <2>4. \A k \in Questions : asked'[k].state = "none" => ~Saw(k)' /\ ~asked'[k].host /\ ~OnRecord(k)'
    BY <1>3, <1>4, <1>7, <2>1 DEF QInv, Saw
  <2> QED
    BY <1>5, <1>6, <2>2, <2>3, <2>4 DEF QInv
<1> QED
  BY <1>8, <1>9

\* A miss is a nudge while any is left, then the terminal.
LEMMA NudgedOf ==
    ASSUME QInv, NEW q \in Questions
    PROVE  /\ Nudged(q) \in Ledger
           /\ Nudged(q).state = asked[q].state
           /\ Nudged(q).host = asked[q].host
           /\ Nudged(q).delivered = asked[q].delivered /\ Nudged(q).consumed = asked[q].consumed
           /\ Nudged(q).terminal # asked[q].terminal => asked[q].nudges = MaxNudges
           /\ \/ asked[q].nudges < MaxNudges /\ Nudged(q).nudges = asked[q].nudges + 1
              \/ asked[q].nudges = MaxNudges /\ Nudged(q).terminal
<1>1. asked[q] \in Ledger /\ asked[q].nudges \in 0..MaxNudges /\ MaxNudges \in Nat
  BY QuestionBounds, LedgerType DEF Ledger
<1>2. CASE asked[q].nudges >= MaxNudges
  <2>1. Nudged(q) = [asked[q] EXCEPT !.terminal = TRUE]
    BY <1>2 DEF Nudged
  <2>2. asked[q].nudges = MaxNudges
    BY <1>1, <1>2
  <2> QED
    BY <1>1, <2>1, <2>2 DEF Ledger
<1>3. CASE ~(asked[q].nudges >= MaxNudges)
  <2>1. Nudged(q) = [asked[q] EXCEPT !.nudges = @ + 1]
    BY <1>3 DEF Nudged
  <2>2. asked[q].nudges + 1 \in 0..MaxNudges
    BY <1>1, <1>3
  <2> QED
    BY <1>1, <2>1, <2>2 DEF Ledger
<1> QED
  BY <1>2, <1>3

\* The end of a turn, watched or not: what it counts is of the missed questions, and all
\* of them when it completed.
LEMMA Counted ==
    ASSUME QInv, EndTurn
    PROVE  /\ turn = "running" /\ turn' \in {"completed", "failed"}
           /\ bookings' = {} /\ admitted' = {} /\ onRecord' = {} /\ UNCHANGED <<status, replies, left>>
           /\ \E counted \in SUBSET Missed :
                /\ asked' = [q \in Questions |-> IF q \in counted THEN Nudged(q) ELSE asked[q]]
                /\ counted # {} => Watched
                /\ turn' = "completed" /\ Watched => counted = Missed
<1>1. CASE Watched
  <2>1. PICK counted \in SUBSET Missed :
          /\ asked' = [q \in Questions |-> IF q \in counted THEN Nudged(q) ELSE asked[q]]
          /\ turn' = IF counted = Missed THEN "completed" ELSE "failed"
    BY <1>1 DEF EndTurn
  <2> QED
    BY <1>1, <2>1 DEF EndTurn
<1>2. CASE ~Watched
  <2>1. asked' = [q \in Questions |-> IF q \in {} THEN Nudged(q) ELSE asked[q]]
    BY <1>2, LedgerType DEF EndTurn
  <2> QED
    BY <1>2, <2>1 DEF EndTurn
<1> QED
  BY <1>1, <1>2

LEMMA EndTurnStep == ASSUME QInv, EndTurn PROVE QInv'
<1>1. PICK counted \in SUBSET Missed :
        asked' = [q \in Questions |-> IF q \in counted THEN Nudged(q) ELSE asked[q]]
  BY Counted
<1>2. asked' \in [Questions -> Ledger]
  BY <1>1, NudgedOf, LedgerType
<1>3. \A k \in Questions : /\ asked'[k].state = asked[k].state /\ asked'[k].host = asked[k].host
                           /\ asked'[k].delivered = asked[k].delivered /\ asked'[k].consumed = asked[k].consumed
  BY <1>1, NudgedOf
<1>4. \A k \in Questions : RecordKept(k)
  BY <1>3 DEF RecordKept, OnRecord
<1>5. AnswerQueuedOnce'
  BY <1>3, Counted, StillQueued DEF Over
<1> QED
  BY <1>2, <1>4, <1>5, Counted, EndedNext

\* An answer settles the receipt in the commit that queues it.
LEMMA AnswerStep ==
    ASSUME QInv, NEW q \in Questions, NEW c \in Contents, Answer(q, c)
    PROVE  QInv'
<1>1. Receipt(q, "answered") /\ UNCHANGED <<status, turn, bookings, admitted, onRecord, left>>
  BY DEF Answer
<1>2. replies' \in [Questions -> [Contents -> 0..2]]
  BY DEF Answer, QInv, TypeOK
<1>3. AnswerQueuedOnce'
  <2>1. CASE Over
    BY <1>1, <2>1 DEF Answer, QInv, AnswerQueuedOnce, Over
  <2>2. CASE ~Over
    <3>1. replies' = [replies EXCEPT ![q][c] = 1]
      BY <2>2 DEF Answer
    <3>2. /\ \A k \in Questions, d \in Contents : replies'[k][d] = IF k = q /\ d = c THEN 1 ELSE replies[k][d]
          /\ \A k \in Questions \ {q} : asked'[k] = asked[k]
      BY <1>1, <3>1, ReceiptOf DEF QInv, TypeOK
    <3>3. \A k \in Questions, d \in Contents : replies'[k][d] <= 1
      BY <3>2 DEF QInv, AnswerQueuedOnce
    <3>4. \A k \in Questions : asked'[k].state = "answered" => \E d \in Contents : replies'[k][d] > 0
      BY <2>2, <3>2 DEF QInv, AnswerQueuedOnce
    <3> QED
      BY <3>3, <3>4 DEF AnswerQueuedOnce
  <2> QED
    BY <2>1, <2>2
<1>4. asked' \in [Questions -> Ledger] /\ \A k \in Questions : RecordKept(k)
  BY <1>1, ReceiptOf
<1> QED
  BY <1>1, <1>2, <1>3, <1>4, LedgerTypeNext

\* A dismissal, or the post that names the question.
LEMMA SettleStep ==
    ASSUME QInv, NEW q \in Questions, NEW s \in {"dismissed", "posted"}, Receipt(q, s),
           UNCHANGED <<status, replies, turn, bookings, admitted, onRecord, left>>
    PROVE  QInv'
<1>1. \A k \in Questions : asked'[k].state = "answered" => asked[k].state = "answered"
  BY ReceiptOf
<1>2. asked' \in [Questions -> Ledger] /\ \A k \in Questions : RecordKept(k)
  BY ReceiptOf
<1>3. AnswerQueuedOnce'
  BY <1>1, StillQueued DEF Over
<1> QED
  BY <1>2, <1>3, LedgerTypeNext DEF QInv, TypeOK

LEMMA QInvStep == QInv /\ [Next]_vars => QInv'
<1> SUFFICES ASSUME QInv, [Next]_vars PROVE QInv'
  OBVIOUS
<1>1. ASSUME NEW q \in Questions, Ask(q) \/ Deliver(q) PROVE QInv'
  BY <1>1, AskStep, DeliverStep
<1>2. ASSUME NEW q \in Questions, Dismiss(q) \/ PostAnswer(q) PROVE QInv'
  BY <1>2, SettleStep DEF Dismiss, PostAnswer
<1>3. ASSUME NEW q \in Questions, NEW c \in Contents, Answer(q, c) PROVE QInv'
  BY <1>3, AnswerStep
<1>4. ASSUME NEW a \in SUBSET Questions, Admit(a) PROVE QInv'
  BY <1>4, AdmitStep
<1>5. CASE EndTurn
  BY <1>5, EndTurnStep
<1>6. CASE CutTurn
  <2>1. AnswerQueuedOnce'
    BY <1>6, StillQueued DEF CutTurn, Over
  <2>2. \A k \in Questions : RecordKept(k)
    BY <1>6 DEF CutTurn, RecordKept, OnRecord
  <2> QED
    BY <1>6, <2>1, <2>2, LedgerType, EndedNext DEF CutTurn
<1>7. CASE Control
  <2>1. left' \in 0..MaxControls
    BY <1>7, QuestionBounds DEF Control, QInv, TypeOK
  <2>2. AnswerQueuedOnce'
    BY <1>7, StillQueued DEF Control
  <2> QED
    BY <1>7, <2>1, <2>2 DEF Control, QInv, TypeOK, SeenIsBooked, Saw, Open, OnRecord
<1>8. CASE UNCHANGED vars
  BY <1>8 DEF vars, QInv, TypeOK, AnswerQueuedOnce, Over, SeenIsBooked, Saw, Open, OnRecord
<1> QED
  BY <1>1, <1>2, <1>3, <1>4, <1>5, <1>6, <1>7, <1>8 DEF Next
-----------------------------------------------------------------------------
\* What a step does to the guard's record of a question: only the end of a watched turn
\* that booked it while it is open adds to it, and the terminal comes after every nudge.
LEMMA OnlyEndTurnNudges ==
    ASSUME QInv, [Next]_vars, NEW q \in Questions,
           asked'[q].nudges # asked[q].nudges \/ asked'[q].terminal # asked[q].terminal
    PROVE  /\ turn = "running" /\ turn' \in {"completed", "failed"} /\ Watched /\ q \in Missed
           /\ asked'[q].terminal # asked[q].terminal => asked[q].nudges = MaxNudges
<1>1. ASSUME NEW k \in Questions, Ask(k) \/ Deliver(k) PROVE FALSE
  <2>1. CASE Ask(k)
    BY <2>1, LedgerType DEF Ask, Ledger
  <2>2. CASE Deliver(k)
    <3>1. PICK acknowledged \in BOOLEAN :
            asked' = [asked EXCEPT ![k] = [[@ EXCEPT !.host = TRUE] EXCEPT !.delivered = acknowledged]]
      BY <2>2, LedgerType DEF Deliver
    <3> QED
      BY <3>1, LedgerType DEF Ledger
  <2> QED
    BY <1>1, <2>1, <2>2
<1>2. ASSUME NEW k \in Questions, NEW s \in {"answered", "dismissed", "posted"}, Receipt(k, s) PROVE FALSE
  BY <1>2, ReceiptOf
<1>3. ASSUME NEW a \in SUBSET Questions, Admit(a) PROVE FALSE
  <2>1. PICK recorded \in SUBSET a : asked' = [k \in Questions |->
            IF k \in recorded THEN [asked[k] EXCEPT !.consumed = TRUE] ELSE asked[k]]
    BY <1>3 DEF Admit
  <2> QED
    BY <2>1, LedgerType DEF Ledger
<1>4. ASSUME UNCHANGED asked PROVE FALSE
  BY <1>4
<1>5. CASE EndTurn
  <2>1. PICK counted \in SUBSET Missed :
          /\ asked' = [k \in Questions |-> IF k \in counted THEN Nudged(k) ELSE asked[k]]
          /\ counted # {} => Watched
    BY <1>5, Counted
  <2>2. q \in counted
    BY <2>1
  <2>3. Watched /\ q \in Missed
    BY <2>1, <2>2
  <2> QED
    BY <1>5, <2>1, <2>2, <2>3, NudgedOf, Counted
<1> QED
  BY <1>1, <1>2, <1>3, <1>4, <1>5
  DEF Next, vars, Dismiss, PostAnswer, Answer, CutTurn, Control

\* A receipt that is settled keeps its answer, whatever is replayed.
LEMMA SettledStays ==
    ASSUME QInv, [Next]_vars, NEW q \in Questions, asked[q].state \notin {"none", "open"}
    PROVE  asked'[q].state = asked[q].state
<1>1. ASSUME NEW k \in Questions, Ask(k) \/ Deliver(k) PROVE asked'[q].state = asked[q].state
  <2>1. CASE Ask(k)
    BY <2>1, LedgerType DEF Ask, Ledger
  <2>2. CASE Deliver(k)
    <3>1. PICK acknowledged \in BOOLEAN :
            asked' = [asked EXCEPT ![k] = [[@ EXCEPT !.host = TRUE] EXCEPT !.delivered = acknowledged]]
      BY <2>2, LedgerType DEF Deliver
    <3> QED
      BY <3>1, LedgerType DEF Ledger
  <2> QED
    BY <1>1, <2>1, <2>2
<1>2. ASSUME NEW k \in Questions, NEW s \in {"answered", "dismissed", "posted"}, Receipt(k, s)
      PROVE  asked'[q].state = asked[q].state
  BY <1>2, ReceiptOf DEF Open
<1>3. ASSUME NEW a \in SUBSET Questions, Admit(a) PROVE asked'[q].state = asked[q].state
  <2>1. PICK recorded \in SUBSET a : asked' = [k \in Questions |->
            IF k \in recorded THEN [asked[k] EXCEPT !.consumed = TRUE] ELSE asked[k]]
    BY <1>3 DEF Admit
  <2> QED
    BY <2>1, LedgerType DEF Ledger
<1>4. CASE EndTurn
  <2>1. PICK counted \in SUBSET Missed :
          asked' = [k \in Questions |-> IF k \in counted THEN Nudged(k) ELSE asked[k]]
    BY <1>4, Counted
  <2> QED
    BY <2>1, NudgedOf
<1> QED
  BY <1>1, <1>2, <1>3, <1>4
  DEF Next, vars, Dismiss, PostAnswer, Answer, CutTurn, Control
-----------------------------------------------------------------------------
\* The inductive invariant of the reply protocol; its first conjunct is the type invariant.
THEOREM QuestionsInvariant == Spec => []QInv
  BY QInvInit, QInvStep, PTL DEF Spec

\* An answer that settled a receipt before the mission was over waits in the outbox, once
\* for each content (SwarmRuntime.message).
THEOREM AnswersQueuedOnce == Spec => []AnswerQueuedOnce
<1>1. QInv => AnswerQueuedOnce
  BY DEF QInv
<1> QED
  BY <1>1, QuestionsInvariant, PTL

\* An open question some message of the turn came after is booked for the turn's end.
THEOREM SeenAreBooked == Spec => []SeenIsBooked
<1>1. QInv => SeenIsBooked
  BY DEF QInv
<1> QED
  BY <1>1, QuestionsInvariant, PTL

\* A turn that runs to its completed end counts every booked question it left open.
LEMMA EveryMissCounts ==
    ASSUME QInv, [Next]_vars, turn = "running", turn' = "completed", Watched,
           NEW q \in Questions, Open(q), Saw(q)
    PROVE  HeldToAccount(q)
<1>1. EndTurn
  BY DEF Next, vars, Ask, Deliver, Dismiss, PostAnswer, Answer, Admit, CutTurn, Control
<1>2. q \in Missed
  BY DEF QInv, SeenIsBooked, Missed
<1>3. asked'[q] = Nudged(q)
  BY <1>1, <1>2, Counted
<1> QED
  BY <1>3, NudgedOf DEF HeldToAccount

\* A turn is held to account for what it saw and for nothing else: each question it saw
\* that is open at its completed end is nudged, or handed over once the nudges are spent,
\* and no other step or question is (OwnerReplyGuard).
THEOREM TurnsAccountForSeen == Spec => TurnAccountsForSeen
<1>1. ASSUME QInv, [Next]_vars
      PROVE  [\A q \in Questions :
                /\ turn = "running" /\ turn' = "completed" /\ Watched /\ Open(q) /\ Saw(q) => HeldToAccount(q)
                /\ asked'[q].nudges # asked[q].nudges \/ asked'[q].terminal # asked[q].terminal
                      => turn = "running" /\ turn' \in {"completed", "failed"} /\ Watched /\ Open(q) /\ Saw(q)]_vars
  <2>1. ASSUME NEW q \in Questions,
               asked'[q].nudges # asked[q].nudges \/ asked'[q].terminal # asked[q].terminal
        PROVE  turn = "running" /\ turn' \in {"completed", "failed"} /\ Watched /\ Open(q) /\ Saw(q)
    BY <1>1, <2>1, OnlyEndTurnNudges DEF QInv, Missed
  <2>2. ASSUME NEW q \in Questions, turn = "running" /\ turn' = "completed" /\ Watched /\ Open(q) /\ Saw(q)
        PROVE  HeldToAccount(q)
    BY <1>1, <2>2, EveryMissCounts
  <2> QED
    BY <2>1, <2>2, Zenon
<1> QED
  BY <1>1, QuestionsInvariant, PTL DEF Spec, TurnAccountsForSeen

\* A receipt is settled once, however often an answer, a dismissal or a post is replayed
\* (SwarmRuntime.receipt).
THEOREM ReceiptsSettledOnce == Spec => SettledOnce
<1>1. ASSUME QInv, [Next]_vars
      PROVE  [\A q \in Questions :
                asked[q].state \notin {"none", "open"} => asked'[q].state = asked[q].state]_vars
  BY <1>1, SettledStays
<1> QED
  BY <1>1, QuestionsInvariant, PTL DEF Spec, SettledOnce

\* The decision is handed over only once every nudge was spent (OwnerReplyGuard).
THEOREM NudgesBeforeTerminal == Spec => NudgesFirst
<1>1. ASSUME QInv, [Next]_vars
      PROVE  [\A q \in Questions :
                asked'[q].terminal /\ ~asked[q].terminal => asked[q].nudges = MaxNudges]_vars
  BY <1>1, OnlyEndTurnNudges
<1> QED
  BY <1>1, QuestionsInvariant, PTL DEF Spec, NudgesFirst

-----------------------------------------------------------------------------
\* The owner's deliveries and what they carry.
Notices == [kind : {"none", "row", "summary"}, items : SUBSET Told!Items, covered : BOOLEAN,
            handed : BOOLEAN, content : SUBSET Told!Items, delivered : BOOLEAN]

LedgerTyped ==
    /\ ledger \in [1 .. ND -> Notices] /\ spent \in [1 .. NF -> Nat]
    /\ window \in [count : Nat, summary : 0 .. ND]
    /\ taken \in [1 .. ND -> SUBSET Told!Items]

\* An item is in one delivery; a reminder that was told was spent, and only of a fact that
\* was told.
ItemsOnce ==
    /\ \A d, e \in 1 .. ND : d # e => ledger[d].items \cap ledger[e].items = {}
    /\ \A d \in 1 .. ND, f \in 1 .. NF, n \in Nat \ {0} : <<f, n>> \in ledger[d].items => n <= spent[f]
    /\ \A f \in 1 .. NF : spent[f] # 0 => \E d \in 1 .. ND : <<f, 0>> \in ledger[d].items

\* What an id was taken for, an attempt or an acknowledgement names was handed over; what
\* the window's summary may still take was not.
HandedFirst ==
    /\ \A d \in 1 .. ND :
        /\ d \in attempts \/ ledger[d].delivered \/ taken[d] # {} => ledger[d].handed
        /\ taken[d] # {} => taken[d] = ledger[d].content
        /\ ledger[d].kind = "none" => ledger[d].items = {} /\ ~ledger[d].handed /\ ~ledger[d].covered
    /\ window.summary # 0 =>
        ledger[window.summary].kind = "summary" /\ ~ledger[window.summary].handed

Covers(f) == f \in Restating /\ \E d \in 1 .. ND : ledger[d].kind = "row" /\ <<f - 1, 0>> \in ledger[d].items

CoveredQuiet ==
    \A d \in 1 .. ND : ledger[d].covered =>
        /\ ledger[d].kind = "row" /\ ~ledger[d].handed
        /\ \E f \in 1 .. NF : ledger[d].items = {<<f, 0>>} /\ spent[f] = 0 /\ Covers(f)

TInv == LedgerTyped /\ ItemsOnce /\ HandedFirst /\ CoveredQuiet

LEMMA NoticeNumbers ==
    /\ NF \in Nat \ {0} /\ ND \in Nat /\ WakeBudget \in Nat \ {0} /\ Followups \in Nat
    /\ Told!Ids = 1 .. ND /\ Told!Facts = 1 .. NF /\ Restating \subseteq 2 .. NF
  BY NoticesBounds DEF Told!LedgerBounds, Told!Ids, Told!Facts

LEMMA FreeNotice ==
    /\ Told!Free \in Notices /\ Told!Free.kind = "none" /\ Told!Free.items = {}
    /\ ~Told!Free.handed /\ ~Told!Free.covered /\ ~Told!Free.delivered
<1>1. \A a, b, c \in BOOLEAN :
        LET free == [kind |-> "none", items |-> {}, covered |-> a, handed |-> b, content |-> {}, delivered |-> c]
        IN  /\ free \in Notices /\ free.kind = "none" /\ free.items = {}
            /\ free.covered = a /\ free.handed = b /\ free.delivered = c
  BY DEF Notices
<1> QED
  BY <1>1, Zenon DEF Told!Free

LEMMA NewNotice ==
    ASSUME NEW kind \in {"row", "summary"}, NEW items \in SUBSET Told!Items
    PROVE  LET note == Told!Note(kind, items) IN
           /\ note \in Notices /\ note.kind = kind /\ note.items = items
           /\ ~note.handed /\ ~note.covered /\ ~note.delivered
<1> DEFINE free == Told!Free
<1>1. free \in Notices /\ ~free.handed /\ ~free.covered /\ ~free.delivered
  BY FreeNotice
<1> HIDE DEF free
<1>2. LET note == [free EXCEPT !.kind = kind, !.items = items, !.content = items] IN
      /\ note \in Notices /\ note.kind = kind /\ note.items = items
      /\ ~note.handed /\ ~note.covered /\ ~note.delivered
  BY <1>1 DEF Notices
<1> QED
  BY <1>2 DEF Told!Note, free

LEMMA CoveringIs == \A f : Told!Covering(f) => Covers(f)
  BY NoticeNumbers DEF Told!Covering, Covers, Told!Used

LEMMA FreshId ==
    ASSUME TInv, NEW d \in Told!NextId
    PROVE  d \in 1 .. ND /\ ledger[d].kind = "none" /\ ledger[d].items = {} /\ ~ledger[d].handed
  BY NoticeNumbers DEF Told!NextId, Told!Used, TInv, HandedFirst

LEMMA LedgerInit == Told!Init => TInv
<1> SUFFICES ASSUME Told!Init PROVE TInv
  OBVIOUS
<1> DEFINE free == Told!Free
<1>1. /\ ledger = [d \in 1 .. ND |-> free] /\ spent = [f \in 1 .. NF |-> 0]
      /\ window \in [count : 0 .. WakeBudget, summary : {0}] /\ attempts = {}
      /\ taken = [d \in 1 .. ND |-> {}]
  BY NoticeNumbers DEF Told!Init
<1>2. /\ free \in Notices /\ free.kind = "none" /\ free.items = {}
      /\ ~free.handed /\ ~free.covered /\ ~free.delivered
  BY FreeNotice
<1> HIDE DEF free
<1>3. \A d \in 1 .. ND : ledger[d] = free /\ taken[d] = {}
  BY <1>1
<1>4. LedgerTyped
  BY <1>1, <1>2, NoticeNumbers DEF LedgerTyped
<1>5. ItemsOnce
  BY <1>1, <1>2, <1>3 DEF ItemsOnce
<1>6. HandedFirst /\ CoveredQuiet
  BY <1>1, <1>2, <1>3 DEF HandedFirst, CoveredQuiet
<1> QED
  BY <1>4, <1>5, <1>6 DEF TInv

\* A delivery that was not handed over takes items that no delivery has.
LEMMA AddedStep ==
    ASSUME TInv, NEW d \in 1 .. ND, NEW new \in Notices, NEW added \in SUBSET Told!Items,
           ledger' = [ledger EXCEPT ![d] = new], UNCHANGED <<attempts, taken>>,
           ~ledger[d].handed, ~new.handed, ~new.delivered, new.items = ledger[d].items \cup added,
           new.kind # "none", ledger[d].kind # "none" => new.kind = ledger[d].kind,
           \A e \in 1 .. ND : added \cap ledger[e].items = {},
           window' \in [count : Nat, summary : 0 .. ND],
           window'.summary \in {window.summary, d}, window'.summary = d => new.kind = "summary",
           spent' \in [1 .. NF -> Nat],
           \A f \in 1 .. NF :
                /\ spent[f] <= spent'[f]
                /\ spent'[f] # spent[f] =>
                      \E e \in 1 .. ND : <<f, 0>> \in ledger[e].items /\ ~ledger[e].covered
                /\ \A n \in Nat \ {0} : <<f, n>> \in added => n <= spent'[f],
           new.covered => /\ new.kind = "row"
                          /\ \E f \in 1 .. NF : new.items = {<<f, 0>>} /\ spent'[f] = 0 /\ Covers(f)
    PROVE  TInv'
<1>1. /\ ledger' \in [1 .. ND -> Notices] /\ ledger'[d] = new
      /\ \A e \in 1 .. ND : e # d => ledger'[e] = ledger[e]
      /\ \A e \in 1 .. ND : ledger[e].items \subseteq ledger'[e].items
  BY DEF TInv, LedgerTyped
<1>2. LedgerTyped'
  BY <1>1 DEF TInv, LedgerTyped
<1>3. ItemsOnce'
  <2>1. \A a, b \in 1 .. ND : a # b => ledger'[a].items \cap ledger'[b].items = {}
    BY <1>1 DEF TInv, ItemsOnce
  <2>2. ASSUME NEW e \in 1 .. ND, NEW f \in 1 .. NF, NEW n \in Nat \ {0}, <<f, n>> \in ledger'[e].items
        PROVE  n <= spent'[f]
    <3>1. CASE <<f, n>> \in added
      BY <3>1
    <3>2. CASE <<f, n>> \notin added
      <4>1. <<f, n>> \in ledger[e].items
        BY <1>1, <2>2, <3>2
      <4>2. n <= spent[f] /\ spent[f] <= spent'[f] /\ spent[f] \in Nat /\ spent'[f] \in Nat
        BY <4>1 DEF TInv, ItemsOnce, LedgerTyped
      <4> QED
        BY <4>2
    <3> QED
      BY <3>1, <3>2
  <2>3. ASSUME NEW f \in 1 .. NF, spent'[f] # 0 PROVE \E e \in 1 .. ND : <<f, 0>> \in ledger'[e].items
    <3>1. \E e \in 1 .. ND : <<f, 0>> \in ledger[e].items
      BY <2>3 DEF TInv, ItemsOnce
    <3> QED
      BY <1>1, <3>1
  <2> QED
    BY <2>1, <2>2, <2>3 DEF ItemsOnce
<1>4. HandedFirst'
  <2>1. \A e \in 1 .. ND :
        /\ e \in attempts' \/ ledger'[e].delivered \/ taken'[e] # {} => ledger'[e].handed
        /\ taken'[e] # {} => taken'[e] = ledger'[e].content
        /\ ledger'[e].kind = "none" => ledger'[e].items = {} /\ ~ledger'[e].handed /\ ~ledger'[e].covered
    BY <1>1 DEF TInv, HandedFirst
  <2>2. window'.summary # 0 =>
            ledger'[window'.summary].kind = "summary" /\ ~ledger'[window'.summary].handed
    BY <1>1 DEF TInv, HandedFirst, LedgerTyped
  <2> QED
    BY <2>1, <2>2 DEF HandedFirst
<1>5. \A f : Covers(f) => Covers(f)'
  <2> SUFFICES ASSUME NEW f, Covers(f) PROVE Covers(f)'
    OBVIOUS
  <2>1. PICK e \in 1 .. ND : ledger[e].kind = "row" /\ <<f - 1, 0>> \in ledger[e].items
    BY DEF Covers
  <2>2. ledger'[e].kind = "row" /\ <<f - 1, 0>> \in ledger'[e].items
    BY <1>1, <2>1
  <2> QED
    BY <2>2 DEF Covers
<1>6. CoveredQuiet'
  <2> SUFFICES ASSUME NEW e \in 1 .. ND, ledger'[e].covered
               PROVE  /\ ledger'[e].kind = "row" /\ ~ledger'[e].handed
                      /\ \E f \in 1 .. NF : ledger'[e].items = {<<f, 0>>} /\ spent'[f] = 0 /\ Covers(f)'
    BY DEF CoveredQuiet
  <2>1. CASE e = d
    BY <1>1, <1>5, <2>1
  <2>2. CASE e # d
    <3>1. PICK f \in 1 .. NF : ledger[e].items = {<<f, 0>>} /\ spent[f] = 0 /\ Covers(f)
      BY <1>1, <2>2 DEF TInv, CoveredQuiet
    <3>2. spent'[f] = 0
      <4>1. ledger[e].covered /\ <<f, 0>> \in ledger[e].items
        BY <1>1, <2>2, <3>1
      <4>2. ASSUME spent'[f] # spent[f] PROVE FALSE
        <5>1. PICK g \in 1 .. ND : <<f, 0>> \in ledger[g].items /\ ~ledger[g].covered
          BY <4>2
        <5>2. g # e
          BY <4>1, <5>1
        <5>3. ledger[g].items \cap ledger[e].items = {}
          BY <5>2 DEF TInv, ItemsOnce
        <5> QED
          BY <4>1, <5>1, <5>3
      <4> QED
        BY <3>1, <4>2
    <3> QED
      BY <1>1, <1>5, <2>2, <3>1, <3>2 DEF TInv, CoveredQuiet
  <2> QED
    BY <2>1, <2>2
<1> QED
  BY <1>2, <1>3, <1>4, <1>6 DEF TInv

\* A fact that is told anew, or a reminder, that no delivery has, is carried somewhere.
LEMMA CarryStep ==
    ASSUME TInv, NEW items \in SUBSET Told!Items, Told!Carry(items), UNCHANGED <<attempts, taken>>,
           \A e \in 1 .. ND : items \cap ledger[e].items = {},
           spent' \in [1 .. NF -> Nat],
           \A f \in 1 .. NF :
                /\ spent[f] <= spent'[f]
                /\ spent'[f] # spent[f] =>
                      \E e \in 1 .. ND : <<f, 0>> \in ledger[e].items /\ ~ledger[e].covered
                /\ \A n \in Nat \ {0} : <<f, n>> \in items => n <= spent'[f]
    PROVE  TInv'
<1>1. window \in [count : Nat, summary : 0 .. ND] /\ WakeBudget \in Nat
  BY NoticeNumbers DEF TInv, LedgerTyped
<1>2. CASE /\ window.count < WakeBudget
           /\ \E d \in Told!NextId : ledger' = [ledger EXCEPT ![d] = Told!Note("row", items)]
           /\ window' = [window EXCEPT !.count = @ + 1]
  <2>1. PICK d \in Told!NextId : ledger' = [ledger EXCEPT ![d] = Told!Note("row", items)]
    BY <1>2
  <2> DEFINE new == Told!Note("row", items)
  <2>2. /\ new \in Notices /\ new.kind = "row" /\ new.items = items
        /\ ~new.handed /\ ~new.covered /\ ~new.delivered
    BY NewNotice
  <2>3. /\ d \in 1 .. ND /\ ledger[d].kind = "none" /\ ledger[d].items = {} /\ ~ledger[d].handed
    BY FreshId
  <2>4. window' \in [count : Nat, summary : 0 .. ND] /\ window'.summary = window.summary
    BY <1>1, <1>2
  <2>5. window.summary # d
    BY <2>3 DEF TInv, HandedFirst
  <2>6. ledger' = [ledger EXCEPT ![d] = new]
    BY <2>1
  <2>7. new.items = ledger[d].items \cup items /\ window'.summary # d
    BY <2>2, <2>3, <2>4, <2>5
  <2> HIDE DEF new
  <2> QED
    BY <2>2, <2>3, <2>4, <2>6, <2>7, AddedStep
<1>3. CASE /\ window.count >= WakeBudget /\ Told!InReach
           /\ ledger' = [ledger EXCEPT ![window.summary].items = @ \cup items,
                                       ![window.summary].content = @ \cup items]
           /\ UNCHANGED window
  <2> DEFINE d == window.summary
             new == [ledger[d] EXCEPT !.items = @ \cup items, !.content = @ \cup items]
  <2>1. d \in 1 .. ND /\ ledger[d].kind = "summary" /\ ~ledger[d].handed /\ ~ledger[d].delivered
    BY <1>1, <1>3 DEF Told!InReach, TInv, HandedFirst
  <2>2. ~ledger[d].covered
    BY <2>1 DEF TInv, CoveredQuiet
  <2>3. ledger[d] \in Notices
    BY <2>1 DEF TInv, LedgerTyped
  <2>4. /\ new \in Notices /\ new.kind = "summary" /\ new.items = ledger[d].items \cup items
        /\ ~new.handed /\ ~new.covered /\ ~new.delivered
    BY <2>1, <2>2, <2>3 DEF Notices
  <2>5. ledger' = [ledger EXCEPT ![d] = new]
    BY <1>3, <2>1 DEF TInv, LedgerTyped
  <2>6. window' \in [count : Nat, summary : 0 .. ND] /\ window'.summary = d
    BY <1>1, <1>3
  <2> HIDE DEF new, d
  <2> QED
    BY <2>1, <2>4, <2>5, <2>6, AddedStep
<1>4. CASE /\ window.count >= WakeBudget /\ ~Told!InReach
           /\ \E d \in Told!NextId :
                 /\ ledger' = [ledger EXCEPT ![d] = Told!Note("summary", items)]
                 /\ window' = [window EXCEPT !.summary = d]
  <2>1. PICK d \in Told!NextId : /\ ledger' = [ledger EXCEPT ![d] = Told!Note("summary", items)]
                                 /\ window' = [window EXCEPT !.summary = d]
    BY <1>4
  <2> DEFINE new == Told!Note("summary", items)
  <2>2. /\ new \in Notices /\ new.kind = "summary" /\ new.items = items
        /\ ~new.handed /\ ~new.covered /\ ~new.delivered
    BY NewNotice
  <2>3. d \in 1 .. ND /\ ledger[d].kind = "none" /\ ledger[d].items = {} /\ ~ledger[d].handed
    BY FreshId
  <2>4. window' \in [count : Nat, summary : 0 .. ND] /\ window'.summary = d
    BY <1>1, <2>1, <2>3
  <2>5. ledger' = [ledger EXCEPT ![d] = new]
    BY <2>1
  <2>6. new.items = ledger[d].items \cup items
    BY <2>2, <2>3
  <2> HIDE DEF new
  <2> QED
    BY <2>2, <2>3, <2>4, <2>5, <2>6, AddedStep
<1> QED
  BY <1>2, <1>3, <1>4 DEF Told!Carry

LEMMA RecordStep ==
    ASSUME TInv, NEW f \in 1 .. NF, Told!Record(f)
    PROVE  TInv'
<1>1. /\ ~Told!Holds(<<f, 0>>) /\ UNCHANGED <<attempts, taken>> /\ spent' = spent
  BY DEF Told!Record
<1>2. \A e \in 1 .. ND : <<f, 0>> \notin ledger[e].items
  BY <1>1, NoticeNumbers DEF Told!Holds, Told!Used, TInv, HandedFirst
<1>3. spent \in [1 .. NF -> Nat] /\ spent[f] = 0
  BY <1>2 DEF TInv, LedgerTyped, ItemsOnce
<1>4. {<<f, 0>>} \in SUBSET Told!Items
  BY NoticeNumbers DEF Told!Items
<1>5. CASE Told!Covering(f)
  <2>1. PICK d \in Told!NextId :
            ledger' = [ledger EXCEPT ![d] = [Told!Note("row", {<<f, 0>>}) EXCEPT !.covered = TRUE]]
    BY <1>5 DEF Told!Record
  <2>2. UNCHANGED window
    BY <1>5 DEF Told!Record
  <2> DEFINE note == Told!Note("row", {<<f, 0>>})
  <2>3. /\ note \in Notices /\ note.kind = "row" /\ note.items = {<<f, 0>>}
        /\ ~note.handed /\ ~note.covered /\ ~note.delivered
    BY <1>4, NewNotice
  <2> HIDE DEF note
  <2>4. ASSUME NEW b \in BOOLEAN PROVE
            LET new == [note EXCEPT !.covered = b] IN
            /\ new \in Notices /\ new.kind = "row" /\ new.items = {<<f, 0>>}
            /\ ~new.handed /\ ~new.delivered
    BY <2>3 DEF Notices
  <2>5. \E new : /\ ledger' = [ledger EXCEPT ![d] = new]
                 /\ new \in Notices /\ new.kind = "row" /\ new.items = {<<f, 0>>}
                 /\ ~new.handed /\ ~new.delivered
    BY <2>1, <2>4, Zenon DEF note
  <2>6. PICK new : /\ ledger' = [ledger EXCEPT ![d] = new]
                   /\ new \in Notices /\ new.kind = "row" /\ new.items = {<<f, 0>>}
                   /\ ~new.handed /\ ~new.delivered
    BY <2>5
  <2>7. d \in 1 .. ND /\ ledger[d].kind = "none" /\ ledger[d].items = {} /\ ~ledger[d].handed
    BY FreshId
  <2>8. window' \in [count : Nat, summary : 0 .. ND] /\ window'.summary = window.summary
    BY <2>2 DEF TInv, LedgerTyped
  <2>9. window.summary # d
    BY <2>7 DEF TInv, HandedFirst
  <2>10. Covers(f)
    BY <1>5, CoveringIs
  <2>11. /\ \A e \in 1 .. ND : {<<f, 0>>} \cap ledger[e].items = {}
         /\ new.items = ledger[d].items \cup {<<f, 0>>}
         /\ spent' \in [1 .. NF -> Nat]
         /\ \A g \in 1 .. NF : spent[g] <= spent'[g] /\ spent'[g] = spent[g]
         /\ spent'[f] = 0
         /\ \A g \in 1 .. NF, n \in Nat \ {0} : <<g, n>> \notin {<<f, 0>>}
    BY <1>1, <1>2, <1>3, <2>6, <2>7
  <2> QED
    BY <1>1, <1>4, <2>6, <2>7, <2>8, <2>9, <2>10, <2>11, AddedStep
<1>6. CASE ~Told!Covering(f)
  <2>1. Told!Carry({<<f, 0>>})
    BY <1>6 DEF Told!Record
  <2>2. /\ \A e \in 1 .. ND : {<<f, 0>>} \cap ledger[e].items = {}
        /\ spent' \in [1 .. NF -> Nat]
        /\ \A g \in 1 .. NF : spent[g] <= spent'[g] /\ spent'[g] = spent[g]
        /\ \A g \in 1 .. NF, n \in Nat \ {0} : <<g, n>> \notin {<<f, 0>>}
    BY <1>1, <1>2, <1>3
  <2> QED
    BY <1>1, <1>4, <2>1, <2>2, CarryStep
<1> QED
  BY <1>5, <1>6

LEMMA RemindStep ==
    ASSUME TInv, NEW d \in 1 .. ND, Told!Remind(d)
    PROVE  TInv'
<1> DEFINE due == Told!Owing(d)
           items == Told!Reminders(due)
<1>1. /\ ledger[d].delivered /\ Told!Carry(items) /\ UNCHANGED <<attempts, taken>>
      /\ spent' = [f \in 1 .. NF |-> IF f \in due THEN spent[f] + 1 ELSE spent[f]]
  BY NoticeNumbers DEF Told!Remind
<1>2. ~ledger[d].covered
  BY <1>1 DEF TInv, HandedFirst, CoveredQuiet
<1>3. spent \in [1 .. NF -> Nat]
  BY DEF TInv, LedgerTyped
<1>4. \A f \in due : f \in 1 .. NF /\ <<f, 0>> \in ledger[d].items /\ spent[f] < Followups
  BY NoticeNumbers DEF Told!Owing
<1>5. \A i \in items : \E f \in due : i = <<f, spent[f] + 1>>
  BY DEF Told!Reminders
<1> HIDE DEF due, items
<1>6. items \in SUBSET Told!Items
  <2> SUFFICES ASSUME NEW i \in items PROVE i \in Told!Items
    OBVIOUS
  <2>1. PICK f \in due : i = <<f, spent[f] + 1>>
    BY <1>5
  <2>2. f \in 1 .. NF /\ spent[f] \in Nat /\ spent[f] < Followups
    BY <1>3, <1>4
  <2>3. spent[f] + 1 \in 0 .. Followups
    BY <2>2, NoticeNumbers
  <2> QED
    BY <2>1, <2>2, <2>3, NoticeNumbers DEF Told!Items
<1>7. \A e \in 1 .. ND : items \cap ledger[e].items = {}
  <2> SUFFICES ASSUME NEW e \in 1 .. ND, NEW i \in items, i \in ledger[e].items PROVE FALSE
    OBVIOUS
  <2>1. PICK f \in due : i = <<f, spent[f] + 1>>
    BY <1>5
  <2>2. f \in 1 .. NF /\ spent[f] \in Nat
    BY <1>3, <1>4
  <2>3. spent[f] + 1 <= spent[f]
    BY <2>1, <2>2 DEF TInv, ItemsOnce
  <2> QED
    BY <2>2, <2>3
<1>8. spent' \in [1 .. NF -> Nat]
  BY <1>1, <1>3
<1>9. \A f \in 1 .. NF : spent[f] <= spent'[f] /\ (spent'[f] # spent[f] => f \in due)
  BY <1>1, <1>3
<1>10. \A f \in 1 .. NF, n \in Nat \ {0} : <<f, n>> \in items => n <= spent'[f]
  <2> SUFFICES ASSUME NEW f \in 1 .. NF, NEW n \in Nat \ {0}, <<f, n>> \in items PROVE n <= spent'[f]
    OBVIOUS
  <2>1. PICK g \in due : <<f, n>> = <<g, spent[g] + 1>>
    BY <1>5
  <2>2. f = g /\ n = spent[f] + 1
    BY <2>1
  <2> QED
    BY <1>1, <1>3, <2>2
<1>11. \A f \in 1 .. NF : spent'[f] # spent[f] =>
          \E e \in 1 .. ND : <<f, 0>> \in ledger[e].items /\ ~ledger[e].covered
  BY <1>2, <1>4, <1>9
<1> QED
  BY <1>1, <1>6, <1>7, <1>8, <1>9, <1>10, <1>11, CarryStep

\* Steps that move no item.
LEMMA HandoffStep ==
    ASSUME TInv, NEW d \in 1 .. ND, Told!Handoff(d)
    PROVE  TInv'
<1>1. /\ ledger[d].kind # "none" /\ ~ledger[d].covered
      /\ attempts' = attempts \cup {d} /\ UNCHANGED <<spent, taken>>
  BY DEF Told!Handoff, Told!Used, Told!Relevant
<1>2. \E content \in SUBSET Told!Items, b \in BOOLEAN :
        /\ b
        /\ ledger' = IF ledger[d].handed THEN ledger
                     ELSE [ledger EXCEPT ![d].handed = b, ![d].content = content]
  <2>1. Told!Standing(d) \in SUBSET Told!Items /\ ledger[d].content \in SUBSET Told!Items
    BY DEF Told!Standing, TInv, LedgerTyped, Notices
  <2>2. CASE ledger[d].kind = "summary"
    <3>1. ledger' = IF ledger[d].handed THEN ledger
                    ELSE [ledger EXCEPT ![d].handed = TRUE, ![d].content = Told!Standing(d)]
      BY <2>2 DEF Told!Handoff
    <3> QED
      BY <2>1, <3>1, Zenon
  <2>3. CASE ledger[d].kind # "summary"
    <3>1. ledger' = IF ledger[d].handed THEN ledger
                    ELSE [ledger EXCEPT ![d].handed = TRUE, ![d].content = @]
      BY <2>3 DEF Told!Handoff
    <3> QED
      BY <2>1, <3>1, Zenon
  <2> QED
    BY <2>2, <2>3
<1>3. PICK content \in SUBSET Told!Items, b \in BOOLEAN :
        /\ b
        /\ ledger' = IF ledger[d].handed THEN ledger
                     ELSE [ledger EXCEPT ![d].handed = b, ![d].content = content]
  BY <1>2
<1>4. /\ ledger' \in [1 .. ND -> Notices] /\ ledger'[d].handed
      /\ \A e \in 1 .. ND :
            /\ e # d => ledger'[e] = ledger[e]
            /\ ledger'[e].kind = ledger[e].kind /\ ledger'[e].items = ledger[e].items
            /\ ledger'[e].covered => ledger[e].covered
            /\ ledger'[e].delivered => ledger[e].delivered
            /\ ledger[e].handed => ledger'[e] = ledger[e]
  <2> DEFINE new == [ledger[d] EXCEPT !.handed = b, !.content = content]
  <2>1. ledger \in [1 .. ND -> Notices] /\ ledger[d] \in Notices
    BY DEF TInv, LedgerTyped
  <2>2. /\ new \in Notices /\ new.handed /\ new.kind = ledger[d].kind /\ new.items = ledger[d].items
        /\ new.covered => ledger[d].covered
        /\ new.delivered => ledger[d].delivered
    BY <1>3, <2>1 DEF Notices
  <2>3. ledger' = IF ledger[d].handed THEN ledger ELSE [ledger EXCEPT ![d] = new]
    BY <1>3, <2>1
  <2> HIDE DEF new
  <2> QED
    BY <2>1, <2>2, <2>3
<1>5. /\ window' \in [count : Nat, summary : 0 .. ND]
      /\ window'.summary # 0 => window'.summary = window.summary /\ window'.summary # d
  <2>1. window \in [count : Nat, summary : 0 .. ND]
    BY DEF TInv, LedgerTyped
  <2>2. window' = IF window.summary = d THEN [window EXCEPT !.summary = 0] ELSE window
    BY DEF Told!Handoff
  <2>3. CASE window.summary = d
    BY <2>1, <2>2, <2>3, NoticeNumbers
  <2>4. CASE window.summary # d
    BY <2>1, <2>2, <2>4
  <2> QED
    BY <2>3, <2>4
<1>6. LedgerTyped' /\ ItemsOnce'
  BY <1>1, <1>4, <1>5 DEF TInv, LedgerTyped, ItemsOnce
<1>7. HandedFirst'
  <2>1. \A e \in 1 .. ND :
          /\ e \in attempts' \/ ledger'[e].delivered \/ taken'[e] # {} => ledger'[e].handed
          /\ taken'[e] # {} => taken'[e] = ledger'[e].content
          /\ ledger'[e].kind = "none" => ledger'[e].items = {} /\ ~ledger'[e].handed /\ ~ledger'[e].covered
    BY <1>1, <1>4 DEF TInv, HandedFirst
  <2>2. window'.summary # 0 =>
          ledger'[window'.summary].kind = "summary" /\ ~ledger'[window'.summary].handed
    BY <1>4, <1>5 DEF TInv, HandedFirst
  <2> QED
    BY <2>1, <2>2 DEF HandedFirst
<1>8. CoveredQuiet'
  <2>1. \A f : Covers(f) => Covers(f)'
    BY <1>4 DEF Covers
  <2> QED
    BY <1>1, <1>4, <2>1 DEF TInv, CoveredQuiet
<1> QED
  BY <1>6, <1>7, <1>8 DEF TInv

LEMMA TakesStep ==
    ASSUME TInv, NEW d \in 1 .. ND, d \in attempts, Told!Takes(d) \/ UNCHANGED taken
    PROVE  /\ taken' \in [1 .. ND -> SUBSET Told!Items]
           /\ \A e \in 1 .. ND : taken'[e] # {} => ledger[e].handed /\ taken'[e] = ledger[e].content
<1>1. ledger[d].handed
  BY DEF TInv, HandedFirst
<1>2. taken \in [1 .. ND -> SUBSET Told!Items] /\ ledger[d].content \in SUBSET Told!Items
  BY DEF TInv, LedgerTyped, Notices
<1>3. taken' = taken \/ taken' = [taken EXCEPT ![d] = ledger[d].content]
  BY DEF Told!Takes
<1> QED
  BY <1>1, <1>2, <1>3 DEF TInv, HandedFirst

LEMMA AcknowledgeStep ==
    ASSUME TInv, NEW d \in 1 .. ND, Told!Acknowledge(d)
    PROVE  TInv'
<1>1. /\ d \in attempts /\ Told!Takes(d) /\ attempts' = attempts \ {d} /\ UNCHANGED <<spent, window>>
  BY DEF Told!Acknowledge
<1>2. PICK b \in BOOLEAN : ledger' = [ledger EXCEPT ![d].delivered = b]
  BY Zenon DEF Told!Acknowledge
<1>3. /\ taken' \in [1 .. ND -> SUBSET Told!Items]
      /\ \A e \in 1 .. ND : taken'[e] # {} => ledger[e].handed /\ taken'[e] = ledger[e].content
  BY <1>1, TakesStep
<1>4. /\ ledger' \in [1 .. ND -> Notices]
      /\ \A e \in 1 .. ND :
            /\ e # d => ledger'[e] = ledger[e]
            /\ ledger'[e].kind = ledger[e].kind /\ ledger'[e].items = ledger[e].items
            /\ ledger'[e].content = ledger[e].content
            /\ ledger'[e].covered <=> ledger[e].covered
            /\ ledger'[e].handed <=> ledger[e].handed
  BY <1>2 DEF TInv, LedgerTyped, Notices
<1>5. LedgerTyped' /\ ItemsOnce'
  BY <1>1, <1>3, <1>4 DEF TInv, LedgerTyped, ItemsOnce
<1>6. HandedFirst'
  BY <1>1, <1>3, <1>4 DEF TInv, LedgerTyped, HandedFirst
<1>7. CoveredQuiet'
  <2>1. \A f : Covers(f) => Covers(f)'
    BY <1>4 DEF Covers
  <2> QED
    BY <1>1, <1>4, <2>1 DEF TInv, CoveredQuiet
<1> QED
  BY <1>5, <1>6, <1>7 DEF TInv

\* The rest writes neither the ledger nor what was spent, and drops attempts or the window.
LEMMA QuietStep ==
    ASSUME TInv, UNCHANGED <<ledger, spent>>, attempts' \subseteq attempts,
           window' \in [count : Nat, summary : 0 .. ND], window'.summary \in {0, window.summary},
           taken' \in [1 .. ND -> SUBSET Told!Items],
           \A e \in 1 .. ND : taken'[e] # {} => ledger[e].handed /\ taken'[e] = ledger[e].content
    PROVE  TInv'
<1>1. LedgerTyped' /\ ItemsOnce'
  BY DEF TInv, LedgerTyped, ItemsOnce
<1>2. HandedFirst'
  <2>1. window'.summary # 0 =>
          ledger'[window'.summary].kind = "summary" /\ ~ledger'[window'.summary].handed
    BY DEF TInv, HandedFirst
  <2>2. \A e \in 1 .. ND :
          /\ e \in attempts' \/ ledger'[e].delivered \/ taken'[e] # {} => ledger'[e].handed
          /\ taken'[e] # {} => taken'[e] = ledger'[e].content
          /\ ledger'[e].kind = "none" => ledger'[e].items = {} /\ ~ledger'[e].handed /\ ~ledger'[e].covered
    BY DEF TInv, HandedFirst
  <2> QED
    BY <2>1, <2>2 DEF HandedFirst
<1>3. CoveredQuiet'
  <2>1. \A f : Covers(f) => Covers(f)'
    BY DEF Covers
  <2> QED
    BY <2>1 DEF TInv, CoveredQuiet
<1> QED
  BY <1>1, <1>2, <1>3 DEF TInv

LEMMA ToldStep == TInv /\ Told!Next => TInv'
<1> SUFFICES ASSUME TInv, Told!Next PROVE TInv'
  OBVIOUS
<1>1. /\ taken \in [1 .. ND -> SUBSET Told!Items] /\ window \in [count : Nat, summary : 0 .. ND]
      /\ \A e \in 1 .. ND : taken[e] # {} => ledger[e].handed /\ taken[e] = ledger[e].content
  BY DEF TInv, LedgerTyped, HandedFirst
<1>2. CASE Told!Turn
  BY <1>1, <1>2, QuietStep DEF Told!Turn
<1>3. CASE Told!WindowRolls \/ Told!Crash
  <2>1. window' = Told!Fresh /\ attempts' \subseteq attempts /\ UNCHANGED <<ledger, spent, taken>>
    BY <1>3 DEF Told!WindowRolls, Told!Crash
  <2>2. window' \in [count : Nat, summary : 0 .. ND] /\ window'.summary = 0
    BY <2>1, NoticeNumbers DEF Told!Fresh
  <2> QED
    BY <1>1, <2>1, <2>2, QuietStep
<1>4. CASE \E f \in Told!Facts : Told!Record(f)
  BY <1>4, NoticeNumbers, RecordStep
<1>5. CASE \E d \in Told!Ids : Told!Handoff(d)
  BY <1>5, NoticeNumbers, HandoffStep
<1>6. CASE \E d \in Told!Ids : Told!Acknowledge(d)
  BY <1>6, NoticeNumbers, AcknowledgeStep
<1>7. CASE \E d \in Told!Ids : Told!Unacknowledged(d)
  <2>1. PICK d \in 1 .. ND : Told!Unacknowledged(d)
    BY <1>7, NoticeNumbers
  <2>2. /\ d \in attempts /\ (Told!Takes(d) \/ UNCHANGED taken) /\ attempts' \subseteq attempts
        /\ UNCHANGED <<ledger, spent, window>>
    BY <2>1 DEF Told!Unacknowledged
  <2>3. /\ taken' \in [1 .. ND -> SUBSET Told!Items]
        /\ \A e \in 1 .. ND : taken'[e] # {} => ledger[e].handed /\ taken'[e] = ledger[e].content
    BY <2>2, TakesStep
  <2> QED
    BY <1>1, <2>2, <2>3, QuietStep
<1>8. CASE \E d \in Told!Ids : Told!Remind(d)
  BY <1>8, NoticeNumbers, RemindStep
<1> QED
  BY <1>2, <1>3, <1>4, <1>5, <1>6, <1>7, <1>8 DEF Told!Next

\* What the owner is told follows from the invariant.
LEMMA ToldFollows == TInv => Told!ToldOnce /\ Told!OwnerReadsTheRow /\ Told!CoveredStaysQuiet
<1> SUFFICES ASSUME TInv PROVE Told!ToldOnce /\ Told!OwnerReadsTheRow /\ Told!CoveredStaysQuiet
  OBVIOUS
<1>1. Told!Used \subseteq 1 .. ND
  BY NoticeNumbers DEF Told!Used
<1>2. Told!ToldOnce /\ Told!OwnerReadsTheRow
  BY <1>1 DEF TInv, ItemsOnce, HandedFirst, Told!ToldOnce, Told!OwnerReadsTheRow
<1>3. \A f : Covers(f) => Told!Covering(f)
  BY NoticeNumbers DEF Covers, Told!Covering, Told!Used
<1>4. ASSUME NEW d \in Told!Used, ledger[d].covered
      PROVE  /\ taken[d] = {}
             /\ \A i \in ledger[d].items : spent[i[1]] = 0 /\ Told!Covering(i[1])
  <2>1. PICK f \in 1 .. NF : ledger[d].items = {<<f, 0>>} /\ spent[f] = 0 /\ Covers(f)
    BY <1>1, <1>4 DEF TInv, CoveredQuiet
  <2>2. taken[d] = {}
    BY <1>1, <1>4 DEF TInv, CoveredQuiet, HandedFirst
  <2> QED
    BY <1>3, <2>1, <2>2
<1> QED
  BY <1>2, <1>4 DEF Told!CoveredStaysQuiet

-----------------------------------------------------------------------------
\* What a flush is made of, and a row of the outbox; what nothing below rests on is left open.
IsFlush(q) ==
    q \in [live : BOOLEAN, mission : Nat, todo : SUBSET Outbox!Rows, at : Outbox!Rows \cup {Outbox!None},
           seen : {q.seen}, requested : BOOLEAN, old : {q.old}]
IsRow(q) == q \in [state : {"none", "queued", "sent", "moot"}, to : {q.to}, current : {q.current}]

Listed(r) == row[r].state # "none"

\* A current pump is alive, and only a live flush has an attempt under way.
PumpTyped ==
    /\ pump \in 0 .. NP
    /\ flush = [f \in 0 .. NP |-> flush[f]] /\ \A f \in 0 .. NP : IsFlush(flush[f])
    /\ row = [r \in Outbox!Rows |-> row[r]] /\ \A r \in Outbox!Rows : IsRow(row[r])
    /\ \A f \in 0 .. NP : ~flush[f].live => flush[f].at = Outbox!None
    /\ pump # 0 => flush[pump].live

\* What was requested is on the ledger; once no start is pending, the current pump sweeps
\* again or has every requested row ahead of it.
RequestsHeld ==
    /\ \A r \in owed : r \in Outbox!Rows /\ Listed(r)
    /\ ~pending /\ pump = 0 => owed = {}
    /\ ~pending /\ pump # 0 =>
          \/ flush[pump].requested
          \/ \A r \in owed : r \in flush[pump].todo \/ flush[pump].mission < r[1]

\* An attempt is one flush's, and claims its delivery as long as it lasts.
Claims ==
    /\ \A f, g \in 0 .. NP : f # g /\ flush[f].at # Outbox!None => flush[f].at # flush[g].at
    /\ \A r : r \in delivering <=> r # Outbox!None /\ \E f \in 0 .. NP : flush[f].at = r

PInv == PumpTyped /\ RequestsHeld /\ Claims

LEMMA OutboxNumbers ==
    /\ NM \in Nat \ {0} /\ NR \in Nat \ {0} /\ NP \in Nat \ {0} /\ Passes \subseteq 1 .. NM
    /\ Outbox!Missions = 1 .. NM /\ Outbox!Rows = (1 .. NM) \X (1 .. NR)
    /\ Outbox!Pumps = 1 .. NP /\ Outbox!Body = 0 /\ Outbox!Flushers = 0 .. NP
<1>1. /\ NM \in Nat \ {0} /\ NR \in Nat \ {0} /\ NP \in Nat \ {0} /\ Passes \subseteq 1 .. NM
  BY NoticesBounds DEF Outbox!OutboxBounds
<1>2. /\ Outbox!Missions = 1 .. NM /\ Outbox!Rows = (1 .. NM) \X (1 .. NR)
      /\ Outbox!Pumps = 1 .. NP /\ Outbox!Body = 0
  BY DEF Outbox!Missions, Outbox!Rows, Outbox!Pumps, Outbox!Body
<1>3. Outbox!Flushers = 0 .. NP
  BY <1>1, <1>2 DEF Outbox!Flushers
<1> QED
  BY <1>1, <1>2, <1>3

LEMMA RowsAre ==
    /\ \A r \in Outbox!Rows : r[1] \in 1 .. NM /\ r[2] \in 1 .. NR /\ r = <<r[1], r[2]>>
    /\ Outbox!None \notin Outbox!Rows
  BY OutboxNumbers DEF Outbox!None

LEMMA IdleIs ==
    LET q == Outbox!Idle IN
    IsFlush(q) /\ q.at = Outbox!None /\ q.mission = 0 /\ q.todo = {} /\ ~q.requested
<1>1. \A a, c, d \in BOOLEAN :
        LET q == [live |-> a, mission |-> 0, todo |-> {}, at |-> Outbox!None,
                  seen |-> <<Outbox!None, 0>>, requested |-> c, old |-> d] IN
        IsFlush(q) /\ q.at = Outbox!None /\ q.mission = 0 /\ q.todo = {} /\ q.requested = c
  BY DEF IsFlush
<1> QED
  BY <1>1, Zenon DEF Outbox!Idle

\* The flush a pump begins with, or sweeps again with.
LEMMA IdleFlush ==
    \A b \in BOOLEAN : LET q == [Outbox!Idle EXCEPT !.live = b] IN
        /\ IsFlush(q) /\ q.at = Outbox!None /\ q.mission = 0 /\ q.todo = {} /\ ~q.requested
        /\ q.live <=> b
<1> DEFINE idle == Outbox!Idle
<1>1. /\ IsFlush(idle) /\ idle.at = Outbox!None /\ idle.mission = 0 /\ idle.todo = {}
      /\ ~idle.requested
  BY IdleIs
<1> HIDE DEF idle
<1>2. \A b \in BOOLEAN : LET q == [idle EXCEPT !.live = b] IN
        /\ IsFlush(q) /\ q.at = Outbox!None /\ q.mission = 0 /\ q.todo = {} /\ ~q.requested
        /\ q.live <=> b
  BY <1>1 DEF IsFlush
<1> QED
  BY <1>2 DEF idle

LEMMA OutboxInit == Outbox!Init => PInv
<1> SUFFICES ASSUME Outbox!Init PROVE PInv
  OBVIOUS
<1> DEFINE idle == Outbox!Idle
           new == Outbox!NewRow
<1>1. /\ row = [r \in Outbox!Rows |-> new] /\ flush = [f \in 0 .. NP |-> idle]
      /\ pump = 0 /\ delivering = {} /\ owed = {}
  BY OutboxNumbers DEF Outbox!Init
<1>2. IsFlush(idle) /\ idle.at = Outbox!None
  BY IdleIs
<1>3. IsRow(new)
  <2>1. \A b \in BOOLEAN : IsRow([state |-> "none", to |-> "owner", current |-> b])
    BY DEF IsRow
  <2> QED
    BY <2>1, Zenon DEF Outbox!NewRow
<1> HIDE DEF idle, new
<1>4. PumpTyped
  BY <1>1, <1>2, <1>3, OutboxNumbers DEF PumpTyped
<1>5. RequestsHeld
  BY <1>1 DEF RequestsHeld
<1>6. Claims
  BY <1>1, <1>2 DEF Claims
<1> QED
  BY <1>4, <1>5, <1>6 DEF PInv

\* A delivery on the ledger stays there.
LEMMA RowsStep ==
    ASSUME PumpTyped, Outbox!Next
    PROVE  /\ row' = [r \in Outbox!Rows |-> row'[r]] /\ \A r \in Outbox!Rows : IsRow(row'[r])
           /\ \A r \in Outbox!Rows : Listed(r) => Listed(r)'
<1>1. row = [r \in Outbox!Rows |-> row[r]] /\ \A r \in Outbox!Rows : IsRow(row[r])
  BY DEF PumpTyped
<1>2. ASSUME NEW r \in Outbox!Rows, NEW s \in {"queued", "sent", "moot"}, row' = [row EXCEPT ![r].state = s]
      PROVE  /\ row' = [q \in Outbox!Rows |-> row'[q]] /\ \A q \in Outbox!Rows : IsRow(row'[q])
             /\ \A q \in Outbox!Rows : Listed(q) => Listed(q)'
  BY <1>1, <1>2 DEF IsRow, Listed
<1>3. CASE UNCHANGED row
  BY <1>1, <1>3 DEF Listed
<1>4. CASE \E r \in Outbox!Rows : Outbox!Enqueue(r)
  <2>1. PICK r, to : r \in Outbox!Rows /\ row' = [row EXCEPT ![r].state = "queued", ![r].to = to]
    BY <1>4 DEF Outbox!Enqueue
  <2> QED
    BY <1>1, <2>1 DEF IsRow, Listed
<1>5. CASE Outbox!Change
  <2>1. CASE \E r \in Outbox!Queued : row' = [row EXCEPT ![r].current = ~@]
    <3>1. PICK r, c : r \in Outbox!Rows /\ row' = [row EXCEPT ![r].current = c]
      BY <2>1, Zenon DEF Outbox!Queued
    <3> QED
      BY <1>1, <3>1 DEF IsRow, Listed
  <2> QED
    BY <1>3, <1>5, <2>1 DEF Outbox!Change
<1>6. CASE \E f \in Outbox!Flushers : Outbox!Walk(f)
  <2>1. PICK passed : row' = [r \in Outbox!Rows |->
              IF r \in passed /\ row[r].state = "queued" /\ Outbox!Moot(r)
              THEN [row[r] EXCEPT !.state = "moot"] ELSE row[r]]
    BY <1>6 DEF Outbox!Walk, Outbox!WalkTo
  <2>2. \A r \in Outbox!Rows : row'[r] = row[r] \/ row'[r] = [row[r] EXCEPT !.state = "moot"]
    BY <2>1
  <2>3. row' = [r \in Outbox!Rows |-> row'[r]]
    BY <2>1
  <2> QED
    BY <1>1, <2>2, <2>3 DEF IsRow, Listed
<1>7. CASE \E f \in Outbox!Flushers : Outbox!Settles(f)
  <2>1. PICK f \in Outbox!Flushers : Outbox!Settles(f)
    BY <1>7
  <2>2. CASE row' = [row EXCEPT ![flush[f].at].state = "sent"]
    <3>1. flush[f].at \in Outbox!Rows
      BY <2>1, OutboxNumbers DEF PumpTyped, IsFlush, Outbox!Settles, Outbox!Accepted, Outbox!Refused,
         Outbox!Abandoned
    <3> QED
      BY <1>2, <2>2, <3>1
  <2> QED
    BY <1>3, <2>1, <2>2 DEF Outbox!Settles, Outbox!Accepted, Outbox!Refused, Outbox!Abandoned
<1> QED
  BY <1>3, <1>4, <1>5, <1>6, <1>7
  DEF Outbox!Next, Outbox!Request, Outbox!Start, Outbox!BodyFlush, Outbox!Ages, Outbox!Crash

\* One flush is written.
LEMMA FlushStep ==
    ASSUME PumpTyped, Outbox!Next, NEW f \in 0 .. NP, NEW new, IsFlush(new),
           ~new.live => new.at = Outbox!None, flush' = [flush EXCEPT ![f] = new],
           pump' \in 0 .. NP,
           pump' # 0 => (pump' = f /\ new.live) \/ (pump' = pump /\ (pump # f \/ new.live))
    PROVE  /\ PumpTyped' /\ flush'[f] = new
           /\ \A g \in 0 .. NP : g # f => flush'[g] = flush[g]
<1>1. /\ flush' = [g \in 0 .. NP |-> flush'[g]] /\ flush'[f] = new
      /\ \A g \in 0 .. NP : g # f => flush'[g] = flush[g]
  BY DEF PumpTyped
<1>2. /\ row' = [r \in Outbox!Rows |-> row'[r]] /\ \A r \in Outbox!Rows : IsRow(row'[r])
  BY RowsStep
<1>3. \A g \in 0 .. NP : IsFlush(flush'[g]) /\ (~flush'[g].live => flush'[g].at = Outbox!None)
  BY <1>1 DEF PumpTyped
<1>4. pump' # 0 => flush'[pump'].live
  BY <1>1 DEF PumpTyped
<1>5. \A r \in Outbox!Rows : IsRow(row[r])'
  BY <1>2 DEF IsRow
<1>6. \A g \in 0 .. NP : IsFlush(flush[g])'
  BY <1>3 DEF IsFlush
<1> QED
  BY <1>1, <1>2, <1>3, <1>4, <1>5, <1>6 DEF PumpTyped

LEMMA ClaimsStep ==
    ASSUME Claims, NEW f \in 0 .. NP,
           \A g \in 0 .. NP : g # f => flush'[g].at = flush[g].at,
           \/ (flush'[f].at = Outbox!None /\ delivering' = delivering \ {flush[f].at})
           \/ (flush'[f].at = flush[f].at /\ delivering' = delivering)
           \/ /\ flush[f].at = Outbox!None /\ flush'[f].at # Outbox!None
              /\ flush'[f].at \notin delivering /\ delivering' = delivering \cup {flush'[f].at}
    PROVE  Claims'
<1>1. CASE flush'[f].at = Outbox!None /\ delivering' = delivering \ {flush[f].at}
  <2>1. \A g, h \in 0 .. NP : g # h /\ flush'[g].at # Outbox!None => flush'[g].at # flush'[h].at
    BY <1>1 DEF Claims
  <2>2. \A r : r \in delivering' <=> r # Outbox!None /\ \E g \in 0 .. NP : flush'[g].at = r
    BY <1>1 DEF Claims
  <2> QED
    BY <2>1, <2>2 DEF Claims
<1>2. CASE flush'[f].at = flush[f].at /\ delivering' = delivering
  BY <1>2 DEF Claims
<1>3. CASE /\ flush[f].at = Outbox!None /\ flush'[f].at # Outbox!None
           /\ flush'[f].at \notin delivering /\ delivering' = delivering \cup {flush'[f].at}
  <2>1. \A g \in 0 .. NP : g # f => flush[g].at # flush'[f].at
    BY <1>3 DEF Claims
  <2>2. \A g, h \in 0 .. NP : g # h /\ flush'[g].at # Outbox!None => flush'[g].at # flush'[h].at
    BY <1>3, <2>1 DEF Claims
  <2>3. \A r : r \in delivering' <=> r # Outbox!None /\ \E g \in 0 .. NP : flush'[g].at = r
    BY <1>3 DEF Claims
  <2> QED
    BY <2>2, <2>3 DEF Claims
<1> QED
  BY <1>1, <1>2, <1>3

\* What the current pump has ahead of it, it keeps ahead while nothing is requested.
LEMMA RequestsKept ==
    ASSUME RequestsHeld, PumpTyped, Outbox!Next, owed' \subseteq owed, UNCHANGED <<pending, pump>>,
           pump # 0 => flush'[pump].todo = flush[pump].todo /\ flush'[pump].mission = flush[pump].mission
                       /\ (flush[pump].requested => flush'[pump].requested)
    PROVE  RequestsHeld'
<1>1. \A r \in Outbox!Rows : Listed(r) => Listed(r)'
  BY RowsStep
<1>2. \A r \in owed' : r \in Outbox!Rows /\ Listed(r)'
  BY <1>1 DEF RequestsHeld
<1>3. ~pending' /\ pump' = 0 => owed' = {}
  BY DEF RequestsHeld
<1>4. ~pending' /\ pump' # 0 =>
        \/ flush'[pump'].requested
        \/ \A r \in owed' : r \in flush'[pump'].todo \/ flush'[pump'].mission < r[1]
  BY DEF RequestsHeld
<1> QED
  BY <1>2, <1>3, <1>4 DEF RequestsHeld

LEMMA RequestStep ==
    ASSUME PInv, Outbox!Next, UNCHANGED <<flush, pump, delivering>>,
           UNCHANGED <<pending, owed>> \/ Outbox!Request
    PROVE  PInv'
<1>1. /\ row' = [r \in Outbox!Rows |-> row'[r]] /\ \A r \in Outbox!Rows : IsRow(row'[r])
      /\ \A r \in Outbox!Rows : Listed(r) => Listed(r)'
  BY RowsStep DEF PInv
<1>2. PumpTyped'
  <2>1. \A r \in Outbox!Rows : IsRow(row[r])'
    BY <1>1 DEF IsRow
  <2>2. \A g \in 0 .. NP : IsFlush(flush[g])'
    BY DEF IsFlush, PInv, PumpTyped
  <2> QED
    BY <1>1, <2>1, <2>2 DEF PInv, PumpTyped
<1>3. Claims'
  BY DEF PInv, Claims
<1>4. RequestsHeld'
  <2>1. CASE UNCHANGED <<pending, owed>>
    BY <2>1, RequestsKept DEF PInv
  <2>2. CASE Outbox!Request
    <3>1. pending' /\ owed' = owed \cup Outbox!Queued /\ row' = row
      BY <2>2, Zenon DEF Outbox!Request
    <3>2. \A r \in owed' : r \in Outbox!Rows /\ Listed(r)
      BY <3>1 DEF Outbox!Queued, Listed, PInv, RequestsHeld
    <3>3. \A r \in owed' : r \in Outbox!Rows /\ Listed(r)'
      BY <3>1, <3>2 DEF Listed
    <3> QED
      BY <3>1, <3>3 DEF RequestsHeld
  <2> QED
    BY <2>1, <2>2
<1> QED
  BY <1>2, <1>3, <1>4 DEF PInv

LEMMA StartStep ==
    ASSUME PInv, Outbox!Next, Outbox!Start
    PROVE  PInv'
<1>1. /\ owed' = owed /\ delivering' = delivering
      /\ \A r \in owed' : r \in Outbox!Rows /\ Listed(r)'
  BY RowsStep DEF Outbox!Start, PInv, RequestsHeld
<1>2. CASE pump # 0 /\ flush' = [flush EXCEPT ![pump].requested = TRUE] /\ UNCHANGED pump
  <2>1. PICK b \in BOOLEAN : b /\ flush' = [flush EXCEPT ![pump].requested = b]
    BY <1>2, Zenon
  <2> DEFINE new == [flush[pump] EXCEPT !.requested = b]
  <2>2. pump \in 0 .. NP /\ IsFlush(flush[pump]) /\ flush[pump].live
    BY <1>2 DEF PInv, PumpTyped
  <2>3. IsFlush(new) /\ new.live /\ new.at = flush[pump].at /\ new.requested
    BY <2>1, <2>2 DEF IsFlush
  <2>4. flush' = [flush EXCEPT ![pump] = new]
    BY <2>1, <2>2 DEF PInv, PumpTyped
  <2> HIDE DEF new
  <2>5. PumpTyped' /\ flush'[pump] = new /\ \A g \in 0 .. NP : g # pump => flush'[g] = flush[g]
    BY <1>2, <2>2, <2>3, <2>4, FlushStep DEF PInv
  <2>6. Claims'
    BY <1>1, <2>2, <2>3, <2>5, ClaimsStep DEF PInv
  <2>7. RequestsHeld'
    BY <1>1, <1>2, <2>3, <2>5 DEF RequestsHeld
  <2> QED
    BY <2>5, <2>6, <2>7 DEF PInv
<1>3. CASE \E p \in Outbox!Pumps :
              ~flush[p].live /\ pump' = p /\ flush' = [flush EXCEPT ![p] = [Outbox!Idle EXCEPT !.live = TRUE]]
  <2>1. PICK p \in Outbox!Pumps, b \in BOOLEAN :
            b /\ ~flush[p].live /\ pump' = p /\ flush' = [flush EXCEPT ![p] = [Outbox!Idle EXCEPT !.live = b]]
    BY <1>3, Zenon
  <2> DEFINE new == [Outbox!Idle EXCEPT !.live = b]
  <2>2. IsFlush(new) /\ new.at = Outbox!None /\ new.mission = 0 /\ new.todo = {} /\ new.live
    BY <2>1, IdleFlush
  <2>3. p \in 1 .. NP /\ p \in 0 .. NP /\ flush' = [flush EXCEPT ![p] = new] /\ flush[p].at = Outbox!None
    BY <2>1, OutboxNumbers DEF PInv, PumpTyped
  <2> HIDE DEF new
  <2>4. PumpTyped' /\ flush'[p] = new /\ \A g \in 0 .. NP : g # p => flush'[g] = flush[g]
    BY <2>1, <2>2, <2>3, FlushStep DEF PInv
  <2>5. Claims'
    BY <1>1, <2>2, <2>3, <2>4, ClaimsStep DEF PInv
  <2>6. \A r \in owed' : 0 < r[1]
    BY <1>1, RowsAre, OutboxNumbers
  <2>7. RequestsHeld'
    <3>1. pump' # 0 /\ flush'[pump'].mission = 0
      <4>1. pump' = p /\ p # 0
        BY <2>1, <2>3
      <4> QED
        BY <2>2, <2>4, <4>1
    <3>2. \A r \in owed' : r \in flush'[pump'].todo \/ flush'[pump'].mission < r[1]
      BY <2>6, <3>1
    <3> QED
      BY <1>1, <3>1, <3>2 DEF RequestsHeld
  <2> QED
    BY <2>4, <2>5, <2>7 DEF PInv
<1> QED
  BY <1>2, <1>3 DEF Outbox!Start

\* The end of an attempt, its age, and the start of a scheduling body's flush.
LEMMA FlushOnlyStep ==
    ASSUME PInv, Outbox!Next, NEW f \in 0 .. NP, NEW new, IsFlush(new), new.live,
           flush' = [flush EXCEPT ![f] = new],
           UNCHANGED <<pending, pump, owed>>,
           f # 0 => /\ new.mission = flush[f].mission /\ new.todo = flush[f].todo
                    /\ flush[f].requested => new.requested,
           \/ new.at = flush[f].at /\ delivering' = delivering
           \/ new.at = Outbox!None /\ delivering' = delivering \ {flush[f].at}
    PROVE  PInv'
<1>1. pump' \in 0 .. NP
  BY DEF PInv, PumpTyped
<1>2. PumpTyped' /\ flush'[f] = new /\ \A g \in 0 .. NP : g # f => flush'[g] = flush[g]
  BY <1>1, FlushStep DEF PInv
<1>3. Claims'
  BY <1>2, ClaimsStep DEF PInv
<1>4. RequestsHeld'
  <2>1. pump # 0 => flush'[pump].todo = flush[pump].todo /\ flush'[pump].mission = flush[pump].mission
                    /\ (flush[pump].requested => flush'[pump].requested)
    BY <1>1, <1>2
  <2> QED
    BY <2>1, RequestsKept DEF PInv
<1> QED
  BY <1>2, <1>3, <1>4 DEF PInv

LEMMA SettlesStep ==
    ASSUME PInv, Outbox!Next, NEW f \in 0 .. NP, Outbox!Settles(f)
    PROVE  PInv'
<1>1. /\ flush[f].at # Outbox!None /\ delivering' = delivering \ {flush[f].at}
      /\ Outbox!Kept(f) \/ Outbox!Ended(f)
      /\ UNCHANGED <<pending, pump, owed>>
  BY DEF Outbox!Settles, Outbox!Accepted, Outbox!Refused, Outbox!Abandoned
<1>2. PICK old : flush' = [flush EXCEPT ![f].at = Outbox!None, ![f].seen = Outbox!Calm, ![f].old = old]
  <2>1. IsFlush(flush[f]) /\ flush = [g \in 0 .. NP |-> flush[g]]
    BY DEF PInv, PumpTyped
  <2>2. CASE Outbox!Kept(f)
    <3>1. flush' = [flush EXCEPT ![f].at = Outbox!None, ![f].seen = Outbox!Calm, ![f].old = flush[f].old]
      BY <2>1, <2>2 DEF Outbox!Kept, IsFlush
    <3> QED
      BY <3>1
  <2>3. CASE Outbox!Ended(f)
    BY <2>3, Zenon DEF Outbox!Ended
  <2> QED
    BY <1>1, <2>2, <2>3
<1> DEFINE new == [flush[f] EXCEPT !.at = Outbox!None, !.seen = Outbox!Calm, !.old = old]
<1>3. /\ IsFlush(new) /\ new.live /\ new.at = Outbox!None /\ new.mission = flush[f].mission
      /\ new.todo = flush[f].todo /\ (flush[f].requested => new.requested)
  BY <1>1 DEF PInv, PumpTyped, IsFlush
<1>4. flush' = [flush EXCEPT ![f] = new]
  BY <1>2 DEF PInv, PumpTyped
<1> HIDE DEF new
<1> QED
  BY <1>1, <1>3, <1>4, FlushOnlyStep

LEMMA AgesStep ==
    ASSUME PInv, Outbox!Next, NEW f \in 0 .. NP, Outbox!Ages(f)
    PROVE  PInv'
<1>1. PICK old : flush' = [flush EXCEPT ![f].old = old]
  BY DEF Outbox!Ages
<1>2. /\ flush[f].at # Outbox!None /\ delivering' = delivering /\ UNCHANGED <<pending, pump, owed>>
  BY DEF Outbox!Ages
<1> DEFINE new == [flush[f] EXCEPT !.old = old]
<1>3. /\ IsFlush(new) /\ new.live /\ new.at = flush[f].at /\ new.mission = flush[f].mission
      /\ new.todo = flush[f].todo /\ (flush[f].requested => new.requested)
  BY <1>2 DEF PInv, PumpTyped, IsFlush
<1>4. flush' = [flush EXCEPT ![f] = new]
  BY <1>1 DEF PInv, PumpTyped
<1> HIDE DEF new
<1> QED
  BY <1>2, <1>3, <1>4, FlushOnlyStep

LEMMA BodyFlushStep ==
    ASSUME PInv, Outbox!Next, NEW m \in 1 .. NM, Outbox!BodyFlush(m)
    PROVE  PInv'
<1>1. PICK b \in BOOLEAN, todo \in SUBSET Outbox!Rows :
        b /\ flush' = [flush EXCEPT ![0].live = b, ![0].mission = m, ![0].todo = todo]
  <2>1. \E todo \in SUBSET Outbox!Rows :
          flush' = [flush EXCEPT ![0].live = TRUE, ![0].mission = m, ![0].todo = todo]
    BY OutboxNumbers, Zenon DEF Outbox!BodyFlush
  <2> QED
    BY <2>1, Zenon
<1>2. delivering' = delivering /\ UNCHANGED <<pending, pump, owed>>
  BY DEF Outbox!BodyFlush
<1> DEFINE new == [flush[0] EXCEPT !.live = b, !.mission = m, !.todo = todo]
<1>3. 0 \in 0 .. NP
  BY OutboxNumbers
<1>4. IsFlush(new) /\ new.live /\ new.at = flush[0].at
  <2>1. IsFlush(flush[0]) /\ m \in Nat
    BY <1>3, OutboxNumbers DEF PInv, PumpTyped
  <2> QED
    BY <1>1, <2>1 DEF IsFlush
<1>5. flush' = [flush EXCEPT ![0] = new]
  BY <1>1, <1>3 DEF PInv, PumpTyped
<1> HIDE DEF new
<1>6. PICK f \in 0 .. NP : f = 0 /\ flush' = [flush EXCEPT ![f] = new] /\ new.at = flush[f].at
  BY <1>3, <1>4, <1>5
<1>7. IsFlush(new) /\ new.live
  BY <1>4
<1> QED
  BY <1>2, <1>6, <1>7, FlushOnlyStep

\* A walk of the current pump up to a row leaves every later row ahead; one to the end
\* leaves none of what was requested.
LEMMA WalkStep ==
    ASSUME PInv, Outbox!Next, NEW f \in 0 .. NP, NEW at \in Outbox!Rows \cup {Outbox!None},
           flush[f].live, flush[f].at = Outbox!None,
           at # Outbox!None => at \notin delivering, Outbox!WalkTo(f, at)
    PROVE  PInv'
<1> DEFINE ahead == Outbox!Ahead(f)
           passed == {r \in ahead : at = Outbox!None \/ Outbox!Before(r, at)}
           again == at = Outbox!None /\ f = pump /\ flush[f].requested
<1>1. /\ owed' = owed \ (passed \cup {at}) /\ delivering' = delivering \cup ({at} \ {Outbox!None})
      /\ flush' = [flush EXCEPT ![f] =
            IF at # Outbox!None
            THEN [@ EXCEPT !.at = at, !.mission = at[1], !.seen = starved'[at[1]],
                           !.todo = {r \in ahead : r[1] = at[1] /\ Outbox!Before(at, r)}]
            ELSE [Outbox!Idle EXCEPT !.live = again]]
      /\ pump' = IF at = Outbox!None /\ f = pump /\ ~again THEN 0 ELSE pump
      /\ pending' = pending
  BY DEF Outbox!WalkTo
<1>2. \A r : r \in ahead <=> \/ r \in flush[f].todo
                             \/ f # 0 /\ f = pump /\ r \in Outbox!Rows /\ r[1] > flush[f].mission /\ Listed(r)
  BY OutboxNumbers DEF Outbox!Ahead, Listed
<1>3. flush[f].todo \subseteq Outbox!Rows /\ IsFlush(flush[f]) /\ pump \in 0 .. NP /\ flush[f].mission \in Nat
  BY DEF PInv, PumpTyped, IsFlush
<1>4. /\ \A r \in owed' : /\ r \in owed /\ r \in Outbox!Rows /\ Listed(r) /\ Listed(r)'
                            /\ r \notin passed /\ r # at
      /\ \A r \in Outbox!Rows : Listed(r) => Listed(r)'
  <2>1. \A r \in owed' : r \in owed /\ r \notin passed /\ r # at
    BY <1>1
  <2> HIDE DEF passed
  <2> QED
    BY <2>1, RowsStep DEF PInv, RequestsHeld
<1> HIDE DEF ahead
<1>5. CASE at = Outbox!None
  <2>1. \A r \in owed' : r \notin ahead
    BY <1>4, <1>5
  <2>2. PICK b \in BOOLEAN : /\ b <=> (f = pump /\ flush[f].requested)
                             /\ flush' = [flush EXCEPT ![f] = [Outbox!Idle EXCEPT !.live = b]]
    <3>1. again \in BOOLEAN /\ (again <=> (f = pump /\ flush[f].requested))
      BY <1>5
    <3>2. flush' = [flush EXCEPT ![f] = [Outbox!Idle EXCEPT !.live = again]]
      BY <1>1, <1>5, Zenon
    <3> HIDE DEF again
    <3> QED
      BY <3>1, <3>2
  <2>3. delivering' = delivering \ {flush[f].at}
    BY <1>1, <1>5 DEF PInv, Claims
  <2>4. pump' = IF f = pump /\ ~b THEN 0 ELSE pump
    BY <1>1, <1>5, <2>2
  <2> DEFINE new == [Outbox!Idle EXCEPT !.live = b]
  <2>5. IsFlush(new) /\ new.at = Outbox!None /\ new.mission = 0 /\ new.todo = {} /\ (new.live <=> b)
    BY <2>2, IdleFlush
  <2>6. flush' = [flush EXCEPT ![f] = new]
    BY <2>2
  <2> HIDE DEF new, passed, again
  <2>7. PumpTyped' /\ flush'[f] = new /\ \A g \in 0 .. NP : g # f => flush'[g] = flush[g]
    <3>1. pump' \in 0 .. NP
      BY <1>3, <2>4, OutboxNumbers
    <3>2. pump' # 0 => (pump' = f /\ new.live) \/ (pump' = pump /\ (pump # f \/ new.live))
      <4>1. CASE f = pump /\ ~b
        BY <2>4, <4>1
      <4>2. CASE ~(f = pump /\ ~b)
        <5>1. pump' = pump
          BY <2>4, <4>2
        <5>2. f = pump => new.live
          BY <2>5, <4>2
        <5> QED
          BY <5>1, <5>2
      <4> QED
        BY <4>1, <4>2
    <3> QED
      BY <2>5, <2>6, <3>1, <3>2, FlushStep DEF PInv
  <2>8. Claims'
    BY <2>3, <2>5, <2>7, ClaimsStep DEF PInv
  <2>9. RequestsHeld'
    <3>1. CASE pump = 0
      <4>1. pump' = 0 /\ (~pending => owed' = {})
        BY <1>4, <2>4, <3>1 DEF PInv, RequestsHeld
      <4> QED
        BY <1>1, <1>4, <4>1 DEF RequestsHeld
    <3>2. CASE pump # 0 /\ f # pump
      <4>1. pump' = pump /\ flush'[pump] = flush[pump]
        BY <1>3, <2>4, <2>7, <3>2
      <4> QED
        BY <1>1, <1>4, <3>2, <4>1 DEF PInv, RequestsHeld
    <3>3. CASE pump # 0 /\ f = pump /\ b
      <4>1. pump' = pump /\ flush'[pump'].mission = 0 /\ pump' # 0
        BY <2>4, <2>5, <2>7, <3>3
      <4>2. \A r \in owed' : 0 < r[1]
        BY <1>4, RowsAre, OutboxNumbers
      <4> QED
        BY <1>4, <4>1, <4>2 DEF RequestsHeld
    <3>4. CASE pump # 0 /\ f = pump /\ ~b
      <4>1. pump' = 0 /\ ~flush[pump].requested
        BY <2>2, <2>4, <3>4
      <4>2. ~pending => owed' = {}
        <5> SUFFICES ASSUME ~pending, NEW r \in owed' PROVE FALSE
          OBVIOUS
        <5>1. r \in flush[pump].todo \/ flush[pump].mission < r[1]
          BY <1>4, <3>4, <4>1 DEF PInv, RequestsHeld
        <5>2. r[1] \in Nat
          BY <1>4, RowsAre, OutboxNumbers
        <5>3. r \in ahead
          BY <1>2, <1>3, <1>4, <3>4, <5>1, <5>2
        <5> QED
          BY <2>1, <5>3
      <4> QED
        BY <1>1, <1>4, <4>1, <4>2 DEF RequestsHeld
    <3> QED
      BY <3>1, <3>2, <3>3, <3>4
  <2> QED
    BY <2>7, <2>8, <2>9 DEF PInv
<1>6. CASE at # Outbox!None
  <2> DEFINE todo == {r \in ahead : r[1] = at[1] /\ Outbox!Before(at, r)}
             noted == starved'[at[1]]
             new == [flush[f] EXCEPT !.at = at, !.mission = at[1], !.seen = noted, !.todo = todo]
  <2>1. at \in Outbox!Rows /\ at[1] \in Nat /\ at[2] \in Nat
    BY <1>6, RowsAre, OutboxNumbers
  <2>2. todo \in SUBSET Outbox!Rows
    BY <1>2, <1>3
  <2>3. flush' = [flush EXCEPT ![f] = new]
    BY <1>1, <1>6 DEF PInv, PumpTyped
  <2>4. pump' = pump /\ delivering' = delivering \cup {at}
    BY <1>1, <1>6
  <2> HIDE DEF todo, noted
  <2>5. /\ IsFlush(new) /\ new.live /\ new.at = at /\ new.mission = at[1] /\ new.todo = todo
        /\ flush[f].requested => new.requested
    BY <1>3, <2>1, <2>2 DEF IsFlush
  <2> HIDE DEF new, passed, again
  <2>6. PumpTyped' /\ flush'[f] = new /\ \A g \in 0 .. NP : g # f => flush'[g] = flush[g]
    <3>1. pump' \in 0 .. NP /\ (pump = f \/ pump # f)
      BY <1>3, <2>4
    <3> QED
      BY <2>3, <2>4, <2>5, <3>1, FlushStep DEF PInv
  <2>7. Claims'
    BY <1>6, <2>4, <2>5, <2>6, ClaimsStep DEF PInv
  <2>8. ASSUME ~pending, f # 0, f = pump, ~flush[f].requested, NEW r \in owed'
        PROVE  r \in todo \/ at[1] < r[1]
    <3>1. r[1] \in Nat /\ r[2] \in Nat /\ r = <<r[1], r[2]>> /\ at = <<at[1], at[2]>>
      BY <1>4, <2>1, RowsAre, OutboxNumbers
    <3>2. r \in flush[f].todo \/ flush[f].mission < r[1]
      BY <1>4, <2>8 DEF PInv, RequestsHeld
    <3>3. r \in ahead
      BY <1>2, <1>3, <1>4, <2>8, <3>1, <3>2
    <3>4. ~Outbox!Before(r, at) /\ r # at
      <4>1. r \notin passed /\ r # at
        BY <1>4
      <4> QED
        BY <3>3, <4>1 DEF passed
    <3>5. at[1] < r[1] \/ (at[1] = r[1] /\ at[2] < r[2])
      BY <2>1, <3>1, <3>4 DEF Outbox!Before
    <3> QED
      BY <3>3, <3>5 DEF todo, Outbox!Before
  <2>9. RequestsHeld'
    <3>1. CASE pump = 0
      <4>1. pump' = 0 /\ (~pending => owed' = {})
        BY <1>4, <2>4, <3>1 DEF PInv, RequestsHeld
      <4> QED
        BY <1>1, <1>4, <4>1 DEF RequestsHeld
    <3>2. CASE pump # 0 /\ f # pump
      <4>1. pump' = pump /\ flush'[pump] = flush[pump]
        BY <1>3, <2>4, <2>6, <3>2
      <4> QED
        BY <1>1, <1>4, <3>2, <4>1 DEF PInv, RequestsHeld
    <3>3. CASE pump # 0 /\ f = pump
      <4>1. pump' = f /\ flush'[pump'] = new
        BY <2>4, <2>6, <3>3
      <4>2. ~pending => new.requested \/ \A r \in owed' : r \in new.todo \/ new.mission < r[1]
        BY <2>5, <2>8, <3>3
      <4> QED
        BY <1>1, <1>4, <3>3, <4>1, <4>2 DEF RequestsHeld
    <3> QED
      BY <3>1, <3>2, <3>3
  <2> QED
    BY <2>6, <2>7, <2>9 DEF PInv
<1> QED
  BY <1>5, <1>6

LEMMA OutboxStep == PInv /\ Outbox!Next => PInv'
<1> SUFFICES ASSUME PInv, Outbox!Next PROVE PInv'
  OBVIOUS
<1>1. CASE \E f \in Outbox!Flushers : Outbox!Walk(f)
  <2>1. PICK f \in 0 .. NP : Outbox!Walk(f)
    BY <1>1, OutboxNumbers
  <2>2. flush[f].live /\ flush[f].at = Outbox!None
    BY <2>1 DEF Outbox!Walk, Outbox!Walking
  <2>3. CASE Outbox!WalkTo(f, Outbox!None)
    BY <2>2, <2>3, WalkStep
  <2>4. CASE \E at \in Outbox!FirstOf({r \in Outbox!Ahead(f) : Outbox!Attemptable(r)}) : Outbox!WalkTo(f, at)
    <3>1. PICK at \in Outbox!FirstOf({r \in Outbox!Ahead(f) : Outbox!Attemptable(r)}) : Outbox!WalkTo(f, at)
      BY <2>4
    <3>2. at \in Outbox!Ahead(f) /\ Outbox!Attemptable(at)
      BY <3>1 DEF Outbox!FirstOf
    <3>3. at \in Outbox!Rows
      BY <3>2 DEF Outbox!Ahead, PInv, PumpTyped, IsFlush
    <3>4. at \notin delivering
      BY <3>2 DEF Outbox!Attemptable
    <3> QED
      BY <2>2, <3>1, <3>3, <3>4, WalkStep
  <2> QED
    BY <2>1, <2>3, <2>4 DEF Outbox!Walk
<1>2. CASE \E f \in Outbox!Flushers : Outbox!Settles(f)
  BY <1>2, OutboxNumbers, SettlesStep
<1>3. CASE \E f \in Outbox!Flushers : Outbox!Ages(f)
  BY <1>3, OutboxNumbers, AgesStep
<1>4. CASE \E m \in Outbox!Missions : Outbox!BodyFlush(m)
  BY <1>4, OutboxNumbers, BodyFlushStep
<1>5. CASE Outbox!Start
  BY <1>5, StartStep
<1>6. CASE Outbox!Request
  <2>1. UNCHANGED <<flush, pump, delivering>>
    BY <1>6 DEF Outbox!Request
  <2> QED
    BY <1>6, <2>1, RequestStep
<1>7. CASE Outbox!Change \/ \E r \in Outbox!Rows : Outbox!Enqueue(r)
  <2>1. UNCHANGED <<flush, pump, delivering, pending, owed>>
    BY <1>7 DEF Outbox!Change, Outbox!Enqueue
  <2> QED
    BY <2>1, RequestStep
<1>8. CASE Outbox!Crash
  <2> DEFINE idle == Outbox!Idle
  <2>1. /\ flush' = [f \in 0 .. NP |-> idle] /\ pump' = 0 /\ delivering' = {} /\ owed' = {}
    BY <1>8, OutboxNumbers DEF Outbox!Crash
  <2>2. IsFlush(idle) /\ idle.at = Outbox!None
    BY IdleIs
  <2> HIDE DEF idle
  <2>3. \A f \in 0 .. NP : flush'[f] = idle /\ IsFlush(flush'[f])
    BY <2>1, <2>2
  <2>4. PumpTyped'
    <3>1. \A r \in Outbox!Rows : IsRow(row[r])'
      BY RowsStep DEF PInv, IsRow
    <3>2. \A g \in 0 .. NP : IsFlush(flush[g])'
      BY <2>3 DEF IsFlush
    <3>3. row' = [r \in Outbox!Rows |-> row'[r]]
      BY RowsStep DEF PInv
    <3> QED
      BY <2>1, <2>2, <2>3, <3>1, <3>2, <3>3, OutboxNumbers DEF PumpTyped
  <2>5. RequestsHeld' /\ Claims'
    BY <2>1, <2>2, <2>3 DEF RequestsHeld, Claims
  <2> QED
    BY <2>4, <2>5 DEF PInv
<1> QED
  BY <1>1, <1>2, <1>3, <1>4, <1>5, <1>6, <1>7, <1>8 DEF Outbox!Next

\* What the outbox promises follows from the invariant.
LEMMA OutboxFollows == PInv => Outbox!RequestsAnswered /\ Outbox!OneAttempt
<1> SUFFICES ASSUME PInv PROVE Outbox!RequestsAnswered /\ Outbox!OneAttempt
  OBVIOUS
<1>1. Outbox!RequestsAnswered
  BY DEF PInv, RequestsHeld, Outbox!RequestsAnswered
<1>2. delivering = {flush[f].at : f \in 0 .. NP} \ {Outbox!None}
  <2>1. \A r : r \in delivering <=> r \in {flush[f].at : f \in 0 .. NP} \ {Outbox!None}
    BY DEF PInv, Claims
  <2> QED
    BY <2>1
<1> QED
  BY <1>1, <1>2, OutboxNumbers DEF PInv, Claims, Outbox!OneAttempt

\* What a mission's row records of a starved delivery.
StarvedTyped == starved = [m \in 1 .. NM |-> starved[m]]

\* It is cleared only by the end of the delivery it names.
LEMMA StarvedStep ==
    ASSUME PInv, StarvedTyped, Outbox!Next
    PROVE  /\ StarvedTyped'
           /\ \A m \in Outbox!Missions : starved[m] # Outbox!Calm /\ starved'[m] = Outbox!Calm
                  => row'[starved[m][1]].state # "queued"
<1> DEFINE Kept == \A m \in 1 .. NM : starved[m] # Outbox!Calm /\ starved'[m] = Outbox!Calm
                      => row'[starved[m][1]].state # "queued"
<1> SUFFICES StarvedTyped' /\ Kept
  BY OutboxNumbers
<1>1. CASE UNCHANGED starved
  BY <1>1 DEF StarvedTyped
<1>2. \A r : Outbox!StarvedAgain(r) # Outbox!Calm
  BY DEF Outbox!StarvedAgain, Outbox!Calm
<1>3. CASE \E f \in Outbox!Flushers : Outbox!Walk(f)
  <2>1. PICK f, at : Outbox!WalkTo(f, at)
    BY <1>3 DEF Outbox!Walk
  <2> DEFINE passed == {r \in Outbox!Ahead(f) : at = Outbox!None \/ Outbox!Before(r, at)}
             gone == {r \in passed : Outbox!Gone(r)}
  <2>2. starved' = [m \in 1 .. NM |->
             LET lost == {r \in gone : r[1] = m} IN
             IF lost = {} THEN starved[m]
             ELSE Outbox!StarvedAgain(CHOOSE r \in lost : \A s \in lost : s[2] <= r[2])]
    BY <2>1, OutboxNumbers DEF Outbox!WalkTo
  <2> HIDE DEF passed, gone
  <2>3. \A m \in 1 .. NM : starved'[m] = starved[m] \/ \E r : starved'[m] = Outbox!StarvedAgain(r)
    BY <2>2, Zenon
  <2>4. StarvedTyped'
    <3> DEFINE F(m) == LET lost == {r \in gone : r[1] = m} IN
             IF lost = {} THEN starved[m]
             ELSE Outbox!StarvedAgain(CHOOSE r \in lost : \A s \in lost : s[2] <= r[2])
    <3>1. starved' = [m \in 1 .. NM |-> F(m)]
      BY <2>2, Zenon
    <3> HIDE DEF F
    <3> QED
      BY <3>1 DEF StarvedTyped
  <2> QED
    BY <1>2, <2>3, <2>4, Zenon
<1>4. CASE \E f \in Outbox!Flushers : Outbox!Settles(f)
  <2>1. PICK f \in 0 .. NP : Outbox!Settles(f)
    BY <1>4, OutboxNumbers
  <2> DEFINE r == flush[f].at
  <2>2. r \in Outbox!Rows /\ r[1] \in 1 .. NM
    BY <2>1, RowsAre DEF PInv, PumpTyped, IsFlush, Outbox!Settles, Outbox!Accepted, Outbox!Refused,
       Outbox!Abandoned
  <2>3. CASE Outbox!Accepted(f)
    <3>1. CASE /\ flush[f].seen[1] = r /\ starved[r[1]] = flush[f].seen
               /\ starved' = [starved EXCEPT ![r[1]] = Outbox!Calm]
      <4>1. row'[r].state # "queued"
        <5>1. CASE row[r].state = "queued"
          <6>1. row' = [row EXCEPT ![r].state = "sent"]
            BY <2>3, <5>1 DEF Outbox!Accepted
          <6> QED
            BY <2>2, <6>1 DEF PInv, PumpTyped, IsRow
        <5>2. CASE row[r].state # "queued"
          <6>1. row' = row
            BY <2>3, <5>2 DEF Outbox!Accepted
          <6> QED
            BY <5>2, <6>1
        <5> QED
          BY <5>1, <5>2
      <4>2. \A m \in 1 .. NM : m # r[1] => starved'[m] = starved[m]
        BY <2>2, <3>1 DEF StarvedTyped
      <4>3. starved[r[1]][1] = r
        BY <3>1
      <4>4. StarvedTyped'
        BY <3>1 DEF StarvedTyped
      <4> QED
        BY <4>1, <4>2, <4>3, <4>4
    <3> QED
      BY <1>1, <2>3, <3>1 DEF Outbox!Accepted
  <2>4. CASE starved' = [starved EXCEPT ![r[1]] = Outbox!StarvedAgain(r)]
    <3>1. \A m \in 1 .. NM : starved'[m] = starved[m] \/ starved'[m] # Outbox!Calm
      BY <1>2, <2>2, <2>4 DEF StarvedTyped
    <3>2. StarvedTyped'
      BY <2>4 DEF StarvedTyped
    <3> QED
      BY <3>1, <3>2
  <2> QED
    BY <2>1, <2>3, <2>4 DEF Outbox!Settles, Outbox!Refused, Outbox!Abandoned
<1> QED
  BY <1>1, <1>3, <1>4
  DEF Outbox!Next, Outbox!Enqueue, Outbox!Change, Outbox!Request, Outbox!Start, Outbox!BodyFlush, Outbox!Ages,
      Outbox!Crash

-----------------------------------------------------------------------------

\* The invariants of the two parts together.
NInv == TInv /\ PInv /\ StarvedTyped

\* The questions, the notices and the outbox leave each other alone.
LEMMA NoticesStep ==
    NInv /\ [NoticesNext]_<<part, vars, pumpVars, ledgerVars>> => NInv'
<1> SUFFICES ASSUME TInv, PInv, StarvedTyped, [NoticesNext]_<<part, vars, pumpVars, ledgerVars>>
             PROVE  TInv' /\ PInv' /\ StarvedTyped'
  BY DEF NInv
<1>1. UNCHANGED ledgerVars => TInv'
  <2> SUFFICES ASSUME UNCHANGED ledgerVars PROVE TInv'
    OBVIOUS
  <2>1. UNCHANGED <<ledger, spent, window, attempts, taken>>
    BY DEF ledgerVars
  <2>2. /\ window \in [count : Nat, summary : 0 .. ND] /\ taken \in [1 .. ND -> SUBSET Told!Items]
        /\ \A e \in 1 .. ND : taken[e] # {} => ledger[e].handed /\ taken[e] = ledger[e].content
    BY DEF TInv, LedgerTyped, HandedFirst
  <2> QED
    BY <2>1, <2>2, QuietStep
<1>2. UNCHANGED pumpVars => PInv'
  <2> SUFFICES ASSUME UNCHANGED pumpVars PROVE PInv'
    OBVIOUS
  <2>1. UNCHANGED <<row, pending, pump, flush, delivering, owed>>
    BY DEF pumpVars
  <2>2. PumpTyped' /\ RequestsHeld'
    BY <2>1 DEF PInv, PumpTyped, IsFlush, IsRow, RequestsHeld, Listed
  <2>3. Claims'
    BY <2>1 DEF PInv, Claims
  <2> QED
    BY <2>2, <2>3 DEF PInv
<1>3. Told!Next => TInv'
  BY ToldStep
<1>4. Outbox!Next => PInv' /\ StarvedTyped'
  BY OutboxStep, StarvedStep
<1>5. UNCHANGED pumpVars => StarvedTyped'
  BY DEF pumpVars, StarvedTyped
<1> QED
  BY <1>1, <1>2, <1>3, <1>4, <1>5 DEF NoticesNext

\* What the ledger and the outbox rest on, in every state (the invariants above).
THEOREM NoticesInvariant == NoticesSpec => []NInv
<1>1. NoticesInit => TInv /\ PInv
  BY LedgerInit, OutboxInit DEF NoticesInit
<1>2. NoticesInit => StarvedTyped
  BY OutboxNumbers DEF NoticesInit, Outbox!Init, StarvedTyped
<1>3. NoticesInit => NInv
  BY <1>1, <1>2 DEF NInv
<1> QED
  BY <1>3, NoticesStep, PTL DEF NoticesSpec

\* What the run `notices` checks of the ledger and of the outbox: a fact, and each of its
\* reminders, is told under one delivery, the owner reads what its row records, and a request
\* is answered by a sweep that starts after it, one flush to a delivery at a time.
THEOREM ToldUnderOneDelivery == NoticesSpec => []ToldOnce
<1>1. NInv => ToldOnce
  BY ToldFollows, OutboxFollows DEF ToldOnce, NInv
<1> QED
  BY <1>1, NoticesInvariant, PTL

\* Nothing joins a delivery once it was handed over (Handoff, the window's summary).
THEOREM HandedOverIsFrozen == NoticesSpec => Told!FrozenOnceHanded
<1>1. ASSUME NInv, [NoticesNext]_<<part, vars, pumpVars, ledgerVars>>
      PROVE  [\A d \in Told!Ids : ledger[d].handed => /\ ledger'[d].items = ledger[d].items
                                                      /\ ledger'[d].content = ledger[d].content]_Told!vars
  <2> SUFFICES ASSUME ~UNCHANGED Told!vars
               PROVE  \A d \in Told!Ids : ledger[d].handed => /\ ledger'[d].items = ledger[d].items
                                                              /\ ledger'[d].content = ledger[d].content
    OBVIOUS
  <2>0. TInv
    BY <1>1 DEF NInv
  <2>1. Told!Next
    BY <1>1 DEF NoticesNext, ledgerVars, Told!vars
  <2>2. SUFFICES ASSUME NEW d \in 1 .. ND, ledger[d].handed
                 PROVE  ledger'[d].items = ledger[d].items /\ ledger'[d].content = ledger[d].content
    BY NoticeNumbers
  <2>3. ledger \in [1 .. ND -> Notices] /\ ledger[d] \in Notices
    BY <2>0 DEF TInv, LedgerTyped
  <2>4. CASE UNCHANGED ledger
    BY <2>4
  <2>5. ASSUME NEW e \in Told!NextId, NEW new, ledger' = [ledger EXCEPT ![e] = new] PROVE ledger'[d] = ledger[d]
    BY <2>0, <2>2, <2>3, <2>5, FreshId
  <2>6. ASSUME NEW items, Told!Carry(items) PROVE ledger'[d] = ledger[d]
    <3>1. CASE \E e \in Told!NextId : ledger' = [ledger EXCEPT ![e] = Told!Note("row", items)]
      BY <2>5, <3>1
    <3>2. CASE \E e \in Told!NextId : ledger' = [ledger EXCEPT ![e] = Told!Note("summary", items)]
      BY <2>5, <3>2
    <3>3. CASE Told!InReach /\ ledger' = [ledger EXCEPT ![window.summary].items = @ \cup items,
                                                        ![window.summary].content = @ \cup items]
      <4>1. window.summary # d
        BY <2>0, <2>2, <3>3 DEF Told!InReach, TInv, HandedFirst
      <4> QED
        BY <2>3, <3>3, <4>1
    <3> QED
      BY <2>6, <3>1, <3>2, <3>3 DEF Told!Carry
  <2>7. CASE \E f \in Told!Facts : Told!Record(f)
    <3>1. PICK f \in Told!Facts : Told!Record(f)
      BY <2>7
    <3>2. CASE \E e \in Told!NextId :
                 ledger' = [ledger EXCEPT ![e] = [Told!Note("row", {<<f, 0>>}) EXCEPT !.covered = TRUE]]
      BY <2>5, <3>2
    <3>3. CASE Told!Carry({<<f, 0>>})
      BY <2>6, <3>3
    <3> QED
      BY <3>1, <3>2, <3>3 DEF Told!Record
  <2>8. CASE \E e \in Told!Ids : Told!Remind(e)
    <3>1. PICK e \in Told!Ids : Told!Remind(e)
      BY <2>8
    <3>2. Told!Carry(Told!Reminders(Told!Owing(e)))
      BY <3>1 DEF Told!Remind
    <3> QED
      BY <2>6, <3>2
  <2>9. CASE \E e \in Told!Ids : Told!Handoff(e)
    <3>1. PICK e, b, content :
              \/ UNCHANGED ledger
              \/ ~ledger[e].handed /\ ledger' = [ledger EXCEPT ![e].handed = b, ![e].content = content]
      BY <2>9, Zenon DEF Told!Handoff
    <3> QED
      BY <2>2, <2>3, <3>1
  <2>10. CASE \E e \in Told!Ids : Told!Acknowledge(e)
    <3>1. PICK e \in Told!Ids, b \in BOOLEAN : ledger' = [ledger EXCEPT ![e].delivered = b]
      BY <2>10, Zenon DEF Told!Acknowledge
    <3> QED
      BY <2>3, <3>1 DEF Notices
  <2> QED
    BY <2>1, <2>4, <2>7, <2>8, <2>9, <2>10
    DEF Told!Next, Told!Turn, Told!WindowRolls, Told!Crash, Told!Unacknowledged
<1> QED
  BY <1>1, NoticesInvariant, PTL DEF NoticesSpec, Told!FrozenOnceHanded

\* A reminder spends the allowance of the facts it names and of no other
\* (followupObligations).
THEOREM RemindersSpendTheirs == NoticesSpec => Told!RemindersNamed
<1>1. ASSUME NInv, [NoticesNext]_<<part, vars, pumpVars, ledgerVars>>
      PROVE  [\A f \in Told!Facts : spent'[f] # spent[f] =>
                 /\ f \in stands
                 /\ \E d \in Told!Ids : <<f, spent'[f]>> \in ledger'[d].items]_Told!vars
  <2> SUFFICES ASSUME ~UNCHANGED Told!vars
               PROVE  \A f \in Told!Facts : spent'[f] # spent[f] =>
                          f \in stands /\ \E d \in Told!Ids : <<f, spent'[f]>> \in ledger'[d].items
    OBVIOUS
  <2>0. TInv
    BY <1>1 DEF NInv
  <2>1. Told!Next
    BY <1>1 DEF NoticesNext, ledgerVars, Told!vars
  <2>2. SUFFICES ASSUME NEW f \in 1 .. NF, spent'[f] # spent[f]
                 PROVE  f \in stands /\ \E d \in 1 .. ND : <<f, spent'[f]>> \in ledger'[d].items
    BY NoticeNumbers
  <2>3. PICK e \in Told!Ids : Told!Remind(e)
    BY <2>1, <2>2 DEF Told!Next, Told!Turn, Told!WindowRolls, Told!Crash, Told!Record, Told!Handoff,
       Told!Acknowledge, Told!Unacknowledged
  <2> DEFINE due == Told!Owing(e)
             items == Told!Reminders(due)
  <2>4. f \in due /\ spent'[f] = spent[f] + 1 /\ Told!Carry(items)
    BY <2>2, <2>3, NoticeNumbers DEF Told!Remind
  <2>5. f \in stands /\ <<f, spent'[f]>> \in items
    BY <2>4 DEF Told!Owing, Told!Reminders
  <2>6. items \in SUBSET Told!Items
    <3>1. spent \in [1 .. NF -> Nat]
      BY <2>0 DEF TInv, LedgerTyped
    <3>2. \A g \in due : g \in 1 .. NF /\ spent[g] + 1 \in 0 .. Followups
      BY <3>1, NoticeNumbers DEF Told!Owing
    <3> QED
      BY <3>2, NoticeNumbers DEF Told!Reminders, Told!Items
  <2> HIDE DEF due, items
  <2>7. ledger \in [1 .. ND -> Notices]
    BY <2>0 DEF TInv, LedgerTyped
  <2>8. ASSUME NEW kind \in {"row", "summary"}, NEW d \in Told!NextId,
               ledger' = [ledger EXCEPT ![d] = Told!Note(kind, items)]
        PROVE  d \in 1 .. ND /\ items \subseteq ledger'[d].items
    BY <2>0, <2>6, <2>7, <2>8, FreshId, NewNotice
  <2>9. CASE \E d \in Told!NextId : ledger' = [ledger EXCEPT ![d] = Told!Note("row", items)]
    BY <2>5, <2>8, <2>9
  <2>10. CASE \E d \in Told!NextId : ledger' = [ledger EXCEPT ![d] = Told!Note("summary", items)]
    BY <2>5, <2>8, <2>10
  <2>11. CASE Told!InReach /\ ledger' = [ledger EXCEPT ![window.summary].items = @ \cup items,
                                                       ![window.summary].content = @ \cup items]
    <3>1. window.summary \in 1 .. ND
      BY <2>0, <2>11 DEF Told!InReach, TInv, LedgerTyped
    <3>2. items \subseteq ledger'[window.summary].items
      BY <2>7, <2>11, <3>1 DEF Notices
    <3> QED
      BY <2>5, <3>1, <3>2
  <2> QED
    BY <2>4, <2>9, <2>10, <2>11 DEF Told!Carry
<1> QED
  BY <1>1, NoticesInvariant, PTL DEF NoticesSpec, Told!RemindersNamed

\* What a mission's row records about a starved delivery is cleared only by the end of the
\* one it names (flushOutbox).
THEOREM StarvationIsKept == NoticesSpec => Outbox!StarvationKept
<1>1. ASSUME NInv, [NoticesNext]_<<part, vars, pumpVars, ledgerVars>>
      PROVE  [\A m \in Outbox!Missions : starved[m] # Outbox!Calm /\ starved'[m] = Outbox!Calm
                  => row'[starved[m][1]].state # "queued"]_Outbox!vars
  <2>1. Outbox!Next \/ UNCHANGED Outbox!vars
    BY <1>1 DEF NoticesNext, pumpVars, Outbox!vars
  <2> QED
    BY <1>1, <2>1, StarvedStep DEF NInv
<1> QED
  BY <1>1, NoticesInvariant, PTL DEF NoticesSpec, Outbox!StarvationKept
=============================================================================
