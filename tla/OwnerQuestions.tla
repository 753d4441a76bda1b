---------------------------- MODULE OwnerQuestions ----------------------------
(***************************************************************************)
(* The reply protocol between members and the owner: a question is a       *)
(* receipt on the deliveries ledger (SwarmRuntime.message, post, receipt), *)
(* an answer is a durable link to it that waits for the mission to run     *)
(* again, and the guard of src/owner-reply.ts watches the owner's turns:   *)
(* it books the questions a turn saw, and each completed turn that leaves  *)
(* one open is a nudge, until the bound is spent and the guard terminal    *)
(* hands the decision over.                                                *)
(***************************************************************************)
EXTENDS Naturals, FiniteSets

CONSTANTS
    Questions,   \* questions members ask the owner
    Contents,    \* what an answer may say
    MaxNudges,   \* options.maxNudges
    MaxControls  \* bound on the owner's pauses, resumes and stops

ASSUME QuestionBounds ==
    /\ IsFiniteSet(Questions) /\ IsFiniteSet(Contents)
    /\ MaxNudges \in Nat /\ MaxControls \in Nat

VARIABLES
    status,      \* the mission's status
    asked,       \* the receipts
    replies,     \* deliveries that answer a question, counted by their content
    turn,        \* the owner's turn: none or cut short, running, or how it completed
    bookings,    \* the questions this turn is expected to settle
    admitted,    \* history: questions this turn's messages carried while it was watched
    onRecord,    \* history: questions delivered or consumed before its last watched message
    left         \* controls left

vars == <<status, asked, replies, turn, bookings, admitted, onRecord, left>>

Unasked == [state |-> "none", host |-> FALSE, delivered |-> FALSE, consumed |-> FALSE,
            nudges |-> 0, terminal |-> FALSE]

Over == status \in {"stopped", "completed"}
Watched == status \in {"active", "blocked"}

Open(q) == asked[q].state = "open"

Init ==
    /\ status = "active"
    /\ asked = [q \in Questions |-> Unasked]
    /\ replies = [q \in Questions |-> [c \in Contents |-> 0]]
    /\ turn = "none"
    /\ bookings = {} /\ admitted = {} /\ onRecord = {}
    /\ left = MaxControls

-----------------------------------------------------------------------------
(* A member's question opens a receipt; the outbox hands it to the owner's *)
(* session, and the acknowledgement may be lost.                           *)
Ask(q) ==
    /\ status = "active" /\ asked[q].state = "none"
    /\ asked' = [asked EXCEPT ![q].state = "open"]
    /\ UNCHANGED <<status, replies, turn, bookings, admitted, onRecord, left>>

Deliver(q) ==
    /\ Open(q) /\ ~asked[q].delivered /\ status # "stopped"
    /\ \E acknowledged \in BOOLEAN :
          asked' = [asked EXCEPT ![q].host = TRUE, ![q].delivered = acknowledged]
    /\ UNCHANGED <<status, replies, turn, bookings, admitted, onRecord, left>>

-----------------------------------------------------------------------------
OnRecord(q) == asked[q].delivered \/ asked[q].consumed

(* What a message books: the open questions it comes after, which were     *)
(* delivered, consumed by an earlier admission, or admitted by the message *)
(* itself.                                                                 *)
Booked(a) == {q \in Questions : Open(q) /\ (q \in a \/ OnRecord(q))}

(* Mutant: a message replaces what the one before it booked. *)
BooksOnly(a) == IF Watched THEN Booked(a) ELSE {}

(* The turn's booking grows by what each of its messages books. *)
Books(a) == IF Watched THEN bookings \cup Booked(a) ELSE bookings

(* The owner's session admits a message, one that carries questions (again *)
(* after a lost acknowledgement) or any other, and the consumption is      *)
(* recorded unless its write fails.                                        *)
Admit(a) ==
    /\ a \subseteq {q \in Questions : asked[q].host}
    /\ turn' = "running"
    /\ bookings' = Books(a)
    /\ admitted' = IF Watched THEN admitted \cup a ELSE admitted
    /\ onRecord' = IF Watched THEN {q \in Questions : OnRecord(q)} ELSE onRecord
    /\ \E recorded \in SUBSET a : asked' = [q \in Questions |->
          IF q \in recorded THEN [asked[q] EXCEPT !.consumed = TRUE] ELSE asked[q]]
    /\ UNCHANGED <<status, replies, left>>

(* The booked questions the turn left open. *)
Missed == {q \in bookings : Open(q)}

(* A miss is a nudge of its own ordinal, or, once they are spent, the      *)
(* guard terminal, told once.                                              *)
Nudged(q) ==
    IF asked[q].nudges >= MaxNudges
    THEN [asked[q] EXCEPT !.terminal = TRUE] ELSE [asked[q] EXCEPT !.nudges = @ + 1]

(* The turn completes.  A miss whose write fails ends the count, with the  *)
(* misses after it, and the bookings are gone all the same.                *)
EndTurn ==
    /\ turn = "running"
    /\ bookings' = {} /\ admitted' = {} /\ onRecord' = {}
    /\ IF Watched
       THEN \E counted \in SUBSET Missed :
              /\ asked' = [q \in Questions |-> IF q \in counted THEN Nudged(q) ELSE asked[q]]
              /\ turn' = IF counted = Missed THEN "completed" ELSE "failed"
       ELSE turn' = "completed" /\ UNCHANGED asked
    /\ UNCHANGED <<status, replies, left>>

(* A turn that did not complete owes nothing, and a restart of the host    *)
(* loses the turn and what the guard booked.                               *)
CutTurn ==
    /\ turn = "running"
    /\ turn' = "none" /\ bookings' = {} /\ admitted' = {} /\ onRecord' = {}
    /\ UNCHANGED <<status, asked, replies, left>>

-----------------------------------------------------------------------------
(* The receipt is written once. *)
Receipt(q, state) == asked' = IF Open(q) THEN [asked EXCEPT ![q].state = state] ELSE asked

(* Mutant: the same answer sent twice is two messages. *)
AnswerAgain(q, c) ==
    /\ asked[q].state # "none"
    /\ Receipt(q, "answered")
    /\ replies' = IF Over \/ replies[q][c] = 2 THEN replies ELSE [replies EXCEPT ![q][c] = @ + 1]
    /\ UNCHANGED <<status, turn, bookings, admitted, onRecord, left>>

(* The owner answers: the receipt and, unless the mission is over, the     *)
(* reply that waits in the outbox, in one commit.  The same answer again   *)
(* changes nothing; another one is a further message.                      *)
Answer(q, c) ==
    /\ asked[q].state # "none"
    /\ replies[q][c] = 0
    /\ Receipt(q, "answered")
    /\ replies' = IF Over THEN replies ELSE [replies EXCEPT ![q][c] = 1]
    /\ UNCHANGED <<status, turn, bookings, admitted, onRecord, left>>

Dismiss(q) ==
    /\ asked[q].state # "none"
    /\ Receipt(q, "dismissed")
    /\ UNCHANGED <<status, replies, turn, bookings, admitted, onRecord, left>>

(* A board post that names the question settles it on an active mission. *)
PostAnswer(q) ==
    /\ status = "active" /\ asked[q].state # "none"
    /\ Receipt(q, "posted")
    /\ UNCHANGED <<status, replies, turn, bookings, admitted, onRecord, left>>

Control ==
    /\ left > 0 /\ ~Over
    /\ left' = left - 1
    /\ status' \in {"active", "blocked", "paused", "stopped", "completed"} \ {status}
    /\ UNCHANGED <<asked, replies, turn, bookings, admitted, onRecord>>

Next ==
    \/ \E q \in Questions : Ask(q) \/ Deliver(q) \/ Dismiss(q) \/ PostAnswer(q)
    \/ \E q \in Questions, c \in Contents : Answer(q, c)
    \/ \E a \in SUBSET Questions : Admit(a)
    \/ EndTurn \/ CutTurn \/ Control

Spec == Init /\ [][Next]_vars

(* The owner's session keeps admitting messages and completing turns, and  *)
(* the outbox keeps delivering.                                            *)
FairSpec ==
    /\ Spec
    /\ WF_vars(\E a \in SUBSET Questions : Admit(a) /\ turn # "running")
    /\ SF_vars(EndTurn /\ turn' = "completed")
    /\ \A q \in Questions : WF_vars(Deliver(q)) /\ SF_vars(Deliver(q) /\ asked'[q].delivered)

-----------------------------------------------------------------------------
TypeOK ==
    /\ status \in {"active", "blocked", "paused", "stopped", "completed"}
    /\ asked \in [Questions -> [state : {"none", "open", "answered", "dismissed", "posted"}, host : BOOLEAN,
                                delivered : BOOLEAN, consumed : BOOLEAN, nudges : 0..MaxNudges, terminal : BOOLEAN]]
    /\ replies \in [Questions -> [Contents -> 0..2]]
    /\ turn \in {"none", "running", "completed", "failed"}
    /\ bookings \subseteq Questions /\ admitted \subseteq Questions /\ onRecord \subseteq Questions
    /\ left \in 0..MaxControls

(* A receipt is settled once, however often the answer, the dismissal or   *)
(* the post is replayed (SwarmRuntime.receipt).                            *)
SettledOnce ==
    [][\A q \in Questions : asked[q].state \notin {"none", "open"} => asked'[q].state = asked[q].state]_vars

(* An answer that settled a receipt before the mission was over is in the  *)
(* outbox, once per content (SwarmRuntime.message).                        *)
AnswerQueuedOnce ==
    /\ \A q \in Questions : ~Over /\ asked[q].state = "answered" => \E c \in Contents : replies[q][c] > 0
    /\ \A q \in Questions, c \in Contents : replies[q][c] <= 1

(* What a turn saw: what its messages carried, recorded or not, and what   *)
(* was on record when the last of them came.                               *)
Saw(q) == q \in admitted \cup onRecord

HeldToAccount(q) ==
    \/ asked[q].nudges < MaxNudges /\ asked'[q].nudges = asked[q].nudges + 1
    \/ asked[q].nudges = MaxNudges /\ asked'[q].terminal

(* A turn is held to account for what it saw and for nothing else: each    *)
(* question it saw that is still open at its completed end is nudged, or   *)
(* handed over once the nudges are spent, whichever of the turn's messages *)
(* carried it and whether its consumption was recorded; and no other step, *)
(* no other question and no turn that was cut adds a nudge                 *)
(* (OwnerReplyGuard.startTurn, endTurn).                                   *)
TurnAccountsForSeen ==
    [][\A q \in Questions :
          /\ turn = "running" /\ turn' = "completed" /\ Watched /\ Open(q) /\ Saw(q) => HeldToAccount(q)
          /\ asked'[q].nudges # asked[q].nudges \/ asked'[q].terminal # asked[q].terminal
                => turn = "running" /\ turn' \in {"completed", "failed"} /\ Watched /\ Open(q) /\ Saw(q)]_vars

(* Nothing a later message of the turn does loses what an earlier one      *)
(* booked (OwnerReplyGuard.startTurn).                                     *)
SeenIsBooked == \A q \in Questions : Open(q) /\ Saw(q) => q \in bookings

(* The decision is handed over only after every nudge was spent.           *)
NudgesFirst ==
    [][\A q \in Questions : asked'[q].terminal /\ ~asked[q].terminal => asked[q].nudges = MaxNudges]_vars

(* A question the owner keeps ignoring ends as the guard terminal.         *)
IgnoredIsHandedOver ==
    \A q \in Questions : (Open(q) /\ Watched) ~> (~Open(q) \/ asked[q].terminal \/ ~Watched)
=============================================================================
