----------------------------- MODULE NoticeLedger -----------------------------
(***************************************************************************)
(* The owner-notice ledger of src/notices.ts: facts deduplicated on the    *)
(* deliveries ledger, the wake budget that turns the excess of a window    *)
(* into one summary, the facts another decision covers, the content frozen *)
(* at the first hand-off, the adapter that takes one content per delivery  *)
(* id, and the bounded reminders of a decision that still stands.          *)
(*                                                                         *)
(* An item <<f, 0>> is fact f, <<f, n>> its n-th reminder; a delivery      *)
(* carries a set of items.  How a fact is judged outstanding is the        *)
(* board's affair: here a fact stands or it does not.                      *)
(***************************************************************************)
EXTENDS Naturals, FiniteSets

CONSTANTS
    NF,            \* facts 1..NF, each one subject@epoch, trigger and reason
    Restating,     \* facts f that restate decision f - 1 when it has its row
    WakeBudget,    \* wakeBudget
    Followups,     \* maxObligationFollowups
    ND,            \* bound on deliveries
    Bounds         \* bounds a behaviour may have: the facts it is about, how often facts
                   \* and the mission change, reminder intervals that pass, restarts

LedgerBounds ==
    /\ NF \in Nat \ {0} /\ WakeBudget \in Nat \ {0} /\ Followups \in Nat
    /\ Restating \subseteq 2..NF
    /\ ND \in Nat
    /\ Bounds \subseteq [facts : SUBSET (1..NF), turns : Nat, intervals : Nat, crashes : Nat]

Facts == 1..NF
Items == Facts \X (0..Followups)
Ids == 1..ND

VARIABLES
    stands,      \* facts that are outstanding
    status,      \* the mission: running, paused or stopped by its owner
    ledger,      \* the owner's deliveries
    spent,       \* followupCount of a fact's row or summary constituent
    window,      \* the wake window in memory
    attempts,    \* deliveries handed to the adapter and not settled
    taken,       \* the content the adapter first took under each id
    left         \* what is left of the bounds

vars == <<stands, status, ledger, spent, window, attempts, taken, left>>

Free == [kind |-> "none", items |-> {}, covered |-> FALSE, handed |-> FALSE,
         content |-> {}, delivered |-> FALSE]
Fresh == [count |-> 0, summary |-> 0]

Used == {d \in Ids : ledger[d].kind # "none"}
NextId == {d \in Ids \ Used : \A e \in Ids \ Used : d <= e}

(* Mutant: the identities a summary retains are not asked. *)
HoldsRowsOnly(item) == \E d \in Used : ledger[d].kind = "row" /\ item \in ledger[d].items

(* The dedup rule: rows and the identities a summary retains. *)
Holds(item) == \E d \in Used : item \in ledger[d].items

(* The decision that already told what f restates, as a row of its own. *)
Covering(f) == f \in Restating /\ \E d \in Used : ledger[d].kind = "row" /\ <<f - 1, 0>> \in ledger[d].items

Init ==
    /\ left \in Bounds
    /\ stands = left.facts /\ status = "active"
    /\ ledger = [d \in Ids |-> Free]
    /\ spent = [f \in Facts |-> 0]
    /\ window \in [count : 0..WakeBudget, summary : {0}]   \* other notices may have spent it
    /\ attempts = {}
    /\ taken = [d \in Ids |-> {}]

-----------------------------------------------------------------------------
(* The world. *)

Turn ==
    /\ left.turns > 0
    /\ left' = [left EXCEPT !.turns = @ - 1]
    /\ \/ /\ \E f \in left.facts : stands' = IF f \in stands THEN stands \ {f} ELSE stands \cup {f}
          /\ UNCHANGED status
       \/ /\ status # "stopped"
          /\ status' \in {"active", "paused", "stopped"} \ {status}
          /\ UNCHANGED stands
    /\ UNCHANGED <<ledger, spent, window, attempts, taken>>

WindowRolls ==
    /\ window # Fresh
    /\ window' = Fresh
    /\ UNCHANGED <<stands, status, ledger, spent, attempts, taken, left>>

-----------------------------------------------------------------------------
(* The fact is carried by a row of its own inside the wake budget, and by  *)
(* the window's summary beyond it: the one in reach, or a fresh one.       *)
Note(kind, items) == [Free EXCEPT !.kind = kind, !.items = items, !.content = items]

\* The summary of the window takes further facts until it was handed over or told.
InReach == window.summary # 0 /\ ~ledger[window.summary].delivered

Carry(items) ==
    \/ /\ window.count < WakeBudget
       /\ \E d \in NextId : ledger' = [ledger EXCEPT ![d] = Note("row", items)]
       /\ window' = [window EXCEPT !.count = @ + 1]
    \/ /\ window.count >= WakeBudget /\ InReach
       /\ ledger' = [ledger EXCEPT ![window.summary].items = @ \cup items,
                                   ![window.summary].content = @ \cup items]
       /\ UNCHANGED window
    \/ /\ window.count >= WakeBudget /\ ~InReach
       /\ \E d \in NextId :
            /\ ledger' = [ledger EXCEPT ![d] = Note("summary", items)]
            /\ window' = [window EXCEPT !.summary = d]

(* A judgement that finds the fact records it unless the ledger holds it.  *)
(* A covered fact is written and takes no wake.                            *)
Record(f) ==
    /\ f \in stands /\ status = "active" /\ ~Holds(<<f, 0>>)
    /\ IF Covering(f)
       THEN /\ \E d \in NextId :
                 ledger' = [ledger EXCEPT ![d] = [Note("row", {<<f, 0>>}) EXCEPT !.covered = TRUE]]
            /\ UNCHANGED window
       ELSE Carry({<<f, 0>>})
    /\ UNCHANGED <<stands, status, spent, attempts, taken, left>>

-----------------------------------------------------------------------------
Standing(d) == {i \in ledger[d].items : i[1] \in stands}

(* Whether the outbox may still send the delivery. *)
Relevant(d) == status = "active" /\ ~ledger[d].covered /\ Standing(d) # {}

(* An attempt.  The first one freezes the content, a summary's to the      *)
(* facts that stand, and takes the summary out of the window's reach.      *)
Handoff(d) ==
    /\ d \in Used /\ ~ledger[d].delivered /\ d \notin attempts /\ Relevant(d)
    /\ attempts' = attempts \cup {d}
    /\ ledger' = IF ledger[d].handed THEN ledger
                 ELSE [ledger EXCEPT ![d].handed = TRUE,
                          ![d].content = IF ledger[d].kind = "summary" THEN Standing(d) ELSE @]
    /\ window' = IF window.summary = d THEN [window EXCEPT !.summary = 0] ELSE window
    /\ UNCHANGED <<stands, status, spent, taken, left>>

(* The adapter takes the message once per id, with or without its          *)
(* acknowledgement reaching the runtime.                                   *)
Takes(d) == taken' = IF taken[d] = {} THEN [taken EXCEPT ![d] = ledger[d].content] ELSE taken

Acknowledge(d) ==
    /\ d \in attempts
    /\ Takes(d)
    /\ attempts' = attempts \ {d}
    /\ ledger' = [ledger EXCEPT ![d].delivered = TRUE]
    /\ UNCHANGED <<stands, status, spent, window, left>>

Unacknowledged(d) ==
    /\ d \in attempts
    /\ Takes(d) \/ UNCHANGED taken
    /\ attempts' = attempts \ {d}
    /\ UNCHANGED <<stands, status, ledger, spent, window, left>>

-----------------------------------------------------------------------------
(* The facts of a delivery that are due a reminder. *)
Owing(d) ==
    {f \in Facts : <<f, 0>> \in ledger[d].items /\ f \in stands /\ spent[f] < Followups}

(* The notice of a reminder, in the commit that spends it. *)
Reminders(fs) == {<<f, spent[f] + 1>> : f \in fs}

(* The absence sweep reminds the owner of the constituents that stand and  *)
(* have reminders left, spends only theirs, and tells it as a notice that  *)
(* shares the wake budget.  The reminder interval is any time after the    *)
(* delivery.                                                               *)
Remind(d) ==
    /\ d \in Used /\ ledger[d].delivered /\ status = "active" /\ Owing(d) # {}
    /\ left.intervals > 0 /\ left' = [left EXCEPT !.intervals = @ - 1]
    /\ spent' = [f \in Facts |-> IF f \in Owing(d) THEN spent[f] + 1 ELSE spent[f]]
    /\ Carry(Reminders(Owing(d)))
    /\ UNCHANGED <<stands, status, attempts, taken>>

(* A restart keeps the ledger and opens a fresh window. *)
Crash ==
    /\ left.crashes > 0
    /\ left' = [left EXCEPT !.crashes = @ - 1]
    /\ window' = Fresh /\ attempts' = {}
    /\ UNCHANGED <<stands, status, ledger, spent, taken>>

Next ==
    \/ Turn \/ WindowRolls \/ Crash
    \/ \E f \in Facts : Record(f)
    \/ \E d \in Ids : Handoff(d) \/ Acknowledge(d) \/ Unacknowledged(d) \/ Remind(d)

Spec == Init /\ [][Next]_vars

(* Every judgement and every pump runs again; an adapter asked often       *)
(* enough acknowledges; a reminder interval passes.                        *)
Fairness ==
    /\ \A f \in Facts : WF_vars(Record(f))
    /\ \A d \in Ids : WF_vars(Handoff(d)) /\ SF_vars(Acknowledge(d))
                      /\ WF_vars(Remind(d))

FairSpec == Spec /\ Fairness

-----------------------------------------------------------------------------
TypeOK ==
    /\ stands \subseteq Facts /\ status \in {"active", "paused", "stopped"}
    /\ ledger \in [Ids -> [kind : {"none", "row", "summary"}, items : SUBSET Items, covered : BOOLEAN,
                           handed : BOOLEAN, content : SUBSET Items,
                           delivered : BOOLEAN]]
    /\ spent \in [Facts -> 0..Followups]
    /\ window \in [count : 0..WakeBudget, summary : {0} \cup Ids]
    /\ attempts \subseteq Ids
    /\ taken \in [Ids -> SUBSET Items]

(* A fact, and each of its reminders, is told under one delivery, whatever *)
(* window, summary or restart it met (hasNotice, aggregatedIdentities).    *)
ToldOnce == \A d, e \in Used : d # e => ledger[d].items \cap ledger[e].items = {}

(* What the owner's session took under an id is the content its row        *)
(* records, whatever was retried or lost (Handoff, deliver's idempotence). *)
OwnerReadsTheRow == \A d \in Used : taken[d] # {} => taken[d] = ledger[d].content

(* Nothing joins a delivery once it was handed over: a later fact of the   *)
(* window would be recorded as told and never be read.                     *)
FrozenOnceHanded ==
    [][\A d \in Ids : ledger[d].handed => /\ ledger'[d].items = ledger[d].items
                                          /\ ledger'[d].content = ledger[d].content]_vars

(* A covered fact neither wakes nor reminds the owner, and the decision    *)
(* that covers it is on the ledger under its own row (coveredBy).          *)
CoveredStaysQuiet ==
    \A d \in Used : ledger[d].covered =>
        /\ taken[d] = {}
        /\ \A i \in ledger[d].items : spent[i[1]] = 0 /\ Covering(i[1])

(* A reminder spends the allowance of the facts it names and of no other   *)
(* (followupObligations).                                                  *)
RemindersNamed ==
    [][\A f \in Facts : spent'[f] # spent[f] =>
          /\ f \in stands
          /\ \E d \in Ids : <<f, spent'[f]>> \in ledger'[d].items]_vars

(* A fact that stands on a running mission reaches the owner's session, or *)
(* is covered by a decision that does.  A fact its summary dropped because *)
(* it had ended at the hand-off, and that stands again, reaches the owner  *)
(* only by its reminder: the ledger holds its identity.                    *)
EveryFactReaches ==
    \A f \in Facts :
        (f \in stands /\ status = "active") ~>
            \/ f \notin stands \/ status # "active"
            \/ \E d \in Used : \E n \in 0..Followups : <<f, n>> \in taken[d]
            \/ \E d \in Used : ledger[d].covered /\ <<f, 0>> \in ledger[d].items
=============================================================================
