----------------------------- MODULE MCNotices -----------------------------
(***************************************************************************)
(* What a mission tells its owner, for TLC, one part of it in each         *)
(* behaviour: the questions the owner must settle (OwnerQuestions), the    *)
(* outbox that sends every delivery (OutboxPump), and the notices          *)
(* (NoticeLedger).                                                         *)
(***************************************************************************)
EXTENDS OwnerQuestions, TLC

CONSTANTS
    NM, NR, NP, Passes,   \* bounds of the outbox: missions, deliveries of one, pumps,
                          \* missions with a scheduling pass
    NF, ND, Restating,    \* bounds of the ledger: facts, deliveries, the facts that restate
    WakeBudget, Followups,  \* wakeBudget, maxObligationFollowups
    MaxCrashes,           \* bound on restarts of the outbox and of the ledger
    MaxChanges,           \* bound on what changes under the outbox
    MaxTurns,             \* bound on how often facts and their mission change
    MaxIntervals          \* bound on the reminder intervals that pass

VARIABLES
    part,  \* the part this behaviour is about
    row, sending, memberUp, starved, pending, pump, flush, delivering, owed, budget,
    stands, telling, ledger, spent, window, attempts, taken, changes

pumpVars == <<row, sending, memberUp, starved, pending, pump, flush, delivering, owed, budget>>
ledgerVars == <<stands, telling, ledger, spent, window, attempts, taken, changes>>

\* Two missions with a crash, or two deliveries of one while its owner changes it.
Outbox == INSTANCE OutboxPump WITH
    status <- sending,
    Bounds <- {[rows |-> (1 .. NM) \X {1}, kinds |-> {"owner", "assignment"},
                changes |-> 0, crashes |-> MaxCrashes],
               [rows |-> {1} \X (1 .. NR), kinds |-> {"assignment"},
                changes |-> MaxChanges, crashes |-> 0]}

\* Three facts with a crash, or a decision, what restates it, and their reminders.
Told == INSTANCE NoticeLedger WITH
    status <- telling, left <- changes,
    Bounds <- {[facts |-> (1 .. NF) \ Restating, turns |-> MaxTurns, intervals |-> 0,
                crashes |-> MaxCrashes],
               [facts |-> Restating \cup {f - 1 : f \in Restating}, turns |-> MaxTurns,
                intervals |-> MaxIntervals, crashes |-> 0]}

ASSUME NoticesBounds == Outbox!OutboxBounds /\ Told!LedgerBounds

NoticesInit ==
    /\ part \in {"questions", "outbox", "told"}
    /\ Init /\ Outbox!Init /\ Told!Init
    /\ part # "outbox" => budget.changes = 0
    /\ part # "told" => window.count = 0 /\ changes.intervals = 0

NoticesNext ==
    \/ part = "questions" /\ Next /\ UNCHANGED <<part, pumpVars, ledgerVars>>
    \/ part = "outbox" /\ Outbox!Next /\ UNCHANGED <<part, vars, ledgerVars>>
    \/ part = "told" /\ Told!Next /\ UNCHANGED <<part, vars, pumpVars>>

NoticesSpec == NoticesInit /\ [][NoticesNext]_<<part, vars, pumpVars, ledgerVars>>

\* The questions are alike.
Symmetry == Permutations(Questions)
-----------------------------------------------------------------------------
\* A fact, and each of its reminders, is told under one delivery, whatever window,
\* summary or restart it met, the owner read what its row records (hasNotice, Handoff),
\* and a request to tell is answered by a sweep that starts after it, one flush to a
\* delivery at a time (pumpOutbox, flushOutbox).
ToldOnce ==
    /\ part = "told" => Told!ToldOnce /\ Told!OwnerReadsTheRow /\ Told!CoveredStaysQuiet
    /\ part = "outbox" => Outbox!RequestsAnswered /\ Outbox!OneAttempt
=============================================================================
