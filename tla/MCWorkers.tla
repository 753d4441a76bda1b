----------------------------- MODULE MCWorkers -----------------------------
(***************************************************************************)
(* A worker's session, for TLC.  A behaviour is about one reader of the    *)
(* session log, across stops, crashes and assignments withdrawn (the       *)
(* tokens charged to the pool, UsageLedger, or the deliveries its model    *)
(* has seen, WorkerInbox), or about the starts of its one native handle    *)
(* (WorkerStarts).                                                         *)
(***************************************************************************)
EXTENDS UsageLedger

CONSTANTS
    NS, NR,     \* bounds: a member's start entries and residents
    FailLimit,  \* START_FAILURE_REROUTE_LIMIT
    MaxOwner,   \* bound: acts of the owner where no attempt is fenced
    MaxFaults   \* bound: timeouts, failed openings, retired handles and barriers

VARIABLES
    part,  \* the part this behaviour is about
    out, current, parked, owes, res, closing, agent, driver, chain, writing, journal, log, disk,
    seen, accepted, left,
    status, phase, failures, owed, stopped, entry, start, cur, residents, stopCalls, charged, acts

inboxVars == <<out, current, parked, owes, res, closing, agent, driver, chain, writing,
               journal, log, disk, seen, accepted, left>>
startVars == <<status, phase, failures, owed, stopped, entry, start, cur, residents,
               stopCalls, charged, acts>>

\* An assignment behind a message.
Inbox == INSTANCE WorkerInbox WITH
    ND <- 2, Assignments <- {2}, MaxStops <- 1, MaxCrashes <- 1, MaxRevokes <- 1, MaxParks <- 0

\* Two messages to a member that parks.
Parked == INSTANCE WorkerInbox WITH
    ND <- 2, Assignments <- {}, MaxStops <- 1, MaxCrashes <- 1, MaxRevokes <- 0, MaxParks <- 1

\* The starts of one member: with one act of the owner while its attempt may be fenced,
\* or with more and no fence.
Starting == INSTANCE WorkerStarts WITH
    Bounds <- {[owner |-> 1, faults |-> MaxFaults, barriers |-> TRUE],
               [owner |-> MaxOwner, faults |-> MaxFaults, barriers |-> FALSE]},
    res <- residents, left <- acts

ASSUME WorkersBounds == Inbox!InboxBounds /\ Parked!InboxBounds /\ Starting!StartBounds

WorkersInit ==
    /\ part \in {"usage", "inbox", "parked", "starts"}
    /\ Init
    /\ part # "usage" => used = 0
    /\ IF part = "parked" THEN Parked!Init ELSE Inbox!Init
    /\ Starting!Init
    /\ part # "starts" => status = "active" /\ acts.barriers

WorkersNext ==
    \/ part = "usage" /\ Next /\ UNCHANGED <<part, inboxVars, startVars>>
    \/ part = "inbox" /\ Inbox!Next /\ UNCHANGED <<part, vars, startVars>>
    \/ part = "parked" /\ Parked!Next /\ UNCHANGED <<part, vars, startVars>>
    \/ part = "starts" /\ Starting!Next /\ UNCHANGED <<part, vars, inboxVars>>

WorkersSpec == WorkersInit /\ [][WorkersNext]_<<part, vars, inboxVars, startVars>>
-----------------------------------------------------------------------------
\* The model sees a delivery once, and what the outbox believes told is in the journal or
\* in the flushed session until the model has taken it, whatever was stopped, parked or
\* lost in between (deliver, preserveInbox, restoreInbox).
AcceptedSurvives ==
    /\ part = "inbox" => Inbox!SeenOnce /\ Inbox!AcceptedSurvives
    /\ part = "parked" => Parked!SeenOnce /\ Parked!AcceptedSurvives

\* One session has one native handle, whatever start timed out, failed or was given up
\* while the next was made; an opening costs the member one failure at most, when the
\* owner acts once; and once a mission that does not run is quiet, no handle is left,
\* when no attempt is fenced (startHandle, finishStart, quiesce).
OneHandle ==
    part = "starts" =>
        /\ Starting!OneHandle
        /\ acts.barriers => Starting!OpeningChargedOnce
        /\ ~acts.barriers => Starting!QuietWhenInactive
=============================================================================
