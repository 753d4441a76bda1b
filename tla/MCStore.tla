------------------------------ MODULE MCStore ------------------------------
(***************************************************************************)
(* The durable store for TLC, one part of it in each behaviour: the writes *)
(* of a row (StoreWrites), the restores of one host with crashes and       *)
(* faults and the starts of two hosts (StoreRestore), and the pane that    *)
(* follows the store, with or without a restore under it (LiveView).       *)
(***************************************************************************)
EXTENDS StoreWrites

VARIABLES
    part,  \* the part this behaviour is about
    host, lock, main, wal, snaps, request, staging, intent, count, left, expected, since,
    store, saved, wire, pane, commits, shown

restoreVars == <<host, lock, main, wal, snaps, request, staging, intent, count, left,
                 expected, since>>
viewVars == <<store, saved, wire, pane, commits, shown>>

CONSTANTS
    Hosts, h1, Copies, Keep,                \* hosts, the one that may crash, copies, snapshotKeep
    MaxCommits, MaxSnapshots, MaxRequests,  \* bounds of the files
    MaxCrashes, MaxFaults,
    Owners, o1, Missions, History,          \* sessions, the one with missions, CHANGE_HISTORY
    MaxChanges, MaxLosses, MaxMoves         \* bounds of the panes: commits, lost requests, acts

\* One host with a crash and faults; or all of them, with none: a crash is the takeover
\* the README tells of.
Disk == INSTANCE StoreRestore WITH
    Bounds <- {[hosts |-> {h1}, crashes |-> MaxCrashes, faults |-> MaxFaults],
               [hosts |-> Hosts, crashes |-> 0, faults |-> 0]}

\* All the missions are one session's.  A log with requests
\* lost, or a longer one with a restore, which fails them.
View == INSTANCE LiveView WITH
    OwnerOf <- [m \in Missions |-> o1], MaxCommits <- MaxChanges, left <- shown,
    Bounds <- {[history |-> History, restores |-> FALSE, faults |-> MaxLosses, moves |-> MaxMoves],
               [history |-> History + 1, restores |-> TRUE, faults |-> 0, moves |-> MaxMoves]}

ASSUME RestoreBounds == Disk!StoreRestoreConstants /\ h1 \in Hosts
ASSUME ViewBounds == View!LiveViewConstants

StoreInit ==
    /\ part \in {"writes", "files", "panes"}
    /\ Init /\ Disk!Init /\ View!Init
    /\ part # "files" => left.crashes = 0
    /\ part # "panes" => shown.restores

StoreNext ==
    \/ part = "writes" /\ Next /\ UNCHANGED <<part, restoreVars, viewVars>>
    \/ part = "files" /\ Disk!Next /\ UNCHANGED <<part, vars, viewVars>>
    \/ part = "panes" /\ View!Next /\ UNCHANGED <<part, vars, restoreVars>>

StoreSpec == StoreInit /\ [][StoreNext]_<<part, vars, restoreVars, viewVars>>
-----------------------------------------------------------------------------
\* A database that is opened holds every commit acknowledged since, or the restored
\* snapshot and nothing of the replaced file's log; a restore's durable intent has the
\* bytes it names whatever a crash cut short; and "only one live runtime may own a state
\* file" (applyPendingRestore, finishRestore, acquireRuntimeLock).
OpenedWhole == part = "files" => Disk!OpenedWhole /\ Disk!IntentBacked /\ Disk!OneOwner

\* No watch sleeps over a change its session may see, be it after a restore, and, where
\* nothing is restored, a pane shows no scope older than the revision it claims
\* (waitForStateChange, mergeUpdate).
WatchesWake ==
    part = "panes" => View!WatchesWake /\ (~shown.restores => View!ViewCurrent)
=============================================================================
