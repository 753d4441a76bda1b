--------------------------- MODULE StoreRestore ---------------------------
(***************************************************************************)
(* The state file on disk: the runtime lock, opening, snapshots, and the   *)
(* owner's restore, one file operation a step and a crash between any two  *)
(* (acquireRuntimeLock, SwarmStore, finishRestore, applyPendingRestore).   *)
(*                                                                         *)
(* The contents of a database are the commits it holds.  A write-ahead log *)
(* belongs to the main file it was written over; the generation number     *)
(* tells one main file from the next.                                      *)
(***************************************************************************)
EXTENDS Naturals, FiniteSets

CONSTANTS
    Hosts,
    Keep,         \* snapshotKeep
    Copies,       \* the numbers of copies beside the state file
    MaxCommits, MaxSnapshots, MaxRequests,  \* bounds: what happens, over the whole run
    Bounds        \* bounds a behaviour may have: the hosts that start, crashes of any
                  \* process, losses of the state file and file operations that fail

StoreRestoreConstants ==
    /\ 0 \notin Hosts /\ Keep \in Nat \ {0} /\ Copies \subseteq Nat \ {0}
    /\ {MaxCommits, MaxSnapshots, MaxRequests} \subseteq Nat
    /\ Bounds \subseteq [hosts : SUBSET Hosts, crashes : Nat, faults : Nat]

VARIABLES
    host,      \* per host, the process running on it
    lock,      \* the runtime lock's file
    main,      \* the state file
    wal,       \* its write-ahead log
    snaps,     \* the snapshot directory
    request,   \* the staged restore request, the number of the snapshot it names
    staging,   \* the copies beside the state file
    intent,    \* the durable restore intent
    count,     \* how many of each bounded thing have happened
    left,      \* the hosts that start, and what may still go wrong
    expected,  \* ghost: the commits the next opened database must hold
    since      \* ghost: whether the staged request was installed, and the commits made since

disk == <<lock, main, wal, snaps, request, staging, intent>>
vars == <<host, disk, count, left, expected, since>>

None == 0   \* snapshots, copies and generations are numbered from 1

Torn == [host |-> None, life |-> 0]     \* created and not yet written
Free == [host |-> None, life |-> 1]     \* no lock file

Phases == {"down", "check", "lock", "stamp", "inspect", "reread", "unlink", "locked", "rename",
           "sidecars", "settle", "copy", "mark", "cleanup", "forget", "open", "live"}

Fresh(life) == [pc |-> "down", life |-> life, job |-> "open", seen |-> Free, n |-> None, installed |-> FALSE,
                refused |-> "no"]

Gone == [gen |-> None, commits |-> {}]  \* no such file

Init ==
    /\ host = [h \in Hosts |-> Fresh(1)]
    /\ lock = Free /\ main = Gone /\ wal = Gone /\ snaps = {} /\ request = None
    /\ staging = {} /\ intent = Gone
    /\ count = [commits |-> 0, snapshots |-> 0, requests |-> 0, gens |-> 0]
    /\ left \in Bounds
    /\ expected = {} /\ since = [applied |-> FALSE, commits |-> {}]

File == [gen : Nat, commits : SUBSET (1 .. MaxCommits)]

TypeOK ==
    /\ \A h \in Hosts :
        /\ host[h].pc \in Phases /\ host[h].life \in Nat /\ host[h].job \in {"open", "restore"}
        /\ host[h].n \in Nat
        /\ host[h].refused \in {"no", "snapshot_invalid", "restore_blocked", "store_missing", "locked"}
    /\ {main, wal, intent} \subseteq File /\ staging \subseteq File /\ snaps \subseteq File
    /\ request \in 0 .. MaxSnapshots
    /\ expected \subseteq 1 .. MaxCommits
    /\ since \in [applied : BOOLEAN, commits : SUBSET (1 .. MaxCommits)]
-----------------------------------------------------------------------------
At(h, pc) == host[h].pc = pc

Goto(h, pc) == host' = [host EXCEPT ![h].pc = pc]

\* The start fails: the plugin reports the error and the process opens nothing.
Refuse(h, why) == host' = [host EXCEPT ![h] = [Fresh(@.life) EXCEPT !.refused = why]]

Mine(h) == [host |-> h, life |-> host[h].life]

\* releaseRuntimeLock: only the lock this process wrote.
Release(h) == lock' = IF lock = Mine(h) THEN Free ELSE lock

Bump(field) == count' = [count EXCEPT ![field] = @ + 1]

Spend(what) == left[what] > 0 /\ left' = [left EXCEPT ![what] = @ - 1]

\* A lock is abandoned when the process it names is gone or another has its number.
OwnerAbandoned(owner) == owner.life < host[owner.host].life

\* What a database opened on the files holds: SQLite replays the log it finds.
Contents == main.commits \cup wal.commits

Named(n) == CHOOSE s \in snaps : s.gen = n

\* applyPendingRestore is called before the store is opened; it reads the request first.
Start(h) ==
    /\ At(h, "down") /\ h \in left.hosts
    /\ host' = [host EXCEPT ![h] = [Fresh(@.life) EXCEPT
            !.pc = IF request = None THEN "lock" ELSE "check",
            !.job = IF request = None THEN "open" ELSE "restore"]]
    /\ UNCHANGED <<disk, count, left, expected, since>>

\* SwarmStore.restore: the snapshot must still be there.
Check(h) ==
    /\ At(h, "check")
    /\ IF request \in {s.gen : s \in snaps} THEN Goto(h, "lock") ELSE Refuse(h, "snapshot_invalid")
    /\ UNCHANGED <<disk, count, left, expected, since>>

\* A number for a copy that no file has, the first of them: the code draws a UUID.
NewCopy ==
    LET free == Copies \ ({f.gen : f \in staging} \cup {intent.gen})
    IN  {n \in free : \A k \in free : n <= k}

Acquire(h) ==
    /\ At(h, "lock")
    /\ IF lock = Free THEN lock' = Torn /\ Goto(h, "stamp")
                      ELSE UNCHANGED lock /\ Goto(h, "inspect")
    /\ UNCHANGED <<main, wal, snaps, request, staging, intent, count, left, expected, since>>

Stamp(h) ==
    /\ At(h, "stamp")
    /\ lock' = Mine(h)
    /\ Goto(h, "locked")
    /\ UNCHANGED <<main, wal, snaps, request, staging, intent, count, left, expected, since>>

\* A lock that vanished, that is unreadable, or whose owner lives refuses the start.
Inspect(h) ==
    /\ At(h, "inspect")
    /\ IF lock \in {Free, Torn} \/ ~OwnerAbandoned(lock)
         THEN Refuse(h, "locked")
         ELSE host' = [host EXCEPT ![h].pc = "reread", ![h].seen = lock]
    /\ UNCHANGED <<disk, count, left, expected, since>>

Reread(h) ==
    /\ At(h, "reread")
    /\ IF lock = host[h].seen THEN Goto(h, "unlink") ELSE Refuse(h, "locked")
    /\ UNCHANGED <<disk, count, left, expected, since>>

\* The unlink removes whatever is at the path by now.
Unlink(h) ==
    /\ At(h, "unlink")
    /\ IF lock = Free THEN Refuse(h, "locked") ELSE Goto(h, "lock")
    /\ lock' = Free
    /\ UNCHANGED <<main, wal, snaps, request, staging, intent, count, left, expected, since>>
-----------------------------------------------------------------------------
\* Where finishRestore returns to: the copy (an earlier restore is finished first),
\* the cleanup of the restore itself, or the open.
Finished(h) == IF host[h].job = "open" THEN "open" ELSE IF host[h].installed THEN "cleanup" ELSE "copy"

Staged == {f \in staging : f.gen = intent.gen}

\* An error of the restore runs its cleanup; one of the open releases the lock.
Fail(h) ==
    IF host[h].job = "restore"
      THEN /\ UNCHANGED lock
           /\ host' = [host EXCEPT ![h].pc = "cleanup", ![h].refused = "restore_blocked"]
      ELSE Release(h) /\ Refuse(h, "restore_blocked")

\* A file operation of a restore fails.
Fault(h) ==
    /\ host[h].pc \in {"rename", "sidecars", "settle", "copy", "mark"}
    /\ Spend("faults")
    /\ Fail(h)
    /\ UNCHANGED <<main, wal, snaps, request, staging, intent, count, expected, since>>

\* finishRestore: the staged copy, else the state file, must be what the intent names.
Finish(h) ==
    /\ At(h, "locked")
    /\ CASE intent = Gone -> Goto(h, Finished(h)) /\ UNCHANGED lock
         [] intent # Gone /\ Staged # {} -> Goto(h, "rename") /\ UNCHANGED lock
         [] intent # Gone /\ Staged = {} /\ main.commits = intent.commits /\ main # Gone ->
                Goto(h, "sidecars") /\ UNCHANGED lock
         [] OTHER -> Fail(h)
    /\ UNCHANGED <<main, wal, snaps, request, staging, intent, count, left, expected, since>>

Rename(h) ==
    /\ At(h, "rename")
    /\ main' = [gen |-> count.gens + 1, commits |-> intent.commits]
    /\ Bump("gens")
    /\ staging' = staging \ Staged
    /\ Goto(h, "sidecars")
    /\ UNCHANGED <<lock, wal, snaps, request, intent, left, expected, since>>

\* Mutant: the old sidecars stay.
SidecarsKept(h) ==
    /\ At(h, "sidecars")
    /\ Goto(h, "settle")
    /\ UNCHANGED <<disk, count, left, expected, since>>

Sidecars(h) ==
    /\ At(h, "sidecars")
    /\ wal' = Gone
    /\ Goto(h, "settle")
    /\ UNCHANGED <<lock, main, snaps, request, staging, intent, count, left, expected, since>>

Settle(h) ==
    /\ At(h, "settle")
    /\ intent' = Gone
    /\ Goto(h, Finished(h))
    /\ UNCHANGED <<lock, main, wal, snaps, request, staging, count, left, expected, since>>

\* The copy is validated again; a snapshot or a copy that fails goes to the cleanup.
Copy(h) ==
    /\ At(h, "copy")
    /\ \/ /\ request \in {s.gen : s \in snaps}
          /\ \E n \in NewCopy :
                /\ staging' = staging \cup {[gen |-> n, commits |-> Named(request).commits]}
                /\ host' = [host EXCEPT ![h].pc = "mark", ![h].n = n]
       \/ /\ UNCHANGED staging
          /\ host' = [host EXCEPT ![h].pc = "cleanup", ![h].refused = "snapshot_invalid"]
    /\ UNCHANGED <<lock, main, wal, snaps, request, intent, count, left, expected, since>>

\* The rename of the written intent is the point after which the restore stands.
Mark(h) ==
    /\ At(h, "mark")
    /\ \E f \in staging : f.gen = host[h].n /\ intent' = f /\ expected' = f.commits
    /\ since' = [applied |-> TRUE, commits |-> {}]
    /\ host' = [host EXCEPT ![h].pc = "locked", ![h].installed = TRUE]
    /\ UNCHANGED <<lock, main, wal, snaps, request, staging, count, left>>

Cleanup(h) ==
    /\ At(h, "cleanup")
    /\ staging' = IF intent = Gone THEN {f \in staging : f.gen # host[h].n} ELSE staging
    /\ Release(h)
    /\ IF host[h].refused = "no" THEN Goto(h, "forget") ELSE Refuse(h, host[h].refused)
    /\ UNCHANGED <<main, wal, snaps, request, intent, count, left, expected, since>>

\* The request goes, and the start goes on to open the store.
Forget(h) ==
    /\ At(h, "forget")
    /\ request' = None
    /\ host' = [host EXCEPT ![h] = [Fresh(@.life) EXCEPT !.pc = "lock"]]
    /\ UNCHANGED <<lock, main, wal, snaps, staging, intent, count, left, expected, since>>
-----------------------------------------------------------------------------
\* SwarmStore: a missing file beside snapshots is data loss, else a new install.
Open(h) ==
    /\ At(h, "open")
    /\ IF main = Gone /\ snaps # {}
         THEN /\ Release(h) /\ Refuse(h, "store_missing")
              /\ UNCHANGED <<main, wal, count, expected>>
         ELSE /\ Goto(h, "live") /\ UNCHANGED lock
              /\ IF main # Gone THEN UNCHANGED <<main, wal, count, expected>>
                 ELSE /\ main' = [gen |-> count.gens + 1, commits |-> {}]
                      /\ wal' = Gone /\ expected' = {} /\ Bump("gens")
    /\ UNCHANGED <<snaps, request, staging, intent, left, since>>

\* A commit is in the log once it is acknowledged.
Commit(h) ==
    /\ At(h, "live") /\ count.commits < MaxCommits
    /\ LET c == count.commits + 1 IN
        /\ wal' = [gen |-> main.gen, commits |-> wal.commits \cup {c}]
        /\ expected' = expected \cup {c}
        /\ since' = [since EXCEPT !.commits = @ \cup {c}]
    /\ Bump("commits")
    /\ UNCHANGED <<host, lock, main, snaps, request, staging, intent, left>>

Checkpoint(h) ==
    /\ At(h, "live") /\ wal # Gone
    /\ main' = [main EXCEPT !.commits = Contents]
    /\ wal' = Gone
    /\ UNCHANGED <<host, lock, snaps, request, staging, intent, count, left, expected, since>>

\* A snapshot's name sorts by the revision it holds and then by when it was taken; a
\* restore takes the revision back, so a later snapshot may sort before an older one.
SortsAfter(s, r) ==
    \/ Cardinality(s.commits) > Cardinality(r.commits)
    \/ Cardinality(s.commits) = Cardinality(r.commits) /\ s.gen > r.gen

\* VACUUM INTO folds the log into one file; all but the last Keep by name are pruned.
Snapshot(h) ==
    /\ At(h, "live") /\ count.snapshots < MaxSnapshots
    /\ LET all == snaps \cup {[gen |-> count.snapshots + 1, commits |-> Contents]} IN
        snaps' = {s \in all : Cardinality({o \in all : SortsAfter(o, s)}) < Keep}
    /\ Bump("snapshots")
    /\ UNCHANGED <<host, lock, main, wal, request, staging, intent, left, expected, since>>

\* requestRestore and stageRestore: any snapshot of the directory.
RequestRestore(h) ==
    /\ At(h, "live") /\ snaps # {} /\ count.requests < MaxRequests
    /\ \E s \in snaps : request' = s.gen
    /\ since' = [applied |-> FALSE, commits |-> {}]
    /\ Bump("requests")
    /\ UNCHANGED <<host, lock, main, wal, snaps, staging, intent, left, expected>>

Close(h) ==
    /\ At(h, "live")
    /\ \/ main' = [main EXCEPT !.commits = Contents] /\ wal' = Gone
       \/ UNCHANGED <<main, wal>>
    /\ Release(h)
    /\ host' = [host EXCEPT ![h] = Fresh(@.life)]
    /\ UNCHANGED <<snaps, request, staging, intent, count, left, expected, since>>

Crash(h) ==
    /\ ~At(h, "down") /\ Spend("crashes")
    /\ host' = [host EXCEPT ![h] = Fresh(@.life + 1)]
    /\ UNCHANGED <<disk, count, expected, since>>

\* A store at rest is deleted or truncated.
Lose ==
    /\ \A h \in Hosts : At(h, "down")
    /\ main # Gone /\ intent = Gone /\ Spend("faults")
    /\ main' = Gone /\ wal' = Gone
    /\ UNCHANGED <<host, lock, snaps, request, staging, intent, count, expected, since>>

\* An unreadable lock is removed by the owner, who looked for its process.
InspectedByOwner ==
    /\ lock = Torn /\ \A h \in Hosts : At(h, "down")
    /\ lock' = Free
    /\ UNCHANGED <<host, main, wal, snaps, request, staging, intent, count, left, expected, since>>

Boot(h) ==
    \/ Start(h) \/ Check(h) \/ Acquire(h) \/ Stamp(h) \/ Inspect(h) \/ Reread(h) \/ Unlink(h)
    \/ Finish(h) \/ Rename(h) \/ Sidecars(h) \/ Settle(h) \/ Copy(h) \/ Mark(h) \/ Cleanup(h) \/ Forget(h)
    \/ Open(h)

Next ==
    \/ \E h \in Hosts :
        Boot(h) \/ Commit(h) \/ Checkpoint(h) \/ Snapshot(h) \/ RequestRestore(h) \/ Close(h) \/ Crash(h) \/ Fault(h)
    \/ Lose \/ InspectedByOwner

Spec == Init /\ [][Next]_vars

\* A host that starts runs on, and between refused starts the owner looks at an
\* unreadable lock.
FairSpec == Spec /\ (\A h \in Hosts : WF_vars(Boot(h))) /\ SF_vars(InspectedByOwner)
-----------------------------------------------------------------------------
Live == {h \in Hosts : At(h, "live")}

\* A database that is opened holds exactly what it must: every commit acknowledged
\* since, whatever crashed, or the restored snapshot and nothing of the log the
\* replaced file left; a store that was lost is refused while a snapshot exists.
OpenedWhole == Live # {} => Contents = expected /\ (wal # Gone => wal.gen = main.gen)

\* Whatever a crash cuts a restore short of, its durable intent still has the bytes
\* it names, staged or installed, so that a start can finish it.
IntentBacked == intent # Gone => Staged # {} \/ main.commits = intent.commits

\* "Only one live runtime may own a state file."
OneOwner == \A g, h \in Live : g = h

\* A staged request rolls the store back once: a start that finds it again, after a
\* crash in the middle, restores nothing a host committed after it was applied.
RollsBackOnce == [][intent' # intent /\ intent' # Gone /\ since.applied => since.commits = {}]_vars

\* A restore whose intent is durable is finished by the starts that follow.
RestoreCompletes == intent # Gone ~> intent = Gone

\* "The next host start applies it before opening the store": no start is refused
\* because the snapshot its own host staged is gone.
StagedRestoreApplies == \A h \in Hosts : At(h, "check") => request \in {s.gen : s \in snaps}
=============================================================================
