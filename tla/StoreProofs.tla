---------------------------- MODULE StoreProofs ----------------------------
(***************************************************************************)
(* The store, for any writers, rows, commits and bounds.                   *)
(*                                                                         *)
(* Its rows (StoreWrites): NoLostUpdate and RefusalsKept.  A row's content *)
(* is not a function of who wrote it, so the invariant says what a         *)
(* compare-and-swap may rely on: a copy is never ahead of its row, and one *)
(* that carries the row's revision is the row.                             *)
(*                                                                         *)
(* Its files (StoreRestore): OpenedWhole.  One host at a time is past the  *)
(* lock; each step of a restore that it has reached says what of the       *)
(* restore is on disk, so that the start after a crash finds it so.        *)
(*                                                                         *)
(* Its panes (LiveView): WatchesWake.  The log has the last change of a    *)
(* scope or nothing as old; an answer on its way differs from the store    *)
(* only in what was written since.                                         *)
(***************************************************************************)
EXTENDS MCStore, TLAPS

\* A copy that was read is of a revision the row has had; at the row's own it is the row.
CopyBehind(w, r) ==
    /\ copy[w][r].rev <= row[r].rev
    /\ copy[w][r].rev = row[r].rev => copy[w][r] = row[r]

CopiesBehind == \A w \in Writers, r \in Rows : copy[w][r] # Unread => CopyBehind(w, r)

\* Every revision is some update's.
RevisionsCounted == (\A r \in Rows : row[r].rev <= updates) /\ revision <= updates

WInv ==
    /\ TypeOK
    /\ accepted \in [Rows -> SUBSET Updates]
    /\ RevisionsCounted
    /\ CopiesBehind
    /\ NoLostUpdate
    /\ RefusalsKept

LEMMA WInvInit == Init => WInv
  BY StoreWritesConstants DEF Init, WInv, TypeOK, Row, Updates, Unread, RevisionsCounted,
     CopiesBehind, CopyBehind, NoLostUpdate, RefusalsKept

\* A copy that was read is a row, and not the blank one.
LEMMA CopyTyped ==
    ASSUME WInv, NEW w \in Writers, NEW r \in Rows, copy[w][r] # Unread
    PROVE  copy[w][r] \in Row /\ CopyBehind(w, r)
  BY DEF WInv, TypeOK, CopiesBehind

\* No row is the blank copy: an update is not 0.
LEMMA RowIsNotUnread == ASSUME NEW x \in Row PROVE x # Unread
  BY StoreWritesConstants DEF Row, Updates, Unread

\* What a write makes of a current copy: the row and the update, one revision on.
LEMMA PutOnRow ==
    ASSUME WInv, updates < MaxWrites, NEW r \in Rows
    PROVE  /\ Put(row[r], updates + 1) \in Row
           /\ Put(row[r], updates + 1).rev = row[r].rev + 1
           /\ Put(row[r], updates + 1).holds = accepted[r] \cup {updates + 1}
  BY StoreWritesConstants DEF WInv, TypeOK, RevisionsCounted, NoLostUpdate, Put, Row, Updates

\* A read takes the row as it is.
LEMMA ReadStep ==
    ASSUME WInv, NEW w \in Writers, NEW r \in Rows, Read(w, r)
    PROVE  WInv'
<1>1. copy' \in [Writers -> [Rows -> Row \cup {Unread}]]
  BY DEF WInv, TypeOK, Read
<1>2. CopiesBehind'
  <2> SUFFICES ASSUME NEW v \in Writers, NEW s \in Rows, copy'[v][s] # Unread
               PROVE  CopyBehind(v, s)'
    BY DEF CopiesBehind
  <2>1. CASE v = w /\ s = r
    BY <2>1 DEF WInv, TypeOK, Row, Read, CopyBehind
  <2>2. CASE ~(v = w /\ s = r)
    BY <2>2 DEF WInv, TypeOK, Read, CopiesBehind, CopyBehind
  <2> QED
    BY <2>1, <2>2
<1> QED
  BY <1>1, <1>2 DEF WInv, TypeOK, Read, RevisionsCounted, NoLostUpdate, RefusalsKept

\* What a step does to the rows when the copies that wrote them are given up: each row is
\* as it was or holds one more update, a revision on; each copy is as it was or given up.
LEMMA RowsAdvance ==
    ASSUME WInv, updates < MaxWrites, NEW written \in SUBSET Rows,
           updates' = updates + 1,
           row' = [r \in Rows |-> IF r \in written THEN Put(row[r], updates + 1) ELSE row[r]],
           accepted' = [r \in Rows |-> IF r \in written THEN accepted[r] \cup {updates + 1}
                                                        ELSE accepted[r]],
           copy' \in [Writers -> [Rows -> Row \cup {Unread}]],
           \A v \in Writers, s \in Rows : copy'[v][s] \in {copy[v][s], Unread}
    PROVE  /\ row' \in [Rows -> Row] /\ accepted' \in [Rows -> SUBSET Updates]
           /\ (\A r \in Rows : row[r].rev <= updates)' /\ CopiesBehind' /\ NoLostUpdate'
<1>1. updates + 1 \in Updates
  BY StoreWritesConstants DEF WInv, TypeOK, Updates
<1>2. row' \in [Rows -> Row] /\ accepted' \in [Rows -> SUBSET Updates]
  BY <1>1, PutOnRow DEF WInv, TypeOK
<1>3. (\A r \in Rows : row[r].rev <= updates)'
  BY StoreWritesConstants, PutOnRow DEF WInv, TypeOK, RevisionsCounted, Row
<1>4. CopiesBehind'
  <2> SUFFICES ASSUME NEW v \in Writers, NEW s \in Rows, copy'[v][s] # Unread
               PROVE  CopyBehind(v, s)'
    BY DEF CopiesBehind
  <2>1. copy'[v][s] = copy[v][s] /\ copy[v][s] \in Row /\ CopyBehind(v, s)
    BY CopyTyped
  <2>2. row[s] \in Row
    BY DEF WInv, TypeOK
  <2>3. CASE s \in written
    BY <2>1, <2>2, <2>3, PutOnRow DEF CopyBehind, Row
  <2>4. CASE s \notin written
    BY <2>1, <2>2, <2>4 DEF CopyBehind
  <2> QED
    BY <2>3, <2>4
<1>5. NoLostUpdate'
  BY PutOnRow DEF WInv, NoLostUpdate
<1> QED
  BY <1>2, <1>3, <1>4, <1>5

\* A transaction: what it commits, what it rolls back, and what the writer refuses.
LEMMA TransactStep ==
    ASSUME WInv, NEW w \in Writers, Transact(w)
    PROVE  WInv'
<1>0. updates < MaxWrites
  BY DEF Transact
<1> DEFINE n == updates + 1
           fresh(touched) == {r \in touched : Current(w, r)}
<1>1. PICK touched \in SUBSET Held(w) \ {{}} :
        /\ updates' = n
        /\ copy' = [copy EXCEPT ![w] = [r \in Rows |-> IF r \in touched THEN Unread ELSE @[r]]]
        /\ LET stale == touched \ fresh(touched)
           IN  \/ /\ Commit(w, fresh(touched), stale, n)
                  /\ refused' = IF stale = {} THEN refused ELSE refused \cup {n}
               \/ /\ stale # {} /\ Rollback(stale, n)
                  /\ refused' = refused \cup {n}
               \/ \E kept \in {{}, stale} :
                      Rollback(kept, n) /\ refused' = IF kept = {} THEN refused ELSE refused \cup {n}
  BY DEF Transact
<1> DEFINE stale == touched \ fresh(touched)
<1>2. /\ copy' \in [Writers -> [Rows -> Row \cup {Unread}]]
      /\ \A v \in Writers, s \in Rows : copy'[v][s] \in {copy[v][s], Unread}
  BY <1>1 DEF WInv, TypeOK
<1>3. /\ touched \subseteq Rows /\ \A r \in touched : copy[w][r] # Unread
      /\ \A r \in fresh(touched) : copy[w][r] = row[r]
  BY <1>1, CopyTyped DEF Held, Current, CopyBehind
<1>4. updates' \in 0 .. MaxWrites /\ n \in Updates
  BY <1>0, <1>1, StoreWritesConstants DEF WInv, TypeOK, Updates
<1>5. \/ Commit(w, fresh(touched), stale, n)
      \/ row' = row /\ accepted' = accepted
  BY <1>1 DEF Rollback
<1>6. \E written \in SUBSET Rows :
        /\ row' = [r \in Rows |-> IF r \in written THEN Put(row[r], updates + 1) ELSE row[r]]
        /\ accepted' = [r \in Rows |-> IF r \in written THEN accepted[r] \cup {updates + 1}
                                                        ELSE accepted[r]]
  <2>1. CASE Commit(w, fresh(touched), stale, n)
    BY <1>3, <2>1 DEF Commit
  <2>2. CASE row' = row /\ accepted' = accepted
    <3>1. /\ row' = [r \in Rows |-> IF r \in {} THEN Put(row[r], updates + 1) ELSE row[r]]
          /\ accepted' = [r \in Rows |-> IF r \in {} THEN accepted[r] \cup {updates + 1}
                                                     ELSE accepted[r]]
      BY <2>2 DEF WInv, TypeOK
    <3> WITNESS {} \in SUBSET Rows
    <3> QED
      BY <3>1
  <2> QED
    BY <1>5, <2>1, <2>2
<1>7. /\ row' \in [Rows -> Row] /\ accepted' \in [Rows -> SUBSET Updates]
      /\ (\A r \in Rows : row[r].rev <= updates)' /\ CopiesBehind' /\ NoLostUpdate'
  BY <1>0, <1>1, <1>2, <1>6, RowsAdvance
<1>8. revision' \in 0 .. MaxWrites /\ revision' <= updates'
  BY <1>0, <1>1, <1>4, StoreWritesConstants
  DEF WInv, TypeOK, RevisionsCounted, Commit, Rollback
<1>9. log' \subseteq Updates /\ RefusalsKept'
  BY <1>1, <1>4 DEF WInv, TypeOK, RefusalsKept, Commit, Rollback
<1> QED
  BY <1>2, <1>4, <1>7, <1>8, <1>9 DEF WInv, TypeOK, RevisionsCounted

\* A transition that reads its row in its own commit, or abandons it.
LEMMA ReviseStep ==
    ASSUME WInv, NEW w \in Writers, NEW r \in Rows, Revise(w, r)
    PROVE  WInv'
<1>0. updates < MaxWrites /\ updates' = updates + 1
  BY DEF Revise
<1>1. /\ copy' \in [Writers -> [Rows -> Row \cup {Unread}]]
      /\ \A v \in Writers, s \in Rows : copy'[v][s] \in {copy[v][s], Unread}
  BY DEF Revise, WInv, TypeOK
<1>2. \E written \in SUBSET Rows :
        /\ row' = [s \in Rows |-> IF s \in written THEN Put(row[s], updates + 1) ELSE row[s]]
        /\ accepted' = [s \in Rows |-> IF s \in written THEN accepted[s] \cup {updates + 1}
                                                        ELSE accepted[s]]
  <2>1. CASE row' = row /\ accepted' = accepted
    <3>1. /\ row' = [s \in Rows |-> IF s \in {} THEN Put(row[s], updates + 1) ELSE row[s]]
          /\ accepted' = [s \in Rows |-> IF s \in {} THEN accepted[s] \cup {updates + 1}
                                                     ELSE accepted[s]]
      BY <2>1 DEF WInv, TypeOK
    <3> WITNESS {} \in SUBSET Rows
    <3> QED
      BY <3>1
  <2>2. CASE /\ row' = [row EXCEPT ![r] = Put(@, updates + 1)]
             /\ accepted' = [accepted EXCEPT ![r] = @ \cup {updates + 1}]
    <3>1. /\ row' = [s \in Rows |-> IF s \in {r} THEN Put(row[s], updates + 1) ELSE row[s]]
          /\ accepted' = [s \in Rows |-> IF s \in {r} THEN accepted[s] \cup {updates + 1}
                                                      ELSE accepted[s]]
      BY <2>2 DEF WInv, TypeOK
    <3> WITNESS {r} \in SUBSET Rows
    <3> QED
      BY <3>1
  <2> QED
    BY <2>1, <2>2 DEF Revise
<1>3. /\ row' \in [Rows -> Row] /\ accepted' \in [Rows -> SUBSET Updates]
      /\ (\A s \in Rows : row[s].rev <= updates)' /\ CopiesBehind' /\ NoLostUpdate'
  BY <1>0, <1>1, <1>2, RowsAdvance
<1>4. /\ updates' \in 0 .. MaxWrites /\ revision' \in 0 .. MaxWrites /\ revision' <= updates'
      /\ log' \subseteq Updates /\ RefusalsKept'
  BY <1>0, StoreWritesConstants DEF Revise, WInv, TypeOK, RevisionsCounted, RefusalsKept
<1> QED
  BY <1>1, <1>3, <1>4 DEF WInv, TypeOK, RevisionsCounted

LEMMA WInvStep == WInv /\ [Next]_vars => WInv'
<1> SUFFICES ASSUME WInv, [Next]_vars PROVE WInv'
  OBVIOUS
<1>1. ASSUME NEW w \in Writers, Transact(w) PROVE WInv'
  BY <1>1, TransactStep
<1>2. ASSUME NEW w \in Writers, NEW r \in Rows, Read(w, r) PROVE WInv'
  BY <1>2, ReadStep
<1>3. ASSUME NEW w \in Writers, NEW r \in Rows, Revise(w, r) PROVE WInv'
  BY <1>3, ReviseStep
<1>4. CASE UNCHANGED vars
  BY <1>4 DEF vars, WInv, TypeOK, RevisionsCounted, CopiesBehind, CopyBehind, NoLostUpdate,
     RefusalsKept
<1> QED
  BY <1>1, <1>2, <1>3, <1>4 DEF Next

\* The inductive invariant of the store's writers.
THEOREM WritesInvariant == Spec => []WInv
  BY WInvInit, WInvStep, PTL DEF Spec

\* No lost update: a row holds every update whose write putTask accepted, whatever the
\* writers had read and however long each awaited before its commit.
THEOREM UpdatesKept == Spec => []NoLostUpdate
<1>1. WInv => NoLostUpdate
  BY DEF WInv
<1> QED
  BY <1>1, WritesInvariant, PTL

\* Every refused write is in the log, or its own record found the writer busy.
THEOREM RefusalsRecorded == Spec => []RefusalsKept
<1>1. WInv => RefusalsKept
  BY DEF WInv
<1> QED
  BY <1>1, WritesInvariant, PTL


-----------------------------------------------------------------------------
\* A lock, a process of a host, and a file.
Locks == [host : Hosts \cup {0}, life : Nat]

Processes ==
    [pc : Disk!Phases, life : Nat, job : {"open", "restore"}, seen : Locks, n : Nat,
     installed : BOOLEAN, refused : {"no", "snapshot_invalid", "restore_blocked", "store_missing", "locked"}]
Files == [gen : Nat, commits : SUBSET Nat]

FilesTyped ==
    /\ host \in [Hosts -> Processes]
    /\ main \in Files /\ wal \in Files /\ intent \in Files
    /\ staging \subseteq Files /\ snaps \subseteq Files
    /\ count \in [commits : Nat, snapshots : Nat, requests : Nat, gens : Nat]
    /\ lock \in Locks
    /\ left \in [hosts : SUBSET Hosts, crashes : Nat, faults : Nat]

Inside == Disk!Phases \ {"down", "check", "lock", "inspect", "reread", "unlink", "forget"}

\* One host starts here, or several and none has crashed.
Single == \A g, h \in left.hosts : g = h
Unbroken ==
    /\ left.crashes = 0
    /\ lock \in {Disk!Free, Disk!Torn} \/ (lock.host \in Hosts /\ lock.life = 1)
    /\ \A h \in Hosts :
        /\ host[h].life = 1 /\ host[h].pc \notin {"reread", "unlink"}
        /\ host[h].pc \in Inside => lock # Disk!Free

OneInside ==
    /\ \A h \in Hosts : host[h].pc # "down" => h \in left.hosts
    /\ \A g, h \in Hosts : host[g].pc \in Inside /\ host[h].pc \in Inside => g = h
    /\ Single \/ Unbroken

\* What is at hand without an intent, and what a durable one needs.
FilesWhole ==
    /\ main # Disk!Gone => main.gen # 0
    /\ \A f \in staging : f.gen # 0
    /\ intent = Disk!Gone /\ main # Disk!Gone =>
        Disk!Contents = expected /\ (wal # Disk!Gone => wal.gen = main.gen)
    /\ intent # Disk!Gone =>
        /\ expected = intent.commits
        /\ Disk!Staged # {} \/ (main # Disk!Gone /\ main.commits = intent.commits)

\* How far the restore has come for the host at each step.
Reached(pc) ==
    /\ pc \in {"copy", "mark", "open", "live"} => intent = Disk!Gone
    /\ pc = "live" => main # Disk!Gone
    /\ pc \in {"rename", "sidecars", "settle"} => intent # Disk!Gone
    /\ pc \in {"sidecars", "settle"} => main # Disk!Gone /\ main.commits = intent.commits
    /\ pc = "settle" => wal = Disk!Gone

FInv == FilesTyped /\ OneInside /\ FilesWhole /\ \A h \in Hosts : Reached(host[h].pc)

LEMMA StoreNumbers ==
    /\ 0 \notin Hosts /\ h1 \in Hosts /\ Copies \subseteq Nat \ {0} /\ Keep \in Nat \ {0}
    /\ {MaxCommits, MaxSnapshots, MaxRequests, MaxCrashes, MaxFaults} \subseteq Nat
  BY RestoreBounds DEF Disk!StoreRestoreConstants

\* A process goes to a phase, and the others stay.
Moves(h, pc) ==
    /\ host' \in [Hosts -> Processes] /\ pc \in Disk!Phases
    /\ \A g \in Hosts \ {h} : host'[g] = host[g]
    /\ host'[h].pc = pc /\ host'[h].life = host[h].life

LEMMA GotoMoves ==
    ASSUME FilesTyped, NEW h \in Hosts, NEW pc \in Disk!Phases, Disk!Goto(h, pc)
    PROVE  Moves(h, pc)
<1>1. host[h] \in Processes
  BY DEF FilesTyped
<1>2. host' = [host EXCEPT ![h].pc = pc]
  BY DEF Disk!Goto
<1>3. [host[h] EXCEPT !.pc = pc] \in Processes
  BY <1>1 DEF Processes
<1>4. host' \in [Hosts -> Processes]
  BY <1>2, <1>3 DEF FilesTyped
<1> QED
  BY <1>1, <1>2, <1>4 DEF FilesTyped, Moves, Processes

LEMMA FreshProcess ==
    ASSUME NEW life \in Nat
    PROVE  Disk!Fresh(life) \in Processes /\ Disk!Fresh(life).pc = "down" /\ Disk!Fresh(life).life = life
<1>1. \A b \in BOOLEAN :
        LET p == [pc |-> "down", life |-> life, job |-> "open", seen |-> Disk!Free, n |-> 0, installed |-> b,
                  refused |-> "no"]
        IN  p \in Processes /\ p.pc = "down" /\ p.life = life
  BY DEF Processes, Locks, Disk!Free, Disk!None, Disk!Phases
<1> QED
  BY <1>1, Zenon DEF Disk!Fresh, Disk!None

Refusals == {"no", "snapshot_invalid", "restore_blocked", "store_missing", "locked"}

LEMMA RefuseMoves ==
    ASSUME FilesTyped, NEW h \in Hosts, NEW why \in Refusals, Disk!Refuse(h, why)
    PROVE  Moves(h, "down")
<1>1. host[h].life \in Nat
  BY DEF FilesTyped, Processes
<1> DEFINE p == [Disk!Fresh(host[h].life) EXCEPT !.refused = why]
<1>2. p \in Processes /\ p.pc = "down" /\ p.life = host[h].life
  BY <1>1, FreshProcess DEF Processes, Refusals
<1>3. host' = [host EXCEPT ![h] = p]
  BY DEF Disk!Refuse
<1> HIDE DEF p
<1> QED
  BY <1>2, <1>3 DEF FilesTyped, Moves, Disk!Phases

\* What a process's move keeps of the lock: the lock changes only by one that is inside.
LEMMA MoveKept ==
    ASSUME FInv, NEW h \in Hosts, NEW pc, Moves(h, pc),
           pc # "down" => h \in left.hosts,
           left'.hosts = left.hosts, left.crashes = 0 => left'.crashes = 0,
           pc \in Inside => host[h].pc \in Inside \/ lock = Disk!Free,
           lock' = lock \/ pc \in Inside \/ host[h].pc \in Inside \/ ~Unbroken,
           Unbroken => /\ pc \notin {"reread", "unlink"} /\ (pc \in Inside => lock' # Disk!Free)
                       /\ lock' \in {Disk!Free, Disk!Torn} \/ (lock'.host \in Hosts /\ lock'.life = 1)
    PROVE  OneInside'
<1> USE DEF FInv, OneInside, Moves
<1>1. Single => Single'
  BY DEF Single
<1>2. \A g \in Hosts \ {h} : host'[g].pc \in Inside /\ pc \in Inside => FALSE
  <2> SUFFICES ASSUME NEW g \in Hosts \ {h}, host[g].pc \in Inside, pc \in Inside PROVE FALSE
    OBVIOUS
  <2>1. host[h].pc \notin Inside /\ lock = Disk!Free
    OBVIOUS
  <2>2. ~Unbroken
    BY <2>1 DEF Unbroken
  <2>3. g \in left.hosts /\ h \in left.hosts
    BY DEF Inside
  <2> QED
    BY <2>2, <2>3 DEF Single
<1>3. Unbroken => Unbroken'
  <2> SUFFICES ASSUME Unbroken PROVE Unbroken'
    OBVIOUS
  <2>1. \A g \in Hosts \ {h} : host'[g].pc \in Inside => lock' # Disk!Free
    BY <1>2 DEF Unbroken
  <2> QED
    BY <2>1 DEF Unbroken
<1>4. \A g \in Hosts : host'[g].pc # "down" => g \in left'.hosts
  OBVIOUS
<1> QED
  BY <1>1, <1>2, <1>3, <1>4

\* A process that is inside is alone there: what the others reached says nothing.
LEMMA ReachedKept ==
    ASSUME FInv, NEW h \in Hosts, NEW pc, Moves(h, pc), Reached(pc)',
           UNCHANGED <<main, wal, intent>> \/ host[h].pc \in Inside
    PROVE  \A g \in Hosts : Reached(host[g].pc)'
<1> SUFFICES ASSUME NEW g \in Hosts \ {h} PROVE Reached(host[g].pc)'
  BY DEF Moves
<1>1. host'[g] = host[g]
  BY DEF Moves
<1>2. CASE UNCHANGED <<main, wal, intent>>
  BY <1>1, <1>2 DEF FInv, Reached
<1>3. CASE host[h].pc \in Inside
  <2>1. host[g].pc \notin Inside
    BY <1>3 DEF FInv, OneInside
  <2>2. host[g].pc \notin {"copy", "mark", "open", "live", "rename", "sidecars", "settle"}
    BY <2>1 DEF Inside, Disk!Phases
  <2> QED
    BY <1>1, <2>2 DEF Reached
<1> QED
  BY <1>2, <1>3

\* A step that leaves the files alone.
LEMMA FilesKept ==
    ASSUME FInv, UNCHANGED <<main, wal, staging, intent, expected>>
    PROVE  FilesWhole'
  BY DEF FInv, FilesWhole, Disk!Contents, Disk!Staged

\* What the steps at the lock leave alone.
Spent ==
    \/ left' = left
    \/ /\ left' \in [hosts : SUBSET Hosts, crashes : Nat, faults : Nat]
       /\ left'.hosts = left.hosts /\ left'.crashes = left.crashes
Quiet == UNCHANGED <<main, wal, snaps, staging, intent, count, expected>> /\ Spent

\* A step before the lock is taken.
LEMMA OutsideStep ==
    ASSUME FInv, NEW h \in Hosts, NEW pc, Moves(h, pc), pc \notin Inside, Quiet, lock' = lock,
           pc # "down" => h \in left.hosts, Unbroken => pc \notin {"reread", "unlink"}
    PROVE  FInv'
<1>1. FilesTyped'
  BY DEF FInv, FilesTyped, Moves, Quiet, Spent
<1>2. OneInside'
  <2>1. Unbroken => lock' \in {Disk!Free, Disk!Torn} \/ (lock'.host \in Hosts /\ lock'.life = 1)
    BY DEF Unbroken
  <2> QED
    BY <2>1, MoveKept DEF Quiet, Spent
<1>3. Reached(pc)'
  BY DEF Inside, Disk!Phases, Moves, Reached
<1> QED
  BY <1>1, <1>2, <1>3, ReachedKept, FilesKept DEF FInv, Quiet, Spent

LEMMA StartsHere ==
    ASSUME FInv, NEW h \in Hosts, host[h].pc # "down"
    PROVE  h \in left.hosts
  BY DEF FInv, OneInside

\* A process that has read the lock.
LEMMA ReadingProcess ==
    ASSUME NEW x \in Processes, NEW k \in Locks
    PROVE  LET y == [x EXCEPT !.pc = "reread", !.seen = k]
           IN  y \in Processes /\ y.pc = "reread" /\ y.life = x.life
  BY DEF Processes, Disk!Phases

LEMMA StartStep == ASSUME FInv, NEW h \in Hosts, Disk!Start(h) PROVE FInv'
<1> DEFINE pc == IF request = Disk!None THEN "lock" ELSE "check"
           job == IF request = Disk!None THEN "open" ELSE "restore"
           x == Disk!Fresh(host[h].life)
           p == [x EXCEPT !.pc = pc, !.job = job]
<1>1. host[h].life \in Nat
  BY DEF FInv, FilesTyped, Processes
<1>2. p \in Processes /\ p.pc = pc /\ p.life = host[h].life
  <2>1. pc \in {"lock", "check"} /\ job \in {"open", "restore"}
    OBVIOUS
  <2>2. x \in Processes /\ x.life = host[h].life
    BY <1>1, FreshProcess
  <2> HIDE DEF pc, job, x
  <2>3. pc \in Disk!Phases
    BY <2>1 DEF Disk!Phases
  <2> QED
    BY <2>1, <2>2, <2>3 DEF Processes
<1>3. host' = [host EXCEPT ![h] = p]
  BY DEF Disk!Start
<1>4. pc \in Disk!Phases \ Inside /\ pc \notin {"reread", "unlink"}
  BY DEF Inside, Disk!Phases
<1> HIDE DEF p, pc
<1>5. Moves(h, pc)
  BY <1>2, <1>3, <1>4 DEF FInv, FilesTyped, Moves
<1> QED
  BY <1>4, <1>5, OutsideStep DEF Disk!Start, Disk!disk, Quiet, Spent

LEMMA CheckStep == ASSUME FInv, NEW h \in Hosts, Disk!Check(h) PROVE FInv'
<1>1. PICK pc \in {"lock", "down"} : Moves(h, pc)
  BY GotoMoves, RefuseMoves DEF FInv, Disk!Check, Refusals, Disk!Phases
<1>2. h \in left.hosts
  BY StartsHere DEF Disk!Check, Disk!At
<1> QED
  BY <1>1, <1>2, OutsideStep DEF Disk!Check, Disk!disk, Quiet, Spent, Inside

LEMMA InspectStep == ASSUME FInv, NEW h \in Hosts, Disk!Inspect(h) PROVE FInv'
<1>1. h \in left.hosts
  BY StartsHere DEF Disk!Inspect, Disk!At
<1>2. CASE Disk!Refuse(h, "locked")
  BY <1>1, <1>2, RefuseMoves, OutsideStep DEF FInv, Disk!Inspect, Disk!disk, Quiet, Spent, Refusals, Inside
<1>3. CASE ~(lock \in {Disk!Free, Disk!Torn} \/ ~Disk!OwnerAbandoned(lock))
  <2> DEFINE p == [host[h] EXCEPT !.pc = "reread", !.seen = lock]
  <2>1. p \in Processes /\ p.pc = "reread" /\ p.life = host[h].life
    <3>1. host[h] \in Processes /\ lock \in Locks
      BY DEF FInv, FilesTyped
    <3> QED
      BY <3>1, ReadingProcess, Zenon
  <2>2. host' = [host EXCEPT ![h] = p]
    BY <1>3 DEF Disk!Inspect
  <2> HIDE DEF p
  <2>3. Moves(h, "reread")
    BY <2>1, <2>2 DEF FInv, FilesTyped, Moves, Disk!Phases
  <2>4. ~Unbroken
    BY <1>3 DEF Unbroken, Disk!OwnerAbandoned
  <2> QED
    BY <1>1, <2>3, <2>4, OutsideStep DEF Disk!Inspect, Disk!disk, Quiet, Spent, Inside
<1> QED
  BY <1>2, <1>3 DEF Disk!Inspect

LEMMA RereadStep == ASSUME FInv, NEW h \in Hosts, Disk!Reread(h) PROVE FInv'
<1>1. PICK pc \in {"unlink", "down"} : Moves(h, pc)
  BY GotoMoves, RefuseMoves DEF FInv, Disk!Reread, Refusals, Disk!Phases
<1>2. h \in left.hosts /\ ~Unbroken
  BY StartsHere DEF Disk!Reread, Disk!At, Unbroken
<1> QED
  BY <1>1, <1>2, OutsideStep DEF Disk!Reread, Disk!disk, Quiet, Spent, Inside

\* A step at the lock.
LEMMA LockStep ==
    ASSUME FInv, NEW h \in Hosts, NEW pc, Moves(h, pc), Quiet, h \in left.hosts, lock' \in Locks,
           pc \in Inside => host[h].pc \in Inside \/ lock = Disk!Free,
           lock' = lock \/ pc \in Inside \/ host[h].pc \in Inside \/ ~Unbroken,
           Unbroken => /\ pc \notin {"reread", "unlink"} /\ (pc \in Inside => lock' # Disk!Free)
                       /\ lock' \in {Disk!Free, Disk!Torn} \/ (lock'.host \in Hosts /\ lock'.life = 1),
           Reached(pc)
    PROVE  FInv'
<1>1. FilesTyped'
  BY DEF FInv, FilesTyped, Moves, Quiet, Spent
<1>2. OneInside'
  BY MoveKept DEF Quiet, Spent
<1>3. Reached(pc)'
  BY DEF Reached, Quiet, Spent
<1> QED
  BY <1>1, <1>2, <1>3, ReachedKept, FilesKept DEF FInv, Quiet, Spent

LEMMA LocksAre ==
    /\ Disk!Free \in Locks /\ Disk!Torn \in Locks /\ Disk!Free # Disk!Torn
    /\ \A h \in Hosts : FilesTyped => Disk!Mine(h) \in Locks
    /\ \A h \in Hosts : Disk!Mine(h) # Disk!Free /\ Disk!Mine(h).host = h /\ Disk!Mine(h).life = host[h].life
  BY StoreNumbers DEF Locks, Disk!Free, Disk!Torn, Disk!None, Disk!Mine, FilesTyped, Processes

LEMMA AcquireStep == ASSUME FInv, NEW h \in Hosts, Disk!Acquire(h) PROVE FInv'
<1>1. h \in left.hosts /\ host[h].pc = "lock"
  BY StartsHere DEF Disk!Acquire, Disk!At
<1>2. CASE lock = Disk!Free
  <2>1. lock' = Disk!Torn /\ Moves(h, "stamp")
    BY <1>2, GotoMoves DEF FInv, Disk!Acquire, Disk!Phases
  <2>2. "stamp" \in Inside /\ Reached("stamp") /\ "stamp" \notin {"reread", "unlink"}
    BY DEF Inside, Disk!Phases, Reached
  <2> QED
    BY <1>1, <1>2, <2>1, <2>2, LockStep, LocksAre DEF Disk!Acquire, Quiet, Spent
<1>3. CASE lock # Disk!Free
  <2>1. lock' = lock /\ Moves(h, "inspect")
    BY <1>3, GotoMoves DEF FInv, Disk!Acquire, Disk!Phases
  <2> QED
    BY <1>1, <2>1, OutsideStep DEF Disk!Acquire, Quiet, Spent, Inside
<1> QED
  BY <1>2, <1>3

LEMMA StampStep == ASSUME FInv, NEW h \in Hosts, Disk!Stamp(h) PROVE FInv'
<1>1. h \in left.hosts /\ host[h].pc = "stamp"
  BY StartsHere DEF Disk!Stamp, Disk!At
<1>2. lock' = Disk!Mine(h) /\ Moves(h, "locked") /\ Quiet
  BY GotoMoves DEF FInv, Disk!Stamp, Disk!Phases, Quiet, Spent
<1>3. {"stamp", "locked"} \subseteq Inside /\ Reached("locked")
  BY DEF Inside, Disk!Phases, Reached
<1>4. Unbroken => lock'.host \in Hosts /\ lock'.life = 1 /\ lock' # Disk!Free
  BY <1>2, LocksAre DEF Unbroken
<1>5. lock' \in Locks
  BY <1>2, LocksAre DEF FInv
<1> QED
  BY <1>1, <1>2, <1>3, <1>4, <1>5, LockStep

LEMMA UnlinkStep == ASSUME FInv, NEW h \in Hosts, Disk!Unlink(h) PROVE FInv'
<1>1. h \in left.hosts /\ ~Unbroken
  BY StartsHere DEF Disk!Unlink, Disk!At, Unbroken
<1>2. PICK pc \in {"lock", "down"} : Moves(h, pc)
  BY GotoMoves, RefuseMoves DEF FInv, Disk!Unlink, Refusals, Disk!Phases
<1>3. lock' = Disk!Free /\ Quiet
  BY DEF Disk!Unlink, Quiet, Spent
<1>4. pc \notin Inside /\ Reached(pc)
  BY <1>2 DEF Inside, Reached
<1> QED
  BY <1>1, <1>2, <1>3, <1>4, LockStep, LocksAre

\* A step under the lock, which it keeps unless it leaves.
LEMMA InsideStep ==
    ASSUME FInv, NEW h \in Hosts, NEW pc, Moves(h, pc), host[h].pc \in Inside, Spent,
           pc \notin {"reread", "unlink"}, lock' = lock \/ (lock' = Disk!Free /\ pc \notin Inside),
           main' \in Files, wal' \in Files, intent' \in Files, staging' \subseteq Files, snaps' \subseteq Files,
           count' \in [commits : Nat, snapshots : Nat, requests : Nat, gens : Nat],
           FilesWhole', Reached(pc)'
    PROVE  FInv'
<1>1. FilesTyped'
  BY LocksAre DEF FInv, FilesTyped, Moves, Spent
<1>2. h \in left.hosts
  BY StartsHere DEF Inside
<1>3. Unbroken => /\ pc \in Inside => lock' # Disk!Free
                  /\ lock' \in {Disk!Free, Disk!Torn} \/ (lock'.host \in Hosts /\ lock'.life = 1)
  BY DEF Unbroken
<1>4. OneInside'
  BY <1>2, <1>3, MoveKept DEF Spent
<1> QED
  BY <1>1, <1>4, ReachedKept DEF FInv

LEMMA StayMoves == ASSUME FInv, NEW h \in Hosts, host' = host PROVE Moves(h, host[h].pc)
  BY DEF FInv, FilesTyped, Moves, Processes

\* One that writes no file.
LEMMA QuietInside ==
    ASSUME FInv, NEW h \in Hosts, NEW pc, Moves(h, pc), host[h].pc \in Inside, Quiet,
           pc \notin {"reread", "unlink"}, lock' = lock \/ (lock' = Disk!Free /\ pc \notin Inside), Reached(pc)
    PROVE  FInv'
<1>1. Reached(pc)'
  BY DEF Reached, Quiet
<1> QED
  BY <1>1, InsideStep, FilesKept DEF FInv, FilesTyped, Quiet

LEMMA ReleaseFrees ==
    ASSUME NEW h, Disk!Release(h) PROVE lock' = lock \/ lock' = Disk!Free
  BY DEF Disk!Release

LEMMA FailStep ==
    ASSUME FInv, NEW h \in Hosts, host[h].pc \in Inside, Disk!Fail(h), Quiet
    PROVE  FInv'
<1>1. CASE host[h].job = "restore"
  <2> DEFINE p == [host[h] EXCEPT !.pc = "cleanup", !.refused = "restore_blocked"]
  <2>1. host[h] \in Processes
    BY DEF FInv, FilesTyped
  <2>2. p \in Processes /\ p.pc = "cleanup" /\ p.life = host[h].life
    BY <2>1 DEF Processes, Disk!Phases
  <2>3. host' = [host EXCEPT ![h] = p] /\ lock' = lock
    BY <1>1 DEF Disk!Fail
  <2> HIDE DEF p
  <2>4. Moves(h, "cleanup")
    BY <2>2, <2>3 DEF FInv, FilesTyped, Moves, Disk!Phases
  <2>5. Reached("cleanup")
    BY DEF Reached
  <2> QED
    BY <2>3, <2>4, <2>5, QuietInside
<1>2. CASE host[h].job # "restore"
  <2>1. Moves(h, "down") /\ Disk!Release(h)
    BY <1>2, RefuseMoves DEF FInv, Disk!Fail, Refusals
  <2>2. Reached("down") /\ "down" \notin Inside
    BY DEF Reached, Inside
  <2> QED
    BY <2>1, <2>2, QuietInside, ReleaseFrees
<1> QED
  BY <1>1, <1>2

LEMMA FaultStep == ASSUME FInv, NEW h \in Hosts, Disk!Fault(h) PROVE FInv'
<1>1. host[h].pc \in Inside
  BY DEF Disk!Fault, Inside, Disk!Phases
<1>2. left' \in [hosts : SUBSET Hosts, crashes : Nat, faults : Nat]
      /\ left'.hosts = left.hosts /\ left'.crashes = left.crashes
  BY DEF FInv, FilesTyped, Disk!Fault, Disk!Spend
<1> QED
  BY <1>1, <1>2, FailStep DEF Disk!Fault, Quiet, Spent

LEMMA FinishStep == ASSUME FInv, NEW h \in Hosts, Disk!Finish(h) PROVE FInv'
<1>1. host[h].pc \in Inside /\ Quiet
  BY DEF Disk!Finish, Disk!At, Inside, Disk!Phases, Quiet, Spent
<1>2. PICK b \in {"copy", "cleanup", "open"} : Disk!Finished(h) = b
  BY DEF Disk!Finished
<1>3. CASE intent = Disk!Gone
  <2>1. Moves(h, b) /\ lock' = lock
    BY <1>2, <1>3, GotoMoves DEF FInv, Disk!Finish, Disk!Phases
  <2>2. Reached(b)
    BY <1>2, <1>3 DEF Reached
  <2> QED
    BY <1>1, <2>1, <2>2, QuietInside
<1>4. CASE intent # Disk!Gone /\ Disk!Staged # {}
  <2>1. Moves(h, "rename") /\ lock' = lock
    BY <1>4, GotoMoves DEF FInv, Disk!Finish, Disk!Phases
  <2>2. Reached("rename")
    BY <1>4 DEF Reached
  <2> QED
    BY <1>1, <2>1, <2>2, QuietInside
<1>5. CASE intent # Disk!Gone /\ Disk!Staged = {} /\ main.commits = intent.commits /\ main # Disk!Gone
  <2>1. Moves(h, "sidecars") /\ lock' = lock
    BY <1>5, GotoMoves DEF FInv, Disk!Finish, Disk!Phases
  <2>2. Reached("sidecars")
    BY <1>5 DEF Reached
  <2> QED
    BY <1>1, <2>1, <2>2, QuietInside
<1>6. CASE Disk!Fail(h)
  BY <1>1, <1>6, FailStep
<1> QED
  BY <1>3, <1>4, <1>5, <1>6 DEF Disk!Finish

LEMMA RenameStep == ASSUME FInv, NEW h \in Hosts, Disk!Rename(h) PROVE FInv'
<1>1. host[h].pc \in Inside /\ intent # Disk!Gone
  BY DEF FInv, Reached, Disk!Rename, Disk!At, Inside, Disk!Phases
<1>2. Moves(h, "sidecars") /\ Spent /\ lock' = lock /\ UNCHANGED <<wal, snaps, intent, expected>>
  BY GotoMoves DEF FInv, Disk!Rename, Disk!Phases, Spent
<1>3. main' = [gen |-> count.gens + 1, commits |-> intent.commits] /\ staging' \subseteq staging
  BY DEF Disk!Rename
<1>4. /\ main' \in Files /\ main'.gen # 0 /\ main'.commits = intent.commits
      /\ count' \in [commits : Nat, snapshots : Nat, requests : Nat, gens : Nat]
  BY <1>3 DEF FInv, FilesTyped, Files, Disk!Rename, Disk!Bump
<1>5. main' # Disk!Gone
  BY <1>4 DEF Disk!Gone, Disk!None
<1>6. FilesWhole'
  BY <1>1, <1>2, <1>3, <1>4, <1>5 DEF FInv, FilesWhole
<1>7. Reached("sidecars")'
  BY <1>1, <1>2, <1>4, <1>5 DEF Reached
<1> QED
  BY <1>1, <1>2, <1>3, <1>4, <1>6, <1>7, InsideStep DEF FInv, FilesTyped

LEMMA GoneIsFile == Disk!Gone \in Files /\ Disk!Gone.gen = 0 /\ Disk!Gone.commits = {}
  BY DEF Disk!Gone, Disk!None, Files

LEMMA SidecarsStep == ASSUME FInv, NEW h \in Hosts, Disk!Sidecars(h) PROVE FInv'
<1>1. host[h].pc \in Inside /\ intent # Disk!Gone /\ main # Disk!Gone /\ main.commits = intent.commits
  BY DEF FInv, Reached, Disk!Sidecars, Disk!At, Inside, Disk!Phases
<1>2. /\ Moves(h, "settle") /\ Spent /\ lock' = lock /\ wal' = Disk!Gone
      /\ UNCHANGED <<main, snaps, staging, intent, count, expected>>
  BY GotoMoves DEF FInv, Disk!Sidecars, Disk!Phases, Spent
<1>3. FilesWhole' /\ Reached("settle")'
  BY <1>1, <1>2 DEF FInv, FilesWhole, Reached, Disk!Staged
<1> QED
  BY <1>1, <1>2, <1>3, InsideStep, GoneIsFile DEF FInv, FilesTyped

LEMMA SettleStep == ASSUME FInv, NEW h \in Hosts, Disk!Settle(h) PROVE FInv'
<1>1. /\ host[h].pc \in Inside /\ intent # Disk!Gone /\ main # Disk!Gone
      /\ main.commits = intent.commits /\ wal = Disk!Gone
  BY DEF FInv, Reached, Disk!Settle, Disk!At, Inside, Disk!Phases
<1>2. PICK b \in {"copy", "cleanup", "open"} : Disk!Finished(h) = b
  BY DEF Disk!Finished
<1>3. /\ Moves(h, b) /\ Spent /\ lock' = lock /\ intent' = Disk!Gone
      /\ UNCHANGED <<main, wal, snaps, staging, count, expected>>
  BY <1>2, GotoMoves DEF FInv, Disk!Settle, Disk!Phases, Spent
<1>4. FilesWhole'
  BY <1>1, <1>3, GoneIsFile DEF FInv, FilesWhole, Disk!Contents
<1>5. Reached(b)'
  BY <1>2, <1>3 DEF Reached
<1> QED
  BY <1>1, <1>2, <1>3, <1>4, <1>5, InsideStep, GoneIsFile DEF FInv, FilesTyped

\* A process whose fields move, none of them its life.
LEMMA MarkingProcess ==
    ASSUME NEW x \in Processes, NEW k \in Nat
    PROVE  LET y == [x EXCEPT !.pc = "mark", !.n = k]
           IN  y \in Processes /\ y.pc = "mark" /\ y.life = x.life
  BY DEF Processes, Disk!Phases

LEMMA RefusingProcess ==
    ASSUME NEW x \in Processes, NEW why \in Refusals
    PROVE  LET y == [x EXCEPT !.pc = "cleanup", !.refused = why]
           IN  y \in Processes /\ y.pc = "cleanup" /\ y.life = x.life
  BY DEF Processes, Refusals, Disk!Phases

LEMMA InstalledProcess ==
    ASSUME NEW x \in Processes
    PROVE  LET y == [x EXCEPT !.pc = "locked", !.installed = TRUE]
           IN  y \in Processes /\ y.pc = "locked" /\ y.life = x.life
  BY DEF Processes, Disk!Phases

LEMMA ProcessMoves ==
    ASSUME FilesTyped, NEW h \in Hosts, NEW p \in Processes, host' = [host EXCEPT ![h] = p],
           p.life = host[h].life
    PROVE  Moves(h, p.pc)
  BY DEF FilesTyped, Moves, Processes

LEMMA CopyStep == ASSUME FInv, NEW h \in Hosts, Disk!Copy(h) PROVE FInv'
<1>1. host[h].pc \in Inside /\ intent = Disk!Gone /\ host[h] \in Processes
  BY DEF FInv, FilesTyped, Reached, Disk!Copy, Disk!At, Inside, Disk!Phases
<1>2. /\ Spent /\ lock' = lock /\ UNCHANGED <<main, wal, snaps, intent, count, expected>>
  BY DEF Disk!Copy, Spent
<1>3. Reached("mark")' /\ Reached("cleanup")'
  BY <1>1, <1>2 DEF Reached
<1>4. ASSUME Disk!Named(request) \in snaps, NEW n \in Copies,
             staging' = staging \cup {[gen |-> n, commits |-> Disk!Named(request).commits]},
             host' = [host EXCEPT ![h].pc = "mark", ![h].n = n]
      PROVE  FInv'
  <2> DEFINE p == [host[h] EXCEPT !.pc = "mark", !.n = n]
  <2>1. n \in Nat \ {0}
    BY StoreNumbers
  <2>2. p \in Processes /\ p.pc = "mark" /\ p.life = host[h].life
    BY <1>1, <2>1, MarkingProcess, Zenon
  <2>3. host' = [host EXCEPT ![h] = p]
    BY <1>4
  <2> HIDE DEF p
  <2>4. Moves(h, "mark")
    BY <2>2, <2>3, ProcessMoves DEF FInv
  <2>5. Disk!Named(request).commits \in SUBSET Nat
    BY <1>4 DEF FInv, FilesTyped, Files
  <2>6. staging' \subseteq Files /\ \A f \in staging' : f.gen # 0
    BY <1>4, <2>1, <2>5 DEF FInv, FilesTyped, FilesWhole, Files
  <2>7. FilesWhole'
    BY <1>1, <1>2, <2>6 DEF FInv, FilesWhole, Disk!Contents
  <2> QED
    BY <1>1, <1>2, <1>3, <2>4, <2>6, <2>7, InsideStep DEF FInv, FilesTyped
<1>5. ASSUME staging' = staging,
             host' = [host EXCEPT ![h].pc = "cleanup", ![h].refused = "snapshot_invalid"]
      PROVE  FInv'
  <2> DEFINE p == [host[h] EXCEPT !.pc = "cleanup", !.refused = "snapshot_invalid"]
  <2>1. "snapshot_invalid" \in Refusals
    BY DEF Refusals
  <2>2. p \in Processes /\ p.pc = "cleanup" /\ p.life = host[h].life
    BY <1>1, <2>1, RefusingProcess, Zenon
  <2>3. host' = [host EXCEPT ![h] = p]
    BY <1>5
  <2> HIDE DEF p
  <2>4. Moves(h, "cleanup")
    BY <2>2, <2>3, ProcessMoves DEF FInv
  <2> QED
    BY <1>1, <1>2, <1>3, <1>5, <2>4, InsideStep, FilesKept DEF FInv, FilesTyped
<1>6. ASSUME request \in {s.gen : s \in snaps} PROVE Disk!Named(request) \in snaps
  <2>1. \E s \in snaps : s.gen = request
    BY <1>6
  <2> QED
    BY <2>1, Zenon DEF Disk!Named
<1>7. Disk!NewCopy \subseteq Copies
  BY DEF Disk!NewCopy
<1> QED
  BY <1>4, <1>5, <1>6, <1>7 DEF Disk!Copy

LEMMA MarkStep == ASSUME FInv, NEW h \in Hosts, Disk!Mark(h) PROVE FInv'
<1>1. host[h].pc \in Inside /\ host[h] \in Processes
  BY DEF FInv, FilesTyped, Disk!Mark, Disk!At, Inside, Disk!Phases
<1> DEFINE p == [host[h] EXCEPT !.pc = "locked", !.installed = TRUE]
<1>2. p \in Processes /\ p.pc = "locked" /\ p.life = host[h].life
  BY <1>1, InstalledProcess, Zenon
<1>3. host' = [host EXCEPT ![h] = p]
  BY DEF Disk!Mark
<1> HIDE DEF p
<1>4. Moves(h, "locked")
  BY <1>2, <1>3, ProcessMoves DEF FInv
<1>5. /\ Spent /\ lock' = lock /\ UNCHANGED <<main, wal, snaps, staging, count>>
      /\ \E f \in staging : intent' = f /\ expected' = f.commits
  BY DEF Disk!Mark, Spent
<1>6. intent' \in Files /\ intent' \in Disk!Staged' /\ intent'.gen # 0
  BY <1>5 DEF FInv, FilesTyped, FilesWhole, Disk!Staged
<1>7. FilesWhole'
  BY <1>5, <1>6, GoneIsFile DEF FInv, FilesWhole
<1>8. Reached("locked")'
  BY DEF Reached
<1> QED
  BY <1>1, <1>4, <1>5, <1>6, <1>7, <1>8, InsideStep DEF FInv, FilesTyped

LEMMA CleanupStep == ASSUME FInv, NEW h \in Hosts, Disk!Cleanup(h) PROVE FInv'
<1>1. host[h].pc \in Inside /\ host[h].refused \in Refusals
  BY DEF FInv, FilesTyped, Processes, Refusals, Disk!Cleanup, Disk!At, Inside, Disk!Phases
<1>2. PICK pc \in {"forget", "down"} : Moves(h, pc)
  BY <1>1, GotoMoves, RefuseMoves DEF FInv, Disk!Cleanup, Disk!Phases
<1>3. /\ Spent /\ UNCHANGED <<main, wal, snaps, intent, count, expected>>
      /\ lock' = lock \/ lock' = Disk!Free
  BY ReleaseFrees DEF Disk!Cleanup, Spent
<1>4. staging' \subseteq staging /\ (intent # Disk!Gone => staging' = staging)
  BY DEF Disk!Cleanup
<1>5. FilesWhole'
  BY <1>3, <1>4 DEF FInv, FilesWhole, Disk!Contents, Disk!Staged
<1>6. pc \notin Inside /\ Reached(pc)' /\ pc \notin {"reread", "unlink"}
  BY <1>2 DEF Inside, Reached
<1> QED
  BY <1>1, <1>2, <1>3, <1>4, <1>5, <1>6, InsideStep DEF FInv, FilesTyped

LEMMA ForgetStep == ASSUME FInv, NEW h \in Hosts, Disk!Forget(h) PROVE FInv'
<1>1. h \in left.hosts /\ host[h].life \in Nat
  BY StartsHere DEF FInv, FilesTyped, Processes, Disk!Forget, Disk!At
<1> DEFINE x == Disk!Fresh(host[h].life)
           p == [x EXCEPT !.pc = "lock"]
<1>2. p \in Processes /\ p.pc = "lock" /\ p.life = host[h].life
  <2>1. x \in Processes /\ x.life = host[h].life
    BY <1>1, FreshProcess
  <2> HIDE DEF x
  <2> QED
    BY <2>1 DEF Processes, Disk!Phases
<1>3. host' = [host EXCEPT ![h] = p]
  BY DEF Disk!Forget
<1> HIDE DEF p
<1>4. Moves(h, "lock")
  BY <1>2, <1>3, ProcessMoves DEF FInv
<1> QED
  BY <1>1, <1>4, OutsideStep DEF Disk!Forget, Quiet, Spent, Inside

LEMMA OpenStep == ASSUME FInv, NEW h \in Hosts, Disk!Open(h) PROVE FInv'
<1>1. host[h].pc \in Inside /\ intent = Disk!Gone
  BY DEF FInv, Reached, Disk!Open, Disk!At, Inside, Disk!Phases
<1>2. Spent /\ UNCHANGED <<snaps, staging, intent>>
  BY DEF Disk!Open, Spent
<1>3. CASE Disk!Refuse(h, "store_missing")
  <2>1. Moves(h, "down")
    BY <1>3, RefuseMoves DEF FInv, Refusals
  <2>2. (main = Disk!Gone /\ snaps # {}) \/ Moves(h, "live")
    BY GotoMoves DEF FInv, Disk!Open, Disk!Phases
  <2>3. ~Moves(h, "live")
    BY <2>1 DEF Moves
  <2>4. UNCHANGED <<main, wal, count, expected>> /\ (lock' = lock \/ lock' = Disk!Free)
    BY <2>2, <2>3, ReleaseFrees DEF Disk!Open
  <2>5. Reached("down") /\ "down" \notin Inside /\ Quiet
    BY <1>2, <2>4 DEF Reached, Inside, Quiet
  <2> QED
    BY <1>1, <2>1, <2>4, <2>5, QuietInside
<1>4. CASE Disk!Goto(h, "live") /\ main # Disk!Gone /\ UNCHANGED <<lock, main, wal, count, expected>>
  <2>1. Moves(h, "live")
    BY <1>4, GotoMoves DEF FInv, Disk!Phases
  <2>2. Reached("live") /\ Quiet
    BY <1>1, <1>2, <1>4 DEF Reached, Quiet
  <2> QED
    BY <1>1, <1>4, <2>1, <2>2, QuietInside
<1>5. CASE /\ Disk!Goto(h, "live") /\ lock' = lock /\ main' = [gen |-> count.gens + 1, commits |-> {}]
           /\ wal' = Disk!Gone /\ expected' = {} /\ Disk!Bump("gens")
  <2>1. Moves(h, "live")
    BY <1>5, GotoMoves DEF FInv, Disk!Phases
  <2>2. /\ main' \in Files /\ main'.gen # 0 /\ main'.commits = {}
        /\ count' \in [commits : Nat, snapshots : Nat, requests : Nat, gens : Nat]
    BY <1>5 DEF FInv, FilesTyped, Files, Disk!Bump
  <2>3. main' # Disk!Gone
    BY <2>2, GoneIsFile
  <2>4. FilesWhole' /\ Reached("live")'
    BY <1>1, <1>2, <1>5, <2>2, <2>3, GoneIsFile DEF FInv, FilesWhole, Reached, Disk!Contents
  <2> QED
    BY <1>1, <1>2, <1>5, <2>1, <2>2, <2>4, InsideStep, GoneIsFile DEF FInv, FilesTyped
<1> QED
  BY <1>3, <1>4, <1>5 DEF Disk!Open

\* What a host that runs does to its database.
LEMMA LiveStep ==
    ASSUME FInv, NEW h \in Hosts, host[h].pc = "live", UNCHANGED <<host, lock, staging, intent, left>>,
           main' \in Files, main'.gen = main.gen, wal' \in Files, snaps' \subseteq Files,
           count' \in [commits : Nat, snapshots : Nat, requests : Nat, gens : Nat],
           Disk!Contents' = expected', wal' # Disk!Gone => wal'.gen = main'.gen
    PROVE  FInv'
<1>1. /\ Moves(h, "live") /\ Spent /\ "live" \in Inside /\ "live" \notin {"reread", "unlink"}
  BY StayMoves DEF Spent, Inside, Disk!Phases
<1>2. intent = Disk!Gone /\ main # Disk!Gone
  BY DEF FInv, Reached
<1>3. main'.gen # 0
  BY <1>2 DEF FInv, FilesWhole
<1>4. FilesWhole' /\ Reached("live")'
  BY <1>2, <1>3, GoneIsFile DEF FInv, FilesWhole, Reached
<1> QED
  BY <1>1, <1>4, InsideStep DEF FInv, FilesTyped

LEMMA LiveHolds ==
    ASSUME FInv, NEW h \in Hosts, host[h].pc = "live"
    PROVE  Disk!Contents = expected /\ (wal # Disk!Gone => wal.gen = main.gen)
  BY DEF FInv, FilesWhole, Reached

LEMMA CommitStep == ASSUME FInv, NEW h \in Hosts, Disk!Commit(h) PROVE FInv'
<1>1. /\ host[h].pc = "live" /\ count.commits + 1 \in Nat
      /\ count' \in [commits : Nat, snapshots : Nat, requests : Nat, gens : Nat]
  BY DEF FInv, FilesTyped, Disk!Commit, Disk!At, Disk!Bump
<1>2. wal' = [gen |-> main.gen, commits |-> wal.commits \cup {count.commits + 1}]
      /\ expected' = expected \cup {count.commits + 1} /\ main' = main
  BY DEF Disk!Commit
<1>3. wal' \in Files /\ Disk!Contents' = expected' /\ wal'.gen = main'.gen
  BY <1>1, <1>2, LiveHolds DEF FInv, FilesTyped, Files, Disk!Contents
<1> QED
  BY <1>1, <1>2, <1>3, LiveStep DEF FInv, FilesTyped, Disk!Commit

LEMMA Folded ==
    ASSUME FInv, NEW h \in Hosts, host[h].pc = "live", main' = [main EXCEPT !.commits = Disk!Contents],
           wal' = Disk!Gone
    PROVE  main' \in Files /\ main'.gen = main.gen /\ wal' \in Files /\ Disk!Contents' = expected
<1>1. main' \in Files /\ main'.gen = main.gen /\ main'.commits = Disk!Contents
  BY DEF FInv, FilesTyped, Files, Disk!Contents
<1> QED
  BY <1>1, LiveHolds, GoneIsFile DEF Disk!Contents

LEMMA CheckpointStep == ASSUME FInv, NEW h \in Hosts, Disk!Checkpoint(h) PROVE FInv'
  BY Folded, LiveStep DEF FInv, FilesTyped, Disk!Checkpoint, Disk!At

LEMMA SnapshotStep == ASSUME FInv, NEW h \in Hosts, Disk!Snapshot(h) PROVE FInv'
<1>1. /\ host[h].pc = "live" /\ count.snapshots + 1 \in Nat
      /\ count' \in [commits : Nat, snapshots : Nat, requests : Nat, gens : Nat]
  BY DEF FInv, FilesTyped, Disk!Snapshot, Disk!At, Disk!Bump
<1>2. snaps' \subseteq Files
  BY <1>1 DEF FInv, FilesTyped, Files, Disk!Snapshot, Disk!Contents
<1>3. UNCHANGED <<host, lock, main, wal, staging, intent, left, expected>>
  BY DEF Disk!Snapshot
<1>4. Disk!Contents' = expected'
  BY <1>1, <1>3, LiveHolds DEF Disk!Contents
<1> QED
  BY <1>1, <1>2, <1>3, <1>4, LiveStep, LiveHolds DEF FInv, FilesTyped

LEMMA RequestRestoreStep == ASSUME FInv, NEW h \in Hosts, Disk!RequestRestore(h) PROVE FInv'
<1>1. /\ host[h].pc = "live"
      /\ count' \in [commits : Nat, snapshots : Nat, requests : Nat, gens : Nat]
  BY DEF FInv, FilesTyped, Disk!RequestRestore, Disk!At, Disk!Bump
<1>2. UNCHANGED <<host, lock, main, wal, snaps, staging, intent, left, expected>>
  BY DEF Disk!RequestRestore
<1>3. Disk!Contents' = expected'
  BY <1>1, <1>2, LiveHolds DEF Disk!Contents
<1> QED
  BY <1>1, <1>2, <1>3, LiveStep, LiveHolds DEF FInv, FilesTyped

LEMMA CloseStep == ASSUME FInv, NEW h \in Hosts, Disk!Close(h) PROVE FInv'
<1>1. host[h].pc = "live" /\ host[h].pc \in Inside /\ intent = Disk!Gone /\ main # Disk!Gone
  BY DEF FInv, Reached, Disk!Close, Disk!At, Inside, Disk!Phases
<1>2. host[h].life \in Nat
  BY DEF FInv, FilesTyped, Processes
<1>3. Disk!Fresh(host[h].life) \in Processes /\ host' = [host EXCEPT ![h] = Disk!Fresh(host[h].life)]
      /\ Disk!Fresh(host[h].life).pc = "down" /\ Disk!Fresh(host[h].life).life = host[h].life
  BY <1>2, FreshProcess DEF Disk!Close
<1>4. Moves(h, "down")
  BY <1>3, ProcessMoves DEF FInv
<1>5. /\ Spent /\ UNCHANGED <<snaps, staging, intent, count, expected>>
      /\ lock' = lock \/ lock' = Disk!Free
  BY ReleaseFrees DEF Disk!Close, Spent
<1>6. /\ main' \in Files /\ main'.gen = main.gen /\ wal' \in Files /\ Disk!Contents' = expected
      /\ wal' # Disk!Gone => wal'.gen = main'.gen
  <2>1. CASE UNCHANGED <<main, wal>>
    BY <1>1, <2>1, LiveHolds DEF FInv, FilesTyped, Disk!Contents
  <2>2. CASE main' = [main EXCEPT !.commits = Disk!Contents] /\ wal' = Disk!Gone
    BY <1>1, <2>2, Folded
  <2> QED
    BY <2>1, <2>2 DEF Disk!Close
<1>7. FilesWhole'
  BY <1>1, <1>5, <1>6, GoneIsFile DEF FInv, FilesWhole
<1>8. Reached("down")' /\ "down" \notin Inside
  BY DEF Reached, Inside
<1> QED
  BY <1>1, <1>4, <1>5, <1>6, <1>7, <1>8, InsideStep DEF FInv, FilesTyped

\* A process dies: its host has started alone, or nothing crashes.
LEMMA CrashStep == ASSUME FInv, NEW h \in Hosts, Disk!Crash(h) PROVE FInv'
<1>1. host[h].life + 1 \in Nat
  BY DEF FInv, FilesTyped, Processes
<1>2. /\ host' = [host EXCEPT ![h] = Disk!Fresh(host[h].life + 1)]
      /\ UNCHANGED <<lock, main, wal, snaps, staging, intent, count, expected>>
  BY DEF Disk!Crash, Disk!disk
<1>3. /\ left' \in [hosts : SUBSET Hosts, crashes : Nat, faults : Nat]
      /\ left'.hosts = left.hosts /\ left.crashes > 0
  BY DEF FInv, FilesTyped, Disk!Crash, Disk!Spend
<1>4. Disk!Fresh(host[h].life + 1) \in Processes /\ Disk!Fresh(host[h].life + 1).pc = "down"
  BY <1>1, FreshProcess
<1>5. FilesTyped'
  BY <1>2, <1>3, <1>4 DEF FInv, FilesTyped
<1>6. /\ host'[h].pc = "down" /\ "down" \notin Inside
      /\ \A g \in Hosts : host'[g] = host[g] \/ host'[g].pc = "down"
  BY <1>2, <1>4 DEF FInv, FilesTyped, Inside
<1>7. OneInside'
  BY <1>3, <1>6 DEF FInv, OneInside, Unbroken, Single
<1>8. \A g \in Hosts : Reached(host[g].pc)'
  BY <1>2, <1>6 DEF FInv, Reached
<1> QED
  BY <1>2, <1>5, <1>7, <1>8, FilesKept DEF FInv

LEMMA LoseStep == ASSUME FInv, Disk!Lose PROVE FInv'
<1>1. /\ \A h \in Hosts : host[h].pc = "down"
      /\ intent = Disk!Gone /\ main' = Disk!Gone /\ wal' = Disk!Gone
      /\ UNCHANGED <<host, lock, snaps, staging, intent, count, expected>>
  BY DEF Disk!Lose, Disk!At
<1>2. left' \in [hosts : SUBSET Hosts, crashes : Nat, faults : Nat]
      /\ left'.hosts = left.hosts /\ left'.crashes = left.crashes
  BY DEF FInv, FilesTyped, Disk!Lose, Disk!Spend
<1>3. FilesTyped' /\ FilesWhole'
  BY <1>1, <1>2, GoneIsFile DEF FInv, FilesTyped, FilesWhole
<1>4. OneInside' /\ \A h \in Hosts : Reached(host[h].pc)'
  BY <1>1, <1>2 DEF FInv, OneInside, Single, Unbroken, Reached
<1> QED
  BY <1>3, <1>4 DEF FInv

LEMMA InspectedByOwnerStep == ASSUME FInv, Disk!InspectedByOwner PROVE FInv'
<1>1. /\ \A h \in Hosts : host[h].pc = "down"
      /\ lock' = Disk!Free /\ "down" \notin Inside
      /\ UNCHANGED <<host, main, wal, snaps, staging, intent, count, left, expected>>
  BY DEF Disk!InspectedByOwner, Disk!At, Inside
<1>2. FilesTyped' /\ (\A h \in Hosts : Reached(host[h].pc)')
  BY <1>1, LocksAre DEF FInv, FilesTyped, Reached
<1>3. OneInside'
  BY <1>1 DEF FInv, OneInside, Single, Unbroken
<1> QED
  BY <1>1, <1>2, <1>3, FilesKept DEF FInv

LEMMA FInvInit == Disk!Init => FInv
<1> SUFFICES ASSUME Disk!Init PROVE FInv
  OBVIOUS
<1> DEFINE p == Disk!Fresh(1)
<1>1. p \in Processes /\ p.pc = "down" /\ p.life = 1
  BY FreshProcess
<1>2. host = [h \in Hosts |-> p]
  BY DEF Disk!Init
<1> HIDE DEF p
<1>3. /\ main = Disk!Gone /\ wal = Disk!Gone /\ intent = Disk!Gone /\ staging = {} /\ snaps = {}
      /\ lock = Disk!Free /\ count = [commits |-> 0, snapshots |-> 0, requests |-> 0, gens |-> 0]
      /\ expected = {}
  BY DEF Disk!Init
<1>4. \/ left = [hosts |-> {h1}, crashes |-> MaxCrashes, faults |-> MaxFaults]
      \/ left = [hosts |-> Hosts, crashes |-> 0, faults |-> 0]
  BY DEF Disk!Init
<1>5. FilesTyped
  BY <1>1, <1>2, <1>3, <1>4, StoreNumbers, GoneIsFile, LocksAre DEF FilesTyped
<1>6. OneInside
  BY <1>1, <1>2, <1>3, <1>4 DEF OneInside, Single, Unbroken, Inside
<1>7. FilesWhole /\ \A h \in Hosts : Reached(host[h].pc)
  BY <1>1, <1>2, <1>3 DEF FilesWhole, Reached
<1> QED
  BY <1>5, <1>6, <1>7 DEF FInv

LEMMA FInvStep == FInv /\ [Disk!Next]_restoreVars => FInv'
<1> SUFFICES ASSUME FInv, [Disk!Next]_restoreVars PROVE FInv'
  OBVIOUS
<1>1. ASSUME NEW h \in Hosts, Disk!Boot(h) PROVE FInv'
  BY <1>1, StartStep, CheckStep, AcquireStep, StampStep, InspectStep, RereadStep, UnlinkStep, FinishStep,
     RenameStep, SidecarsStep, SettleStep, CopyStep, MarkStep, CleanupStep, ForgetStep, OpenStep
  DEF Disk!Boot
<1>2. ASSUME NEW h \in Hosts,
             Disk!Commit(h) \/ Disk!Checkpoint(h) \/ Disk!Snapshot(h) \/ Disk!RequestRestore(h)
             \/ Disk!Close(h) \/ Disk!Crash(h) \/ Disk!Fault(h)
      PROVE  FInv'
  BY <1>2, CommitStep, CheckpointStep, SnapshotStep, RequestRestoreStep, CloseStep, CrashStep, FaultStep
<1>3. CASE UNCHANGED restoreVars
  BY <1>3 DEF restoreVars, FInv, FilesTyped, OneInside, Single, Unbroken, FilesWhole, Reached,
     Disk!Contents, Disk!Staged
<1> QED
  BY <1>1, <1>2, <1>3, LoseStep, InspectedByOwnerStep DEF Disk!Next

\* What the invariant says of a database that is open.
LEMMA FInvOpened == FInv => Disk!OpenedWhole /\ Disk!IntentBacked /\ Disk!OneOwner
<1> SUFFICES ASSUME FInv PROVE Disk!OpenedWhole /\ Disk!IntentBacked /\ Disk!OneOwner
  OBVIOUS
<1>1. \A h \in Disk!Live : h \in Hosts /\ host[h].pc = "live" /\ "live" \in Inside
  BY DEF Disk!Live, Disk!At, Inside, Disk!Phases
<1>2. Disk!OpenedWhole
  BY <1>1, LiveHolds DEF Disk!OpenedWhole
<1>3. Disk!IntentBacked
  BY DEF FInv, FilesWhole, Disk!IntentBacked
<1>4. Disk!OneOwner
  BY <1>1 DEF FInv, OneInside, Disk!OneOwner
<1> QED
  BY <1>2, <1>3, <1>4

-----------------------------------------------------------------------------
Scopes == Owners \cup Missions
OwnerOf == [m \in Missions |-> o1]

Changes == [rev : Nat, scopes : SUBSET Scopes]
Stores == [rev : Nat, log : SUBSET Changes, rows : [Scopes -> Nat], last : [Scopes -> Nat]]

\* The log has the last change of a scope, or nothing as old.
StoreWhole(st) ==
    /\ st \in Stores
    /\ \A s \in Scopes :
        /\ st.last[s] <= st.rev /\ (st.last[s] = 0 <=> st.rows[s] = 0)
        /\ \/ \A c \in st.log : c.rev > st.last[s]
           \/ \E c \in st.log : c.rev = st.last[s] /\ s \in c.scopes

Answers == [rev : Nat, rows : [Scopes -> Nat]]
Requests ==
    [id : {1, 2}, owner : Owners, kind : {"watch", "state", "snapshot", "delta", "heartbeat"}, after : Nat,
     cursor : Nat, phase : {"sent", "waiting", "done", "answered"}, answer : Answers, shown : SUBSET Missions]

Unwritten(o, after) == {s \in View!Allowed(o) : store.last[s] <= after}

\* A watch that sleeps has seen every change its session may see.
Sleeps(w) ==
    /\ w.phase = "sent" => w.cursor = w.after
    /\ w.phase = "waiting" => w.cursor = store.rev /\ View!Allowed(w.owner) = Unwritten(w.owner, w.after)
    /\ w.phase = "answered" => w.kind \in {"snapshot", "delta", "heartbeat"}

\* What an answer says of the scopes not written since it was composed.
Answered(w) ==
    LET still == Unwritten(w.owner, w.answer.rev) IN
    /\ w.answer.rev <= store.rev
    /\ \A s \in Scopes : w.answer.rows[s] # 0 => s = w.owner \/ (s \in Missions /\ OwnerOf[s] = w.owner)
    /\ \A m \in w.shown : OwnerOf[m] = w.owner
    /\ still \cap Missions \subseteq w.shown
    /\ w.kind = "snapshot" => \A s \in still : w.answer.rows[s] = store.rows[s]
    /\ w.kind = "delta" => \A s \in still :
        IF w.answer.rows[s] # 0 \/ s = w.owner THEN w.answer.rows[s] = store.rows[s]
        ELSE store.last[s] <= w.after
    /\ w.kind = "heartbeat" => still \subseteq Unwritten(w.owner, w.after)

\* The request the pane waits for is about the view it has.
Asked(w) == w.id = pane.pending => w.owner = pane.owner /\ w.after = pane.data.rev

PaneHolds ==
    /\ pane.data.rev <= store.rev
    /\ \A s \in Scopes : pane.data.rows[s] # 0 => s = pane.owner \/ (s \in Missions /\ OwnerOf[s] = pane.owner)
    /\ \A s \in Unwritten(pane.owner, pane.data.rev) : pane.data.rows[s] = store.rows[s]

Panes == [owner : Owners, active : BOOLEAN, data : Answers, has : BOOLEAN, pending : 0 .. 2, full : BOOLEAN]

PanesTyped ==
    /\ pane \in Panes
    /\ wire \subseteq Requests /\ commits \in Nat
    /\ shown \in [history : Nat \ {0}, restores : BOOLEAN, faults : Nat, moves : Nat]

VInv ==
    /\ StoreWhole(store) /\ StoreWhole(saved)
    /\ PanesTyped
    /\ \A w \in wire : Sleeps(w)
    /\ ~shown.restores =>
        PaneHolds /\ \A w \in wire : Asked(w) /\ (w.phase = "answered" => Answered(w))

LEMMA ViewNumbers ==
    /\ Owners \cap Missions = {} /\ OwnerOf \in [Missions -> Owners] /\ MaxChanges \in Nat
    /\ History \in Nat \ {0} /\ MaxLosses \in Nat /\ MaxMoves \in Nat
<1>1. [history |-> History, restores |-> FALSE, faults |-> MaxLosses, moves |-> MaxMoves]
        \in [history : Nat \ {0}, restores : BOOLEAN, faults : Nat, moves : Nat]
  BY ViewBounds, Zenon DEF View!LiveViewConstants
<1>2. History \in Nat \ {0} /\ MaxLosses \in Nat /\ MaxMoves \in Nat
  BY <1>1
<1> QED
  BY <1>2, ViewBounds DEF View!LiveViewConstants, OwnerOf

\* The log: what has no change in it since a revision it reaches was last written by then.
LEMMA Logged ==
    ASSUME NEW st, StoreWhole(st), NEW after \in Nat, after <= st.rev,
           after = st.rev \/ \E c \in st.log : c.rev <= after + 1,
           NEW s \in Scopes, \A k \in st.log : k.rev > after => s \notin k.scopes
    PROVE  st.last[s] <= after
  BY DEF StoreWhole, Stores, Changes

\* So it is for a view that the log brings up to date.
LEMMA ReplayTells ==
    ASSUME StoreWhole(store), NEW after \in Nat, View!Replayable(after), NEW s \in Scopes,
           s \notin View!ChangedSince(after)
    PROVE  store.last[s] <= after
<1>1. after <= store.rev /\ (after = store.rev \/ \E c \in store.log : c.rev <= after + 1)
  BY DEF View!Replayable
<1>2. \A k \in store.log : k.rev > after => s \notin k.scopes
  BY DEF View!ChangedSince
<1> QED
  BY <1>1, <1>2, Logged

LEMMA ReplayTellsNext ==
    ASSUME StoreWhole(store)', NEW after \in Nat, View!Replayable(after)', NEW s \in Scopes,
           s \notin View!ChangedSince(after)'
    PROVE  store'.last[s] <= after
<1>1. after <= store'.rev /\ (after = store'.rev \/ \E c \in store'.log : c.rev <= after + 1)
  BY DEF View!Replayable
<1>2. \A k \in store'.log : k.rev > after => s \notin k.scopes
  BY DEF View!ChangedSince
<1> QED
  BY <1>1, <1>2, Logged

LEMMA AllowedScopes ==
    /\ \A o \in Owners : View!Allowed(o) \subseteq Scopes
    /\ \A o \in Owners, s \in Scopes :
        s \in View!Allowed(o) <=> s = o \/ (s \in Missions /\ OwnerOf[s] = o /\ store.rows[s] # 0)
  BY DEF View!Allowed, View!Visible, Scopes, OwnerOf

\* What a request keeps as the host works on it.
Same(v, w) ==
    /\ v \in Requests
    /\ v.id = w.id /\ v.owner = w.owner /\ v.after = w.after

LEMMA PhaseSame ==
    ASSUME NEW w \in Requests, NEW phase \in {"waiting", "done"}
    PROVE  LET v == [w EXCEPT !.phase = phase]
           IN  Same(v, w) /\ v.phase = phase /\ v.cursor = w.cursor
  BY DEF Requests, Same

LEMMA CursorSame ==
    ASSUME NEW w \in Requests, NEW rev \in Nat
    PROVE  LET v == [w EXCEPT !.cursor = rev]
           IN  Same(v, w) /\ v.phase = w.phase /\ v.cursor = rev
  BY DEF Requests, Same

\* A watch, inspected: it is done, or it has seen the store.
LEMMA InspectSleeps ==
    ASSUME StoreWhole(store), NEW w \in Requests, w.phase = "waiting", w.cursor = w.after
    PROVE  LET v == View!Inspect(w)
           IN  Same(v, w) /\ v.phase \in {"waiting", "done"} /\ Sleeps(v)
<1>1. store.rev \in Nat /\ w.after \in Nat /\ w.owner \in Owners
  BY DEF StoreWhole, Stores, Requests
<1>2. CASE View!Inspect(w) = [w EXCEPT !.phase = "done"]
  <2> DEFINE v == [w EXCEPT !.phase = "done"]
  <2>1. Same(v, w) /\ v.phase = "done"
    BY PhaseSame, Zenon
  <2> HIDE DEF v
  <2>2. Sleeps(v)
    BY <2>1 DEF Sleeps
  <2>3. View!Inspect(w) = v
    BY <1>2 DEF v
  <2> QED
    BY <2>1, <2>2, <2>3
<1>3. CASE /\ View!Replayable(w.cursor) /\ View!ChangedSince(w.cursor) \cap View!Allowed(w.owner) = {}
           /\ View!Inspect(w) = [w EXCEPT !.cursor = store.rev]
  <2> DEFINE v == [w EXCEPT !.cursor = store.rev]
  <2>1. Same(v, w) /\ v.phase = "waiting" /\ v.cursor = store.rev
    BY <1>1, CursorSame, Zenon
  <2> HIDE DEF v
  <2>2. View!Allowed(w.owner) = Unwritten(w.owner, w.after)
    BY <1>1, <1>3, ReplayTells, AllowedScopes DEF Unwritten
  <2>3. Sleeps(v)
    BY <2>1, <2>2 DEF Sleeps, Same
  <2>4. View!Inspect(w) = v
    BY <1>3 DEF v
  <2> QED
    BY <2>1, <2>3, <2>4
<1> QED
  BY <1>2, <1>3 DEF View!Inspect

\* A step of the host on one request.
LEMMA RequestStep ==
    ASSUME VInv, NEW w \in wire, NEW v, Same(v, w), Sleeps(v), ~shown.restores /\ v.phase = "answered" => Answered(v),
           wire' = (wire \ {w}) \cup {v}, UNCHANGED <<store, saved, pane, commits, shown>>
    PROVE  VInv'
<1>1. \A x \in wire' : x \in Requests /\ Sleeps(x)
  BY DEF VInv, PanesTyped, Same
<1>2. PanesTyped' /\ \A x \in wire' : Sleeps(x)'
  BY <1>1 DEF VInv, PanesTyped, Sleeps, Unwritten, View!Allowed, View!Visible
<1>3. ~shown.restores => PaneHolds' /\ \A x \in wire' : Asked(x)' /\ (x.phase = "answered" => Answered(x))
  BY DEF VInv, PaneHolds, Asked, Same, Unwritten, View!Allowed, View!Visible
<1>4. \A x : Answered(x) => Answered(x)'
  BY DEF Answered, Unwritten, View!Allowed, View!Visible
<1> QED
  BY <1>2, <1>3, <1>4 DEF VInv

LEMMA ReceiveStep == ASSUME VInv, NEW w \in wire, View!Receive(w) PROVE VInv'
<1>1. w \in Requests /\ w.cursor = w.after
  BY DEF VInv, PanesTyped, Sleeps, View!Receive
<1>2. CASE w.kind = "state"
  <2> DEFINE v == [w EXCEPT !.phase = "done"]
  <2>1. Same(v, w) /\ v.phase = "done"
    BY <1>1, PhaseSame, Zenon
  <2>2. wire' = (wire \ {w}) \cup {v} /\ UNCHANGED <<store, saved, pane, commits, shown>>
    BY <1>2 DEF View!Receive
  <2> HIDE DEF v
  <2>3. Sleeps(v) /\ v.phase # "answered"
    BY <2>1 DEF Sleeps
  <2> QED
    BY <2>1, <2>2, <2>3, RequestStep
<1>3. CASE w.kind # "state"
  <2> DEFINE u == [w EXCEPT !.phase = "waiting"]
             v == View!Inspect(u)
  <2>1. Same(u, w) /\ u.phase = "waiting" /\ u.cursor = w.cursor
    BY <1>1, PhaseSame, Zenon
  <2>2. wire' = (wire \ {w}) \cup {v} /\ UNCHANGED <<store, saved, pane, commits, shown>>
    BY <1>3 DEF View!Receive
  <2> HIDE DEF u
  <2>3. u \in Requests /\ u.cursor = u.after /\ StoreWhole(store)
    BY <1>1, <2>1 DEF Same, VInv
  <2>4. Same(v, u) /\ v.phase \in {"waiting", "done"} /\ Sleeps(v)
    BY <2>1, <2>3, InspectSleeps
  <2> HIDE DEF v
  <2>5. Same(v, w)
    BY <2>1, <2>4 DEF Same
  <2> QED
    BY <2>2, <2>4, <2>5, RequestStep
<1> QED
  BY <1>2, <1>3

LEMMA WakeStep == ASSUME VInv, NEW w \in wire, View!Wake(w) PROVE VInv'
<1> DEFINE v == [w EXCEPT !.phase = "done"]
<1>1. Same(v, w) /\ v.phase = "done"
  <2>1. w \in Requests
    BY DEF VInv, PanesTyped
  <2> QED
    BY <2>1, PhaseSame, Zenon
<1>2. wire' = (wire \ {w}) \cup {v} /\ UNCHANGED <<store, saved, pane, commits, shown>>
  BY DEF View!Wake
<1> HIDE DEF v
<1>3. Sleeps(v) /\ v.phase # "answered"
  BY <1>1 DEF Sleeps
<1> QED
  BY <1>1, <1>2, <1>3, RequestStep

\* An answer that is composed of some scopes the session may see.
LEMMA SentFields ==
    ASSUME StoreWhole(store), NEW w \in Requests, NEW kind \in {"snapshot", "delta", "heartbeat"},
           NEW scopes \in SUBSET Scopes
    PROVE  LET v == View!Sent(w, kind, scopes)
           IN  /\ Same(v, w) /\ v.phase = "answered" /\ v.kind = kind /\ v.shown = View!Visible(w.owner)
               /\ v.answer.rev = store.rev
               /\ \A s \in Scopes : v.answer.rows[s] = IF s \in scopes THEN store.rows[s] ELSE 0
<1> DEFINE a == [rev |-> store.rev, rows |-> [s \in Scopes |-> IF s \in scopes THEN store.rows[s] ELSE 0]]
           x == View!Visible(w.owner)
           v == [w EXCEPT !.phase = "answered", !.kind = kind, !.shown = x, !.answer = a]
<1>1. a \in Answers /\ a.rev = store.rev
      /\ \A s \in Scopes : a.rows[s] = IF s \in scopes THEN store.rows[s] ELSE 0
  BY DEF StoreWhole, Stores, Answers
<1>2. x \in SUBSET Missions
  BY DEF View!Visible
<1>3. View!Sent(w, kind, scopes) = v
  BY DEF View!Sent, View!Scopes, Scopes
<1> HIDE DEF a, x
<1>4. /\ Same(v, w) /\ v.phase = "answered" /\ v.kind = kind /\ v.shown = x /\ v.answer = a
  BY <1>1, <1>2 DEF Requests, Same
<1> HIDE DEF v
<1> QED
  BY <1>1, <1>3, <1>4 DEF x

LEMMA AnswerStep == ASSUME VInv, NEW w \in wire, View!Answer(w) PROVE VInv'
<1>1. w \in Requests /\ StoreWhole(store) /\ w.owner \in Owners /\ w.after \in Nat /\ store.rev \in Nat
  BY DEF VInv, PanesTyped, Requests, StoreWhole, Stores
<1> DEFINE changed == View!ChangedSince(w.after) \cap View!Allowed(w.owner)
<1>2. PICK kind \in {"snapshot", "delta", "heartbeat"} :
        LET scopes == IF kind = "snapshot" THEN View!Allowed(w.owner)
                      ELSE IF kind = "heartbeat" THEN {} ELSE changed \cup {w.owner}
        IN  /\ wire' = (wire \ {w}) \cup {View!Sent(w, kind, scopes)}
            /\ kind # "snapshot" => View!Replayable(w.after)
            /\ kind = "heartbeat" => changed = {}
  BY DEF View!Answer
<1> DEFINE scopes == IF kind = "snapshot" THEN View!Allowed(w.owner)
                     ELSE IF kind = "heartbeat" THEN {} ELSE changed \cup {w.owner}
           v == View!Sent(w, kind, scopes)
<1>3. scopes \in SUBSET Scopes /\ scopes \subseteq View!Allowed(w.owner)
  <2>1. View!Allowed(w.owner) \subseteq Scopes /\ w.owner \in View!Allowed(w.owner)
    BY <1>1, AllowedScopes DEF Scopes
  <2>2. changed \cup {w.owner} \subseteq View!Allowed(w.owner)
    BY <2>1
  <2> QED
    BY <2>1, <2>2
<1>4. /\ Same(v, w) /\ v.phase = "answered" /\ v.kind = kind /\ v.shown = View!Visible(w.owner)
      /\ v.answer.rev = store.rev
      /\ \A s \in Scopes : v.answer.rows[s] = IF s \in scopes THEN store.rows[s] ELSE 0
  <2> HIDE DEF scopes
  <2> QED
    BY <1>1, <1>3, SentFields
<1>5. wire' = (wire \ {w}) \cup {v} /\ UNCHANGED <<store, saved, pane, commits, shown>>
  BY <1>2 DEF View!Answer
<1>6. kind # "snapshot" => \A s \in View!Allowed(w.owner) : s \in changed \/ store.last[s] <= w.after
  BY <1>1, <1>2, ReplayTells, AllowedScopes
<1> HIDE DEF v
<1>7. Answered(v)
  <2> DEFINE still == Unwritten(w.owner, store.rev)
  <2>1. still \subseteq View!Allowed(w.owner) /\ still \subseteq Scopes
    BY <1>1, AllowedScopes DEF Unwritten
  <2>2. \A s \in Scopes : v.answer.rows[s] # 0 => s = w.owner \/ (s \in Missions /\ OwnerOf[s] = w.owner)
    BY <1>1, <1>3, <1>4, AllowedScopes
  <2>3. (\A m \in v.shown : OwnerOf[m] = w.owner) /\ still \cap Missions \subseteq v.shown
    BY <1>1, <1>4, <2>1, AllowedScopes, ViewNumbers DEF View!Visible, OwnerOf
  <2>4. kind = "snapshot" => \A s \in still : v.answer.rows[s] = store.rows[s]
    BY <1>4, <2>1
  <2>5. kind = "delta" => \A s \in still :
          IF v.answer.rows[s] # 0 \/ s = w.owner THEN v.answer.rows[s] = store.rows[s]
          ELSE store.last[s] <= w.after
    <3> SUFFICES ASSUME kind = "delta", NEW s \in still
                 PROVE  IF v.answer.rows[s] # 0 \/ s = w.owner THEN v.answer.rows[s] = store.rows[s]
                        ELSE store.last[s] <= w.after
      OBVIOUS
    <3>1. s = w.owner \/ store.rows[s] # 0
      BY <1>1, <2>1, AllowedScopes
    <3> QED
      BY <1>4, <1>6, <2>1, <3>1
  <2>6. kind = "heartbeat" => still \subseteq Unwritten(w.owner, w.after)
    BY <1>2, <1>6, <2>1 DEF Unwritten
  <2> QED
    BY <1>1, <1>4, <2>2, <2>3, <2>4, <2>5, <2>6 DEF Answered, Same
<1> QED
  BY <1>4, <1>5, <1>7, RequestStep DEF Sleeps

\* What the view is once an answer is merged into it.
LEMMA MergedHolds ==
    ASSUME VInv, NEW w \in wire, w.phase = "answered", View!Accepted(w), pane.pending = w.id
    PROVE  LET d == View!Merged(w) IN
           /\ d \in Answers
           /\ ~shown.restores =>
                /\ d.rev <= store.rev
                /\ \A s \in Scopes : d.rows[s] # 0 => s = pane.owner \/ (s \in Missions /\ OwnerOf[s] = pane.owner)
                /\ \A s \in Unwritten(pane.owner, d.rev) : d.rows[s] = store.rows[s]
<1>1. /\ w \in Requests /\ w.answer \in Answers /\ w.kind \in {"snapshot", "delta", "heartbeat"}
      /\ w.owner \in Owners /\ w.after \in Nat
  BY DEF VInv, PanesTyped, Sleeps, Requests
<1>2. pane.data \in Answers /\ pane.owner \in Owners
  BY DEF VInv, PanesTyped, Panes
<1>3. ~shown.restores => PaneHolds /\ Answered(w) /\ w.owner = pane.owner /\ w.after = pane.data.rev
  BY DEF VInv, Asked
<1>4. \A s \in Unwritten(w.owner, w.answer.rev) : s \in Scopes /\ s \in View!Allowed(w.owner)
  BY <1>1, AllowedScopes DEF Unwritten
<1>5. CASE w.kind = "snapshot"
  <2>1. View!Merged(w) = w.answer
    BY <1>5 DEF View!Merged
  <2> QED
    BY <1>1, <1>3, <1>5, <2>1 DEF Answered
<1>6. CASE w.kind = "heartbeat"
  <2> DEFINE d == [pane.data EXCEPT !.rev = w.answer.rev]
  <2>1. View!Merged(w) = d
    BY <1>6 DEF View!Merged
  <2>2. d \in Answers /\ d.rev = w.answer.rev /\ d.rows = pane.data.rows
    BY <1>1, <1>2 DEF Answers
  <2> HIDE DEF d
  <2> QED
    BY <1>3, <1>6, <2>1, <2>2 DEF Answered, PaneHolds
<1>7. CASE w.kind = "delta"
  <2> DEFINE rows == [s \in Scopes |->
                IF s \in Missions \ w.shown THEN 0
                ELSE IF w.answer.rows[s] # 0 \/ s = w.owner THEN w.answer.rows[s] ELSE pane.data.rows[s]]
             d == [rev |-> w.answer.rev, rows |-> rows]
  <2>1. View!Merged(w) = d
    BY <1>7 DEF View!Merged, View!Scopes, Scopes
  <2>2. d \in Answers
    BY <1>1, <1>2 DEF Answers
  <2>3. ~shown.restores => \A s \in Scopes : rows[s] # 0 =>
            s = pane.owner \/ (s \in Missions /\ OwnerOf[s] = pane.owner)
    BY <1>3 DEF Answered, PaneHolds
  <2>4. ASSUME ~shown.restores, NEW s \in Unwritten(w.owner, w.answer.rev) PROVE rows[s] = store.rows[s]
    <3>1. s \in Scopes /\ s \notin Missions \ w.shown
      BY <1>3, <1>4, <2>4 DEF Answered
    <3>2. CASE w.answer.rows[s] # 0 \/ s = w.owner
      BY <1>3, <1>7, <2>4, <3>1, <3>2 DEF Answered
    <3>3. CASE ~(w.answer.rows[s] # 0 \/ s = w.owner)
      <4>1. store.last[s] <= w.after
        BY <1>3, <1>7, <2>4, <3>3 DEF Answered
      <4>2. s \in Unwritten(pane.owner, pane.data.rev)
        BY <1>3, <1>4, <2>4, <4>1 DEF Unwritten
      <4> QED
        BY <1>3, <2>4, <3>1, <3>3, <4>2 DEF PaneHolds
    <3> QED
      BY <3>2, <3>3
  <2>5. ~shown.restores => w.answer.rev <= store.rev
    BY <1>3 DEF Answered
  <2> HIDE DEF rows
  <2>6. d.rev = w.answer.rev /\ d.rows = rows
    OBVIOUS
  <2> HIDE DEF d
  <2> QED
    BY <1>3, <2>1, <2>2, <2>3, <2>4, <2>5, <2>6
<1> QED
  BY <1>1, <1>5, <1>6, <1>7

\* A step of the pane: what it waits for is no request, or one about the view it has.
LEMMA PaneStep ==
    ASSUME VInv, pane' \in Panes, wire' \subseteq Requests, UNCHANGED <<store, saved, commits>>,
           shown' \in [history : Nat \ {0}, restores : BOOLEAN, faults : Nat, moves : Nat],
           shown'.restores <=> shown.restores,
           \A w \in wire' : w \in wire \/ (w.phase = "sent" /\ w.cursor = w.after),
           \A w \in wire' : w.id = pane'.pending =>
                \/ pane'.owner = w.owner /\ w.after = pane'.data.rev
                \/ w \in wire /\ pane'.pending = pane.pending /\ pane'.owner = pane.owner /\ pane'.data = pane.data,
           ~shown.restores => PaneHolds'
    PROVE  VInv'
<1>1. PanesTyped'
  BY DEF VInv, PanesTyped
<1>2. \A w \in wire' : Sleeps(w)'
  BY DEF VInv, Sleeps, Unwritten, View!Allowed, View!Visible
<1>3. ~shown.restores => \A w \in wire' : Asked(w)' /\ (w.phase = "answered" => Answered(w)')
  BY DEF VInv, Asked, Answered, Unwritten, View!Allowed, View!Visible
<1> QED
  BY <1>1, <1>2, <1>3 DEF VInv

\* The view a pane keeps is as good as it was.
LEMMA ViewKept ==
    ASSUME VInv, UNCHANGED store, pane'.owner = pane.owner, pane'.data = pane.data
    PROVE  ~shown.restores => PaneHolds'
  BY DEF VInv, PaneHolds, Unwritten, View!Allowed, View!Visible

LEMMA NoRequest == 0 \in 0 .. 2
  OBVIOUS

LEMMA PaneFailed ==
    ASSUME NEW x \in Panes
    PROVE  LET y == [x EXCEPT !.pending = 0]
           IN  y \in Panes /\ y.pending = 0 /\ y.owner = x.owner /\ y.data = x.data
  BY DEF Panes

LEMMA PaneRefused ==
    ASSUME NEW x \in Panes, NEW p \in 0 .. 2
    PROVE  LET y == [x EXCEPT !.pending = p, !.full = TRUE]
           IN  y \in Panes /\ y.pending = p /\ y.owner = x.owner /\ y.data = x.data
  BY DEF Panes

LEMMA RequestIds == VInv => \A w \in wire : w \in Requests /\ w.id # 0
  BY DEF VInv, PanesTyped, Requests

LEMMA DeliverStep == ASSUME VInv, NEW w \in wire, View!Deliver(w) PROVE VInv'
<1>1. /\ w \in Requests /\ w.phase = "answered" /\ wire' = wire \ {w} /\ wire' \subseteq Requests
      /\ UNCHANGED <<store, saved, commits, shown>> /\ pane \in Panes
      /\ shown \in [history : Nat \ {0}, restores : BOOLEAN, faults : Nat, moves : Nat]
  BY DEF VInv, PanesTyped, View!Deliver
<1>2. CASE pane' = pane
  <2>1. ~shown.restores => PaneHolds'
    BY <1>1, <1>2, ViewKept
  <2>2. pane' \in Panes
    BY <1>1, <1>2
  <2> HIDE DEF VInv
  <2> QED
    BY <1>1, <1>2, <2>1, <2>2, PaneStep
<1>3. CASE pane' = [pane EXCEPT !.pending = 0, !.full = TRUE]
  <2>1. pane' \in Panes /\ pane'.pending = 0 /\ pane'.owner = pane.owner /\ pane'.data = pane.data
    BY <1>1, <1>3, NoRequest, PaneRefused, Zenon
  <2> QED
    BY <1>1, <2>1, PaneStep, ViewKept, RequestIds
<1>4. CASE pane.pending = w.id /\ View!Accepted(w)
           /\ pane' = [pane EXCEPT !.data = View!Merged(w), !.has = TRUE, !.pending = 0, !.full = FALSE]
  <2> DEFINE d == View!Merged(w)
  <2>1. /\ d \in Answers
        /\ ~shown.restores =>
             /\ d.rev <= store.rev
             /\ \A s \in Scopes : d.rows[s] # 0 => s = pane.owner \/ (s \in Missions /\ OwnerOf[s] = pane.owner)
             /\ \A s \in Unwritten(pane.owner, d.rev) : d.rows[s] = store.rows[s]
    BY <1>1, <1>4, MergedHolds
  <2>2. pane' \in Panes /\ pane'.pending = 0 /\ pane'.owner = pane.owner /\ pane'.data = d
    <3> DEFINE yes == TRUE
               no == FALSE
               none == 0
               y == [pane EXCEPT !.data = d, !.has = yes, !.pending = none, !.full = no]
    <3>1. pane \in Panes /\ d \in Answers /\ {yes, no} \subseteq BOOLEAN /\ none \in 0 .. 2
      BY <1>1, <2>1
    <3>2. pane' = y /\ none = 0
      BY <1>4
    <3> HIDE DEF d, yes, no, none
    <3>3. y \in Panes /\ y.pending = none /\ y.owner = pane.owner /\ y.data = d
      BY <3>1 DEF Panes
    <3> HIDE DEF y
    <3> QED
      BY <3>2, <3>3
  <2> HIDE DEF d
  <2>3. ~shown.restores => PaneHolds'
    BY <1>1, <2>1, <2>2 DEF PaneHolds, Unwritten, View!Allowed, View!Visible
  <2> QED
    BY <1>1, <2>2, <2>3, PaneStep, RequestIds
<1> QED
  BY <1>2, <1>3, <1>4 DEF View!Deliver

\* A request the pane sends is about the view it has.
LEMMA Asking ==
    ASSUME VInv, NEW active \in BOOLEAN, NEW kind \in {"watch", "state"}, NEW id \in {1, 2} \ {r.id : r \in wire},
           wire' = wire \cup {[id |-> id, owner |-> pane.owner, kind |-> kind, after |-> pane.data.rev,
                               cursor |-> pane.data.rev, phase |-> "sent", answer |-> View!NoData, shown |-> {}]},
           pane' \in Panes, pane'.pending = id, pane'.owner = pane.owner, pane'.data = pane.data,
           UNCHANGED <<store, saved, commits, shown>>
    PROVE  VInv'
<1>1. /\ wire \subseteq Requests /\ pane.owner \in Owners /\ pane.data.rev \in Nat
      /\ shown \in [history : Nat \ {0}, restores : BOOLEAN, faults : Nat, moves : Nat]
  BY DEF VInv, PanesTyped, Panes, Answers
<1>2. View!NoData \in Answers
  BY DEF View!NoData, View!Scopes, Scopes, Answers
<1> DEFINE w == [id |-> id, owner |-> pane.owner, kind |-> kind, after |-> pane.data.rev,
                 cursor |-> pane.data.rev, phase |-> "sent", answer |-> View!NoData, shown |-> {}]
<1>3. /\ w \in Requests /\ w.phase = "sent" /\ w.cursor = w.after /\ w.id = id
      /\ w.owner = pane.owner /\ w.after = pane.data.rev
  BY <1>1, <1>2 DEF Requests
<1>4. wire' = wire \cup {w}
  OBVIOUS
<1> HIDE DEF w
<1>5. \A x \in wire : x.id # id
  OBVIOUS
<1> QED
  BY <1>1, <1>3, <1>4, <1>5, PaneStep, ViewKept

LEMMA PaneAsking ==
    ASSUME NEW x \in Panes, NEW id \in 0 .. 2
    PROVE  LET y == [x EXCEPT !.pending = id]
           IN  y \in Panes /\ y.pending = id /\ y.owner = x.owner /\ y.data = x.data
  BY DEF Panes

LEMMA PaneShowing ==
    ASSUME NEW x \in Panes, NEW id \in 0 .. 2
    PROVE  LET y == [x EXCEPT !.active = TRUE, !.pending = id]
           IN  y \in Panes /\ y.pending = id /\ y.owner = x.owner /\ y.data = x.data
  BY DEF Panes

LEMMA PaneHiding ==
    ASSUME NEW x \in Panes, NEW p \in 0 .. 2
    PROVE  LET y == [x EXCEPT !.active = FALSE, !.pending = p]
           IN  y \in Panes /\ y.pending = p /\ y.owner = x.owner /\ y.data = x.data
  BY DEF Panes

LEMMA AskStep == ASSUME VInv, View!Read PROVE VInv'
<1>1. PICK kind \in {"watch", "state"} : View!Ask(kind)
  BY DEF View!Read
<1>2. PICK id \in {1, 2} \ {r.id : r \in wire} :
        /\ wire' = wire \cup {[id |-> id, owner |-> pane.owner, kind |-> kind, after |-> pane.data.rev,
                               cursor |-> pane.data.rev, phase |-> "sent", answer |-> View!NoData, shown |-> {}]}
        /\ pane' = [pane EXCEPT !.pending = id]
  BY <1>1 DEF View!Ask
<1>3. pane' \in Panes /\ pane'.pending = id /\ pane'.owner = pane.owner /\ pane'.data = pane.data
  <2>1. pane \in Panes /\ id \in 0 .. 2
    BY DEF VInv, PanesTyped
  <2> QED
    BY <1>2, <2>1, PaneAsking, Zenon
<1> QED
  BY <1>2, <1>3, Asking DEF View!Read

LEMMA ShowStep == ASSUME VInv, View!Show PROVE VInv'
<1>1. PICK id \in {1, 2} \ {r.id : r \in wire} :
        /\ wire' = wire \cup {[id |-> id, owner |-> pane.owner, kind |-> "state", after |-> pane.data.rev,
                               cursor |-> pane.data.rev, phase |-> "sent", answer |-> View!NoData, shown |-> {}]}
        /\ pane' = [pane EXCEPT !.active = TRUE, !.pending = id]
  BY DEF View!Show
<1>2. pane' \in Panes /\ pane'.pending = id /\ pane'.owner = pane.owner /\ pane'.data = pane.data
  <2>1. pane \in Panes /\ id \in 0 .. 2
    BY DEF VInv, PanesTyped
  <2> QED
    BY <1>1, <2>1, PaneShowing, Zenon
<1> QED
  BY <1>1, <1>2, Asking DEF View!Show

\* Something of what may still happen is used up.
LEMMA SpendTyped ==
    ASSUME NEW x \in [history : Nat \ {0}, restores : BOOLEAN, faults : Nat, moves : Nat],
           NEW what \in {"faults", "moves"}, x[what] > 0
    PROVE  LET y == [x EXCEPT ![what] = @ - 1]
           IN  /\ y \in [history : Nat \ {0}, restores : BOOLEAN, faults : Nat, moves : Nat]
               /\ y.restores <=> x.restores
  OBVIOUS

LEMMA ShownSpent ==
    ASSUME VInv, NEW what \in {"faults", "moves"}, View!Spend(what)
    PROVE  /\ shown' \in [history : Nat \ {0}, restores : BOOLEAN, faults : Nat, moves : Nat]
           /\ shown'.restores <=> shown.restores
<1>1. shown \in [history : Nat \ {0}, restores : BOOLEAN, faults : Nat, moves : Nat] /\ shown[what] > 0
  BY DEF VInv, PanesTyped, View!Spend
<1>2. shown' = [shown EXCEPT ![what] = @ - 1]
  BY DEF View!Spend
<1> QED
  BY <1>1, <1>2, SpendTyped, Zenon

LEMMA LoseRequestStep == ASSUME VInv, NEW w \in wire, View!Lose(w) PROVE VInv'
<1>1. /\ wire' = wire \ {w} /\ wire' \subseteq Requests /\ pane \in Panes /\ UNCHANGED <<store, saved, commits>>
      /\ pane' = pane \/ pane' = [pane EXCEPT !.pending = 0]
  BY DEF VInv, PanesTyped, View!Lose, View!Failed
<1>2. /\ shown' \in [history : Nat \ {0}, restores : BOOLEAN, faults : Nat, moves : Nat]
      /\ shown'.restores <=> shown.restores
  BY ShownSpent DEF View!Lose
<1>3. /\ pane' \in Panes /\ pane'.pending \in {pane.pending, 0} /\ pane'.owner = pane.owner
      /\ pane'.data = pane.data
  BY <1>1, PaneFailed
<1> QED
  BY <1>1, <1>2, <1>3, PaneStep, ViewKept, RequestIds

LEMMA HideStep == ASSUME VInv, View!Hide PROVE VInv'
<1>1. /\ wire' = wire /\ wire' \subseteq Requests /\ pane \in Panes /\ UNCHANGED <<store, saved, commits>>
      /\ pane' = [pane EXCEPT !.active = FALSE, !.pending = 0]
  BY DEF VInv, PanesTyped, View!Hide
<1>2. /\ shown' \in [history : Nat \ {0}, restores : BOOLEAN, faults : Nat, moves : Nat]
      /\ shown'.restores <=> shown.restores
  BY ShownSpent DEF View!Hide
<1>3. pane' \in Panes /\ pane'.pending = 0 /\ pane'.owner = pane.owner /\ pane'.data = pane.data
  BY <1>1, NoRequest, PaneHiding, Zenon
<1> QED
  BY <1>1, <1>2, <1>3, PaneStep, ViewKept, RequestIds

\* No data is what a view knows of scopes that were never written.
LEMMA NothingHolds ==
    ASSUME StoreWhole(store), NEW o \in Owners
    PROVE  /\ View!NoData \in Answers /\ View!NoData.rev = 0 /\ 0 <= store.rev
           /\ \A s \in Scopes : View!NoData.rows[s] = 0
           /\ \A s \in Unwritten(o, 0) : s \in Scopes /\ store.rows[s] = 0
<1>1. View!Allowed(o) \subseteq Scopes
  BY AllowedScopes
<1> QED
  BY <1>1 DEF StoreWhole, Stores, Unwritten, View!NoData, View!Scopes, Scopes, Answers

LEMMA SelectStep == ASSUME VInv, NEW o \in Owners, View!Select(o) PROVE VInv'
<1>1. /\ wire' = wire /\ wire' \subseteq Requests /\ pane \in Panes /\ UNCHANGED <<store, saved, commits>>
      /\ pane' = [pane EXCEPT !.owner = o, !.data = View!NoData, !.has = FALSE, !.pending = 0, !.full = FALSE]
  BY DEF VInv, PanesTyped, View!Select
<1>2. /\ shown' \in [history : Nat \ {0}, restores : BOOLEAN, faults : Nat, moves : Nat]
      /\ shown'.restores <=> shown.restores
  BY ShownSpent DEF View!Select
<1>3. StoreWhole(store) /\ View!NoData \in Answers
  BY NothingHolds DEF VInv
<1>4. pane' \in Panes /\ pane'.pending = 0 /\ pane'.owner = o /\ pane'.data = View!NoData
  <2> DEFINE d == View!NoData
             no == FALSE
             none == 0
             y == [pane EXCEPT !.owner = o, !.data = d, !.has = no, !.pending = none, !.full = no]
  <2>1. pane \in Panes /\ d \in Answers /\ no \in BOOLEAN /\ none \in 0 .. 2
    BY <1>1, <1>3
  <2>2. pane' = y /\ none = 0
    BY <1>1
  <2> HIDE DEF d, no, none
  <2>3. y \in Panes /\ y.pending = none /\ y.owner = o /\ y.data = d
    BY <2>1 DEF Panes
  <2> HIDE DEF y
  <2>4. pane' \in Panes /\ pane'.pending = 0 /\ pane'.owner = o /\ pane'.data = d
    BY <2>2, <2>3
  <2> QED
    BY <2>4 DEF d
<1>5. PaneHolds'
  <2>1. \A s \in Unwritten(o, 0)' : s \in Unwritten(o, 0)
    BY <1>1 DEF Unwritten, View!Allowed, View!Visible
  <2> QED
    BY <1>1, <1>3, <1>4, <2>1, NothingHolds DEF PaneHolds
<1> QED
  BY <1>1, <1>2, <1>4, <1>5, PaneStep, RequestIds

LEMMA TakeSnapshotStep == ASSUME VInv, View!Snapshot PROVE VInv'
  BY DEF VInv, PanesTyped, Sleeps, PaneHolds, Asked, Answered, Unwritten, View!Allowed, View!Visible,
     View!Snapshot

LEMMA EmptyWhole == StoreWhole(View!EmptyStore)
  BY DEF StoreWhole, Stores, View!EmptyStore, View!Scopes, Scopes

LEMMA RestoreStep == ASSUME VInv, View!Restore PROVE VInv'
<1>1. /\ store' = saved /\ saved' = View!EmptyStore /\ wire' = {} /\ shown.restores
      /\ UNCHANGED <<commits, shown>> /\ pane' = [pane EXCEPT !.pending = 0] /\ pane \in Panes
  BY DEF VInv, PanesTyped, View!Restore, View!Failed
<1>2. pane' \in Panes
  BY <1>1, PaneFailed
<1>3. StoreWhole(store)' /\ StoreWhole(saved)'
  BY <1>1, EmptyWhole DEF VInv
<1> QED
  BY <1>1, <1>2, <1>3 DEF VInv, PanesTyped

\* A transaction: the revision after it, its scopes and the log pruned to its history.
LEMMA Written ==
    ASSUME VInv, NEW scopes \in SUBSET Scopes, View!Commit(scopes)
    PROVE  /\ store'.rev = store.rev + 1 /\ store.rev \in Nat
           /\ store'.log = {c \in store.log : c.rev + shown.history > store.rev + 1}
                           \cup {[rev |-> store.rev + 1, scopes |-> scopes]}
           /\ \A s \in Scopes : /\ store'.rows[s] = IF s \in scopes THEN commits + 1 ELSE store.rows[s]
                                /\ store'.last[s] = IF s \in scopes THEN store.rev + 1 ELSE store.last[s]
           /\ store' \in Stores
<1>1. store \in Stores /\ commits \in Nat
  BY DEF VInv, StoreWhole, PanesTyped
<1> DEFINE n == store.rev + 1
           kept == {c \in store.log : c.rev + shown.history > n} \cup {[rev |-> n, scopes |-> scopes]}
           rows == [s \in Scopes |-> IF s \in scopes THEN commits + 1 ELSE store.rows[s]]
           last == [s \in Scopes |-> IF s \in scopes THEN n ELSE store.last[s]]
<1>2. store' = [rev |-> n, log |-> kept, rows |-> rows, last |-> last]
  BY DEF View!Commit, View!Scopes, Scopes
<1>3. n \in Nat /\ kept \subseteq Changes /\ rows \in [Scopes -> Nat] /\ last \in [Scopes -> Nat]
  BY <1>1 DEF Stores, Changes
<1>4. store' \in Stores /\ store'.rev = n /\ store'.log = kept /\ store'.rows = rows /\ store'.last = last
  <2> HIDE DEF n, kept, rows, last
  <2> QED
    BY <1>2, <1>3 DEF Stores
<1> QED
  BY <1>1, <1>4 DEF Stores

LEMMA WrittenWhole ==
    ASSUME VInv, NEW scopes \in SUBSET Scopes, View!Commit(scopes)
    PROVE  StoreWhole(store)'
<1> SUFFICES ASSUME NEW s \in Scopes
             PROVE  /\ store'.last[s] <= store'.rev /\ (store'.last[s] = 0 <=> store'.rows[s] = 0)
                    /\ \/ \A c \in store'.log : c.rev > store'.last[s]
                       \/ \E c \in store'.log : c.rev = store'.last[s] /\ s \in c.scopes
  BY Written DEF StoreWhole
<1>1. /\ store \in Stores /\ commits \in Nat /\ shown.history \in Nat
      /\ store.last[s] \in Nat /\ store.last[s] <= store.rev /\ (store.last[s] = 0 <=> store.rows[s] = 0)
      /\ \A c \in store.log : c.rev \in Nat
  BY DEF VInv, StoreWhole, PanesTyped, Stores, Changes
<1> DEFINE mark == [rev |-> store.rev + 1, scopes |-> scopes]
<1>2. mark \in store'.log /\ mark.rev = store.rev + 1 /\ mark.scopes = scopes
  BY Written
<1>3. \A c \in store'.log : c = mark \/ (c \in store.log /\ c.rev + shown.history > store.rev + 1)
  BY Written
<1> HIDE DEF mark
<1>4. CASE s \in scopes
  BY <1>1, <1>2, <1>4, Written
<1>5. CASE s \notin scopes
  <2>1. store'.last[s] = store.last[s] /\ store'.rows[s] = store.rows[s] /\ store'.rev = store.rev + 1
        /\ store.rev \in Nat
    BY <1>5, Written
  <2>2. CASE \A c \in store.log : c.rev > store.last[s]
    BY <1>1, <1>2, <1>3, <2>1, <2>2
  <2>3. ASSUME NEW c \in store.log, c.rev = store.last[s], s \in c.scopes
        PROVE  \/ \A k \in store'.log : k.rev > store'.last[s]
               \/ \E k \in store'.log : k.rev = store'.last[s] /\ s \in k.scopes
    <3>1. CASE c.rev + shown.history > store.rev + 1
      <4>1. c \in store'.log
        BY <3>1, Written
      <4> QED
        BY <2>1, <2>3, <4>1
    <3>2. CASE ~(c.rev + shown.history > store.rev + 1)
      BY <1>1, <1>2, <1>3, <2>1, <2>3, <3>2
    <3> QED
      BY <3>1, <3>2
  <2>4. \/ \A c \in store.log : c.rev > store.last[s]
        \/ \E c \in store.log : c.rev = store.last[s] /\ s \in c.scopes
    BY DEF VInv, StoreWhole
  <2> QED
    BY <1>1, <2>1, <2>2, <2>3, <2>4
<1> QED
  BY <1>4, <1>5

\* What it leaves unwritten was so, and is as it was.
LEMMA StillUnwritten ==
    ASSUME VInv, NEW scopes \in SUBSET Scopes, View!Commit(scopes), NEW o \in Owners, NEW after \in Nat,
           after <= store.rev, NEW s \in Unwritten(o, after)'
    PROVE  /\ s \in Unwritten(o, after) /\ s \in Scopes
           /\ store'.rows[s] = store.rows[s] /\ store'.last[s] = store.last[s]
<1>1. s \in Scopes /\ store'.last[s] <= after /\ (s = o \/ (s \in Missions /\ OwnerOf[s] = o /\ store'.rows[s] # 0))
  BY DEF Unwritten, View!Allowed, View!Visible, Scopes, OwnerOf
<1>2. s \notin scopes
  BY <1>1, Written
<1>3. store'.rows[s] = store.rows[s] /\ store'.last[s] = store.last[s]
  BY <1>1, <1>2, Written
<1>4. s \in View!Allowed(o)
  BY <1>1, <1>3, AllowedScopes
<1> QED
  BY <1>1, <1>3, <1>4 DEF Unwritten

\* Each waiting watch is inspected after the commit.
LEMMA InspectNext ==
    ASSUME VInv, NEW scopes \in SUBSET Scopes, View!Commit(scopes), NEW w \in wire,
           NEW x, View!Inspect(w)' = x
    PROVE  Same(x, w) /\ Sleeps(x)' /\ (x.phase = "answered" => x = w)
<1>0. w \in Requests /\ Sleeps(w)
  BY DEF VInv, PanesTyped
<1>1. w.owner \in Owners /\ w.after \in Nat /\ store.rev \in Nat /\ store'.rev = store.rev + 1
  BY <1>0, Written DEF Requests
<1>2. CASE w.phase # "waiting"
  <2>1. x = w
    BY <1>2 DEF View!Inspect
  <2> QED
    BY <1>0, <1>2, <2>1 DEF Same, Sleeps
<1>3. CASE w.phase = "waiting" /\ View!Inspect(w)' = [w EXCEPT !.phase = "done"]
  <2> DEFINE v == [w EXCEPT !.phase = "done"]
  <2>1. Same(v, w) /\ v.phase = "done"
    BY <1>0, PhaseSame, Zenon
  <2> HIDE DEF v
  <2>2. x = v
    BY <1>3 DEF v
  <2> QED
    BY <2>1, <2>2 DEF Sleeps
<1>4. ASSUME NEW rev, rev = store'.rev, w.phase = "waiting", View!Replayable(w.cursor)',
             (View!ChangedSince(w.cursor) \cap View!Allowed(w.owner) = {})',
             View!Inspect(w)' = [w EXCEPT !.cursor = rev]
      PROVE  Same(x, w) /\ Sleeps(x)' /\ (x.phase = "answered" => x = w)
  <2> DEFINE v == [w EXCEPT !.cursor = rev]
  <2>1. Same(v, w) /\ v.phase = "waiting" /\ v.cursor = rev
    <3>1. rev \in Nat
      BY <1>1, <1>4
    <3> QED
      BY <1>0, <1>4, <3>1, CursorSame, Zenon
  <2> HIDE DEF v
  <2>2. x = v
    BY <1>4 DEF v
  <2>3. w.cursor = store.rev /\ View!Allowed(w.owner) = Unwritten(w.owner, w.after)
    BY <1>0, <1>4 DEF Sleeps
  <2>4. ASSUME NEW s \in View!Allowed(w.owner)' PROVE s \in Unwritten(w.owner, w.after)'
    <3>1. s \in Scopes
      BY <1>1 DEF View!Allowed, View!Visible, Scopes
    <3>2. store'.last[s] <= store.rev
      <4>1. s \notin View!ChangedSince(w.cursor)'
        BY <1>4
      <4>2. StoreWhole(store)'
        BY WrittenWhole
      <4> QED
        BY <1>1, <1>4, <2>3, <3>1, <4>1, <4>2, ReplayTellsNext
    <3>3. s \in Unwritten(w.owner, w.cursor)'
      BY <2>3, <2>4, <3>2 DEF Unwritten
    <3>4. s \in Unwritten(w.owner, w.cursor) /\ store'.last[s] = store.last[s]
      <4>1. w.cursor \in Nat /\ w.cursor <= store.rev
        BY <1>1, <2>3
      <4> QED
        BY <1>1, <3>3, <4>1, StillUnwritten
    <3>5. store.last[s] <= w.after
      BY <2>3, <3>4 DEF Unwritten
    <3> QED
      BY <3>4, <3>5 DEF Unwritten
  <2>5. (View!Allowed(w.owner) = Unwritten(w.owner, w.after))'
    BY <2>4 DEF Unwritten
  <2>6. Sleeps(v)'
    BY <1>4, <2>1, <2>5 DEF Sleeps, Same
  <2> QED
    BY <2>1, <2>2, <2>6
<1> QED
  BY <1>2, <1>3, <1>4 DEF View!Inspect

LEMMA WriteStep ==
    ASSUME VInv, NEW scopes \in SUBSET Scopes, View!Commit(scopes)
    PROVE  VInv'
<1>1. /\ wire' = {View!Inspect(w)' : w \in wire} /\ commits' = commits + 1
      /\ UNCHANGED <<saved, pane, shown>>
  BY DEF View!Commit
<1>2. \A v \in wire' : \E w \in wire : Same(v, w) /\ Sleeps(v)' /\ (v.phase = "answered" => v = w)
  BY <1>1, InspectNext
<1>3. StoreWhole(store)' /\ StoreWhole(saved)'
  BY <1>1, WrittenWhole DEF VInv
<1>4. PanesTyped'
  BY <1>1, <1>2 DEF VInv, PanesTyped, Same
<1>5. ASSUME ~shown.restores PROVE PaneHolds'
  <2>1. /\ PaneHolds /\ pane.owner \in Owners /\ pane.data.rev \in Nat
        /\ store'.rev = store.rev + 1 /\ store.rev \in Nat
    BY <1>5, Written DEF VInv, PanesTyped, Panes, Answers
  <2>2. ASSUME NEW s \in Unwritten(pane.owner, pane.data.rev)' PROVE pane.data.rows[s] = store'.rows[s]
    <3>1. s \in Unwritten(pane.owner, pane.data.rev) /\ store'.rows[s] = store.rows[s]
      BY <1>1, <2>1, <2>2, StillUnwritten DEF PaneHolds
    <3> QED
      BY <2>1, <3>1 DEF PaneHolds
  <2> QED
    BY <1>1, <2>1, <2>2 DEF PaneHolds
<1>6. ASSUME ~shown.restores, NEW w \in wire, w.phase = "answered" PROVE Answered(w)'
  <2>1. /\ Answered(w) /\ w.owner \in Owners /\ w.answer.rev \in Nat /\ w.answer.rev <= store.rev
        /\ store'.rev = store.rev + 1 /\ store.rev \in Nat
    BY <1>6, Written DEF VInv, PanesTyped, Requests, Answers, Answered
  <2>2. \A s \in Unwritten(w.owner, w.answer.rev)' :
            /\ s \in Unwritten(w.owner, w.answer.rev) /\ s \in Scopes
            /\ store'.rows[s] = store.rows[s] /\ store'.last[s] = store.last[s]
            /\ s \in View!Allowed(w.owner)'
    BY <2>1, StillUnwritten DEF Unwritten
  <2>3. w.kind = "heartbeat" => Unwritten(w.owner, w.answer.rev)' \subseteq Unwritten(w.owner, w.after)'
    BY <2>1, <2>2 DEF Answered, Unwritten
  <2> QED
    BY <2>1, <2>2, <2>3 DEF Answered
<1>7. ~shown.restores => \A v \in wire' : Asked(v)' /\ (v.phase = "answered" => Answered(v)')
  BY <1>1, <1>2, <1>6 DEF VInv, Asked, Same
<1> QED
  BY <1>1, <1>2, <1>3, <1>4, <1>5, <1>7 DEF VInv

LEMMA PaneMade ==
    ASSUME NEW o \in Owners, NEW p \in 0 .. 2, NEW d \in Answers
    PROVE  LET x == [owner |-> o, active |-> TRUE, data |-> d, has |-> FALSE, pending |-> p, full |-> FALSE]
           IN  x \in Panes /\ x.owner = o /\ x.data = d
  BY DEF Panes

LEMMA VInvInit == View!Init => VInv
<1> SUFFICES ASSUME View!Init PROVE VInv
  OBVIOUS
<1>1. /\ store = View!EmptyStore /\ saved = View!EmptyStore /\ wire = {} /\ commits = 0
      /\ \E m \in Missions : pane = [owner |-> OwnerOf[m], active |-> TRUE, data |-> View!NoData,
                                     has |-> FALSE, pending |-> 0, full |-> FALSE]
  BY DEF View!Init, OwnerOf
<1>2. shown \in [history : Nat \ {0}, restores : BOOLEAN, faults : Nat, moves : Nat]
  <2>1. [history |-> History, restores |-> FALSE, faults |-> MaxLosses, moves |-> MaxMoves]
            \in [history : Nat \ {0}, restores : BOOLEAN, faults : Nat, moves : Nat]
    BY ViewNumbers
  <2>2. [history |-> History + 1, restores |-> TRUE, faults |-> 0, moves |-> MaxMoves]
            \in [history : Nat \ {0}, restores : BOOLEAN, faults : Nat, moves : Nat]
    BY ViewNumbers
  <2> QED
    BY <2>1, <2>2, Zenon DEF View!Init
<1>3. StoreWhole(store)
  BY <1>1, EmptyWhole
<1>4. pane \in Panes /\ pane.owner \in Owners /\ pane.data = View!NoData
  <2>1. View!NoData \in Answers
    BY DEF View!NoData, View!Scopes, Scopes, Answers
  <2>2. PICK m \in Missions : pane = [owner |-> OwnerOf[m], active |-> TRUE, data |-> View!NoData,
                                      has |-> FALSE, pending |-> 0, full |-> FALSE]
    BY <1>1
  <2>3. OwnerOf[m] \in Owners
    BY ViewNumbers
  <2> QED
    BY <2>1, <2>2, <2>3, NoRequest, PaneMade, Zenon
<1>5. PaneHolds
  BY <1>3, <1>4, NothingHolds DEF PaneHolds
<1> QED
  BY <1>1, <1>2, <1>3, <1>4, <1>5 DEF VInv, PanesTyped

LEMMA VInvStep == VInv /\ [View!Next]_viewVars => VInv'
<1> SUFFICES ASSUME VInv, [View!Next]_viewVars PROVE VInv'
  OBVIOUS
<1>1. ASSUME NEW m \in Missions, View!WriteMission(m) \/ View!WriteTask(m) PROVE VInv'
  <2>1. {m, OwnerOf[m]} \in SUBSET Scopes /\ {m} \in SUBSET Scopes
    BY ViewNumbers DEF Scopes
  <2> QED
    BY <1>1, <2>1, WriteStep DEF View!WriteMission, View!WriteTask, OwnerOf
<1>2. ASSUME NEW o \in Owners, View!WriteDraft(o) \/ View!Select(o) PROVE VInv'
  <2>1. {o} \in SUBSET Scopes
    BY DEF Scopes
  <2> QED
    BY <1>2, <2>1, WriteStep, SelectStep DEF View!WriteDraft
<1>3. CASE View!Host
  BY <1>3, ReceiveStep, WakeStep, AnswerStep, DeliverStep DEF View!Host
<1>4. CASE UNCHANGED viewVars
  BY <1>4 DEF viewVars, VInv, PanesTyped, Sleeps, PaneHolds, Asked, Answered, Unwritten, View!Allowed,
     View!Visible
<1> QED
  BY <1>1, <1>2, <1>3, <1>4, TakeSnapshotStep, RestoreStep, AskStep, HideStep, ShowStep, LoseRequestStep
  DEF View!Next

LEMMA VInvWakes == VInv => View!WatchesWake /\ (~shown.restores => View!ViewCurrent)
<1> SUFFICES ASSUME VInv PROVE View!WatchesWake /\ (~shown.restores => View!ViewCurrent)
  OBVIOUS
<1>1. View!WatchesWake
  BY DEF VInv, Sleeps, Unwritten, View!WatchesWake
<1>2. ASSUME ~shown.restores PROVE View!ViewCurrent
  BY <1>2 DEF VInv, PaneHolds, Unwritten, View!ViewCurrent, View!Scopes, Scopes, OwnerOf
<1> QED
  BY <1>1, <1>2
-----------------------------------------------------------------------------
\* Of each part that moves, its invariant; the others stand still.
StoreInv == (part = "files" => FInv) /\ (part = "panes" => VInv)

LEMMA StoreInvInit == StoreInit => StoreInv
  BY FInvInit, VInvInit DEF StoreInit, StoreInv

LEMMA StoreInvStep == StoreInv /\ [StoreNext]_<<part, vars, restoreVars, viewVars>> => StoreInv'
<1> SUFFICES ASSUME StoreInv, [StoreNext]_<<part, vars, restoreVars, viewVars>> PROVE StoreInv'
  OBVIOUS
<1>1. part' = part
  BY DEF StoreNext
<1>2. part = "files" => [Disk!Next]_restoreVars
  BY DEF StoreNext
<1>3. part = "panes" => [View!Next]_viewVars
  BY DEF StoreNext
<1> QED
  BY <1>1, <1>2, <1>3, FInvStep, VInvStep DEF StoreInv

\* The inductive invariant of the store's files and of the panes that follow it.
THEOREM StoreInvariant == StoreSpec => []StoreInv
  BY StoreInvInit, StoreInvStep, PTL DEF StoreSpec

\* A database that is opened holds every commit acknowledged since, or the restored
\* snapshot and nothing of the replaced file's log; a durable restore intent has its bytes;
\* one host runs (applyPendingRestore, finishRestore, acquireRuntimeLock).
THEOREM RestoresOpenWhole == StoreSpec => []OpenedWhole
<1>1. StoreInv => OpenedWhole
  BY FInvOpened DEF StoreInv, OpenedWhole
<1> QED
  BY <1>1, StoreInvariant, PTL

\* No watch sleeps over a change its session may see, and a pane shows no scope older
\* than the revision it claims (waitForStateChange, mergeUpdate).
THEOREM WatchesAlwaysWake == StoreSpec => []WatchesWake
<1>1. StoreInv => WatchesWake
  BY VInvWakes DEF StoreInv, WatchesWake
<1> QED
  BY <1>1, StoreInvariant, PTL
=============================================================================
