---------------------------- MODULE Checkpoints -----------------------------
(***************************************************************************)
(* Where the work of a task is kept between its attempts                   *)
(* (src/workspaces.ts): the members' worktrees, the record of what each    *)
(* was last prepared for, the record of each task, and the private refs.   *)
(*                                                                         *)
(* A commit and a tree are the set of what is in them: the edits made for  *)
(* a task, and the basis it was composed from, which is the dependencies   *)
(* of ordinary work and the reviewed source of a review.  The base commit  *)
(* of a record is its basis, with no edit of the task.  Declared outputs   *)
(* and ignored files, and the conflicts of a composition, are left out.    *)
(*                                                                         *)
(* An operation writes the disk several times.  It is a sequence of disks, *)
(* one after each write, and the host may die after any of them, those of  *)
(* a preparation included.                                                 *)
(***************************************************************************)
EXTENDS Integers, FiniteSets, SequencesExt

CONSTANTS
    Members,
    Tasks,
    Bases,        \* the dependencies and the versions of the source
    First,        \* what each task builds on at first
    None,
    MaxEdits,     \* bound: edits made
    MaxEpoch,     \* bound: the epoch of each task
    MaxAmends,    \* bound: changes of what a task builds on
    MaxCrashes,   \* bound: deaths of the host
    Documented    \* whether what an interrupted attempt left is owed whatever is recorded

CheckpointsBounds ==
    /\ MaxEpoch \in [Tasks -> Nat]
    /\ {MaxEdits, MaxAmends, MaxCrashes} \subseteq Nat
    /\ First \in [Tasks -> SUBSET Bases]
    /\ Documented \in BOOLEAN

VARIABLES
    disk,     \* worktrees, HEADs, records and refs
    row,      \* the tasks' durable rows
    basis,    \* what each task builds on now
    writing,  \* the task a member's handle is in a turn of
    edits,    \* the edits made
    owed,     \* the edits a task's next attempt must start from
    loose,    \* the edits it may start from besides
    torn,     \* the tasks a death left with records that disagree (history)
    reviews,  \* the tasks that review a source
    left      \* edits, changes of a basis and deaths still to come

vars == <<disk, row, basis, writing, edits, owed, loose, torn, reviews, left>>

Of(t) == {e \in edits : e.task = t}

\* What a preparation or a capture records of the worktree of member owner.
Record(m, t, e, b) ==
    [owner |-> m, task |-> t, epoch |-> e, basis |-> b, captured |-> None, preserved |-> None]

Else(c, d) == IF c = None THEN d ELSE c

Init ==
    /\ basis = First
    /\ disk = [tree |-> [m \in Members |-> {}], head |-> [m \in Members |-> {}],
               member |-> [m \in Members |-> None], task |-> [t \in Tasks |-> None],
               refs |-> {}]
    /\ row = [t \in Tasks |->
                [status |-> "pending", epoch |-> 0, owner |-> None, capture |-> None,
                 finished |-> None]]
    /\ writing = [m \in Members |-> None]
    /\ edits = {}
    /\ owed = [t \in Tasks |-> {}]
    /\ loose = owed
    /\ torn = {}
    /\ reviews \in SUBSET Tasks
    /\ \A t \in reviews : Cardinality(First[t]) = 1
    /\ left \in [edits : 0 .. MaxEdits, amends : 0 .. MaxAmends, crashes : 0 .. MaxCrashes]
-----------------------------------------------------------------------------
Then(disks, Op(_)) == disks \o Op(Last(disks))

Publish(d, c) == [d EXCEPT !.refs = @ \cup {c}]
Checkout(d, m, c) == [d EXCEPT !.tree[m] = c, !.head[m] = c]
SaveMember(d, r) == [d EXCEPT !.member[r.owner] = r]
SaveTask(d, r) == [d EXCEPT !.task[r.task] = r]

\* The member's record first, then the task's.
SaveTaskWorkspace(d, r) == <<SaveMember(d, r), SaveTask(SaveMember(d, r), r)>>

OwnsTask(d, r) ==
    /\ d.task[r.task] # None
    /\ d.task[r.task].owner = r.owner
    /\ d.task[r.task].epoch = r.epoch

Superseded(d, r) ==
    /\ d.task[r.task] # None
    /\ d.task[r.task].owner # r.owner
    /\ d.task[r.task].epoch > r.epoch

\* The snapshot is in a ref before it is known that it may be recorded.
PreserveWorkspace(d, r, superseded) ==
    LET s == d.tree[r.owner]
        p == [r EXCEPT !.preserved = s]
        published == Publish(d, s)
    IN  IF OwnsTask(d, r) THEN <<published>> \o SaveTaskWorkspace(published, p)
        ELSE IF superseded THEN <<published, SaveMember(published, p)>>
        ELSE <<published>>

MayPreserve(d, r, superseded) == OwnsTask(d, r) \/ (superseded /\ Superseded(d, r))

\* The commit, its ref, then the records. A capture that fails is put back as it was.
CaptureArtifact(d, r) ==
    LET c == d.tree[r.owner]
        committed == [d EXCEPT !.head[r.owner] = c]
        published == Publish(committed, c)
    IN  <<committed, published>> \o SaveTaskWorkspace(published, [r EXCEPT !.captured = c, !.preserved = None])
-----------------------------------------------------------------------------
(* The preparation of a worktree for an attempt of a task.                 *)

\* Mutant: the basis is not compared.
ContinuesAnyBasis(d, m, t) ==
    /\ d.member[m] # None
    /\ d.member[m].task = t
    /\ d.task[t] = None \/ d.task[t].owner = m

\* The member's worktree is the task's last one, and its basis is the task's.
Continues(d, m, t) ==
    LET r == d.member[m] IN
    /\ r # None
    /\ r.task = t
    /\ r.basis = basis[t]
    /\ d.task[t] = None \/ d.task[t].owner = m

Continued(d, r, e) ==
    IF r.epoch = e THEN <<d>> ELSE SaveTaskWorkspace(d, [r EXCEPT !.epoch = e])

\* Something in the worktree is in no checkpoint of its record.
Unsaved(d, m) ==
    LET r == d.member[m] IN
    /\ r # None
    /\ \/ d.tree[m] # d.head[m]
       \/ d.head[m] # Else(r.preserved, Else(r.captured, r.basis))

MayLeave(d, m) == Unsaved(d, m) => MayPreserve(d, d.member[m], TRUE)

Cleared(d, m) ==
    IF ~Unsaved(d, m) THEN <<d>>
    ELSE Then(PreserveWorkspace(d, d.member[m], Superseded(d, d.member[m])),
              LAMBDA x : <<Checkout(x, m, x.member[m].preserved)>>)

\* The task that is left has a checkpoint, although none was captured.
CheckpointAbandoned(d, m, t) ==
    LET r == d.member[m] IN
    IF r = None \/ r.task = t \/ ~OwnsTask(d, r) \/ d.task[r.task].captured # None THEN <<d>>
    ELSE <<SaveTask(d, [r EXCEPT !.captured = Else(@, r.basis)])>>

Leave(d, m, t) == Then(Cleared(d, m), LAMBDA x : CheckpointAbandoned(x, m, t))

Finished(t) == IF row[t].finished = None THEN [epoch |-> -1, capture |-> None] ELSE row[t].finished

MayRecover(d, t, e) ==
    d.task[t] # None => d.task[t].epoch >= Finished(t).epoch /\ d.task[t].epoch < e

\* The last worktree prepared for the task still is, and no snapshot of it is recorded.
Uncaptured(d, t) ==
    /\ d.task[t] # None
    /\ d.task[t].epoch # Finished(t).epoch
    /\ d.task[t].preserved = None
    /\ d.member[d.task[t].owner].task = t

\* It is captured as its attempt, or, when it cannot be, preserved.
Recover(d, t, scoped) ==
    LET prior == d.member[d.task[t].owner] IN
    IF ~Uncaptured(d, t) THEN <<d>>
    ELSE IF scoped THEN CaptureArtifact(d, prior)
    ELSE PreserveWorkspace(d, prior, Superseded(d, prior))

\* What the next attempt starts from: d is the disk once Recover is through, and x the
\* task's record before it.
Recovered(d, t, x, scoped) ==
    LET prior == d.member[x.owner] IN
    IF x.epoch = Finished(t).epoch THEN Else(Finished(t).capture, x.basis)
    ELSE IF x.preserved # None THEN x.preserved
    ELSE IF prior.task = t /\ scoped THEN prior.captured
    ELSE IF prior.task = t /\ prior.preserved # None THEN prior.preserved
    ELSE Else(x.captured, x.basis)

\* A review whose source changed starts afresh; other work is carried onto its new basis.
Start(d, t, x, scoped) ==
    IF x = None THEN basis[t]
    ELSE IF x.basis = basis[t] THEN Recovered(d, t, x, scoped)
    ELSE IF t \in reviews THEN basis[t]
    ELSE basis[t] \cup (Recovered(d, t, x, scoped) \ x.basis)

\* The disks of a preparation, whether it goes through, and that of them on which the
\* worktree is composed anew and neither record is written.
PrepareTask(m, t, e, scoped) ==
    LET leaving == Leave(disk, m, t)
        x == Last(leaving).task[t]
        found == Then(leaving, LAMBDA d : Recover(d, t, scoped))
        start == Start(Last(found), t, x, scoped)
    IN  IF Continues(disk, m, t)
        THEN [ok |-> TRUE, bare |-> {}, disks |-> Continued(disk, disk.member[m], e)]
        ELSE IF ~MayLeave(disk, m)
        THEN [ok |-> FALSE, bare |-> {}, disks |-> PreserveWorkspace(disk, disk.member[m], FALSE)]
        ELSE IF ~MayRecover(Last(leaving), t, e)
        THEN [ok |-> FALSE, bare |-> {}, disks |-> leaving]
        ELSE [ok |-> TRUE,
              bare |-> {Checkout(Last(found), m, start)} \ ToSet(found),
              disks |-> Then(Append(found, Checkout(Last(found), m, start)),
                             LAMBDA d : SaveTaskWorkspace(d, Record(m, t, e, basis[t])))]
\* Of the next attempt: whether partial work is in the task's scope is not known.
Preparations(m, t) == {PrepareTask(m, t, row[t].epoch + 1, scoped) : scoped \in BOOLEAN}
-----------------------------------------------------------------------------
(* The runtime.                                                            *)

Free(m) ==
    /\ writing[m] = None
    /\ \A t \in Tasks : row[t].status \in {"running", "stopping"} => row[t].owner # m

\* The host dies after one of the writes of an operation, and restarts.
Interrupted(t) == [row[t] EXCEPT !.status = "pending", !.epoch = @ + 1, !.owner = None]

\* Of an attempt that ended in neither a stop nor a capture: recoverTask takes an earlier
\* snapshot when the task's record has one, and an earlier capture when the new one only
\* reached the member's record.
Earlier(d, t) ==
    LET x == d.task[t] IN
    Else(x.preserved, IF d.member[x.owner] = x THEN None ELSE x.captured)

StillOwed(d, t) ==
    IF Documented \/ d.task[t] = None \/ Earlier(d, t) = None THEN owed[t] ELSE owed[t] \cap Earlier(d, t)

Dies(disks, recovered) ==
    /\ left.crashes > 0
    /\ disk' \in ToSet(disks)
    /\ row' = [t \in Tasks |-> IF row[t].status = "running" THEN Interrupted(t) ELSE row[t]]
    /\ owed' = [t \in Tasks |->
        IF t \in recovered \/ row[t].status = "running" THEN StillOwed(disk', t) ELSE owed[t]]
    /\ writing' = [m \in Members |-> None]
    /\ left' = [left EXCEPT !.crashes = @ - 1]
    /\ UNCHANGED <<basis, edits>>

DieAfter(disks) ==
    Dies(disks, {}) /\ loose' = [t \in Tasks |-> loose[t] \cup (owed[t] \ owed'[t])]

\* What a member wrote for the task after it submitted is the next attempt's when that is the
\* member's too.
Late(m, t) == IF Continues(disk, m, t) THEN disk.tree[m] \cap Of(t) ELSE {}

\* A preparation that fails moves the row to a new epoch; the owner resumes it when it was
\* blocked.  An assignment may be refused although the worktree is prepared.
Dispatch(m, t) ==
    /\ row[t].status = "pending"
    /\ row[t].epoch < MaxEpoch[t]
    /\ Free(m)
    /\ \E p \in Preparations(m, t), refused \in BOOLEAN :
        /\ disk' = Last(p.disks)
        /\ row' = IF ~p.ok THEN [row EXCEPT ![t].epoch = @ + 1]
                  ELSE IF refused THEN row
                  ELSE [row EXCEPT ![t].status = "running", ![t].epoch = @ + 1, ![t].owner = m]
        /\ IF p.ok /\ ~refused
           THEN /\ writing' = [writing EXCEPT ![m] = t]
                /\ owed' = [owed EXCEPT ![t] = @ \cup Late(m, t)]
                /\ UNCHANGED loose
           ELSE /\ loose' = [loose EXCEPT ![t] = @ \cup Late(m, t)]
                /\ UNCHANGED <<writing, owed>>
    /\ UNCHANGED <<basis, edits, left>>

\* A preparation writes the worktree, the member's record and the task's. After the first
\* the member's record still names the work that left the worktree.
Bare(d, m, p) == d \in p.bare /\ Unsaved(d, m)

\* After the second the task's record is of an earlier attempt, or there is none.
Ahead(d, m) ==
    LET r == d.member[m] IN
    r # None /\ (d.task[r.task] = None \/ d.task[r.task].epoch < r.epoch)

DispatchCut(m, t) ==
    /\ row[t].status = "pending"
    /\ row[t].epoch < MaxEpoch[t]
    /\ Free(m)
    /\ \E p \in Preparations(m, t) :
        /\ Dies(p.disks, {t})
        /\ torn' = torn \cup (IF Bare(disk', m, p) THEN {disk.member[m].task} ELSE {})
                        \cup (IF Ahead(disk', m) THEN {t} ELSE {})
    /\ loose' = [x \in Tasks |->
        loose[x] \cup (owed[x] \ owed'[x]) \cup (IF x = t THEN Late(m, t) ELSE {})]

\* A composition that fails (a conflict, content a merge dropped, an ignored file in the
\* way) is undone: the worktree is what leaving it made of it.
PreparationFails(m, t) ==
    /\ row[t].status = "pending"
    /\ row[t].epoch < MaxEpoch[t]
    /\ Free(m)
    /\ ~Continues(disk, m, t)
    /\ MayLeave(disk, m)
    /\ disk' \in {disk, Last(Leave(disk, m, t))}
    /\ row' = [row EXCEPT ![t].epoch = @ + 1]
    /\ UNCHANGED <<basis, writing, edits, owed, loose, left>>

\* What a turn writes after it submitted is in no attempt.
Edit(m) ==
    LET t == writing[m]
        e == [task |-> t, by |-> m, n |-> Cardinality(edits)]
    IN  /\ t # None
        /\ left.edits > 0
        /\ disk' = [disk EXCEPT !.tree[m] = @ \cup {e}]
        /\ edits' = edits \cup {e}
        /\ owed' = IF row[t].status \in {"running", "stopping"} /\ row[t].owner = m
                   THEN [owed EXCEPT ![t] = @ \cup {e}] ELSE owed
        /\ left' = [left EXCEPT !.edits = @ - 1]
        /\ UNCHANGED <<row, basis, writing, loose>>

TurnEnds(m) ==
    /\ writing[m] # None
    /\ writing' = [writing EXCEPT ![m] = None]
    /\ UNCHANGED <<disk, row, basis, edits, owed, loose, left>>

Wake(t) ==
    /\ row[t].status = "running"
    /\ writing[row[t].owner] = None
    /\ writing' = [writing EXCEPT ![row[t].owner] = t]
    /\ UNCHANGED <<disk, row, basis, edits, owed, loose, left>>

\* captureArtifact asks for the record of exactly this attempt.
MayCapture(t) ==
    LET r == disk.member[row[t].owner] IN
    /\ r # None
    /\ r.task = t
    /\ r.epoch = row[t].epoch

Submit(t) ==
    LET m == row[t].owner IN
    /\ row[t].status = "running"
    /\ writing[m] = t
    /\ MayCapture(t)
    /\ \/ /\ disk' = Last(CaptureArtifact(disk, disk.member[m]))
          /\ row' = [row EXCEPT ![t].status = "submitted", ![t].capture = disk.tree[m]]
          /\ owed' = [owed EXCEPT ![t] = disk.tree[m] \cap Of(t)]
          /\ loose' = [loose EXCEPT ![t] = {}]
          /\ UNCHANGED <<basis, writing, edits, left>>
       \/ DieAfter(CaptureArtifact(disk, disk.member[m]))

\* A rejected round: the next attempt starts from its capture.
Rework(t) ==
    /\ row[t].status = "submitted"
    /\ row[t].epoch < MaxEpoch[t]
    /\ row' = [row EXCEPT
                ![t] = [status |-> "pending", epoch |-> @.epoch + 1, owner |-> None,
                        capture |-> None,
                        finished |-> [epoch |-> @.epoch, capture |-> @.capture]]]
    /\ UNCHANGED <<disk, basis, writing, edits, owed, loose, left>>

Fenced(t) == [row EXCEPT ![t].status = "stopping", ![t].epoch = @ + 1]

Fence(t) ==
    /\ row[t].status = "running"
    /\ row[t].epoch < MaxEpoch[t]
    /\ row' = Fenced(t)
    /\ UNCHANGED <<disk, basis, writing, edits, owed, loose, left>>

\* A close-out and a lapsed lease capture what an idle handle left before they fence.
CloseOut(t) ==
    LET m == row[t].owner IN
    /\ row[t].status = "running"
    /\ row[t].epoch < MaxEpoch[t]
    /\ writing[m] = None
    /\ MayCapture(t)
    /\ \/ /\ disk' = Last(CaptureArtifact(disk, disk.member[m]))
          /\ row' = Fenced(t)
          /\ UNCHANGED <<basis, writing, edits, owed, loose, left>>
       \/ DieAfter(CaptureArtifact(disk, disk.member[m]))

\* A checkpoint of the preceding epoch, when the worktree went to other work.
HasDurableCheckpoint(m, t) ==
    LET x == disk.task[t] IN
    /\ x # None
    /\ x.owner = m
    /\ x.epoch = row[t].epoch - 1
    /\ Else(x.preserved, x.captured) # None

MayCheckpoint(m, t) ==
    LET r == disk.member[m] IN
    \/ r = None
    \/ r.task # t /\ HasDurableCheckpoint(m, t)
    \/ r.task = t /\ MayPreserve(disk, r, FALSE)

CheckpointTask(m, t) ==
    LET r == disk.member[m] IN
    IF r # None /\ r.task = t THEN PreserveWorkspace(disk, r, FALSE) ELSE <<disk>>

\* The stop barrier: the handle has stopped and its worktree is checkpointed.
Stopped(t) ==
    LET m == row[t].owner IN
    /\ row[t].status = "stopping"
    /\ MayCheckpoint(m, t)
    /\ \/ /\ disk' = Last(CheckpointTask(m, t))
          /\ writing' = [writing EXCEPT ![m] = None]
          /\ row' = [row EXCEPT ![t].status = "pending", ![t].owner = None]
          /\ UNCHANGED <<basis, edits, owed, loose, left>>
       \/ DieAfter(CheckpointTask(m, t))

\* A start that failed, or a host restarted while no operation was under way.
StartFails(t) ==
    /\ row[t].status = "running"
    /\ row[t].epoch < MaxEpoch[t]
    /\ writing[row[t].owner] = None
    /\ row' = [row EXCEPT ![t] = Interrupted(t)]
    /\ owed' = [owed EXCEPT ![t] = StillOwed(disk, t)]
    /\ loose' = [loose EXCEPT ![t] = @ \cup (owed[t] \ owed'[t])]
    /\ UNCHANGED <<disk, basis, writing, edits, left>>

Crash == DieAfter(<<disk>>)

\* The owner amends the dependencies, or the source is submitted again: notes on another
\* source are not carried.
Amend(t, b) ==
    /\ left.amends > 0
    /\ row[t].status = "pending"
    /\ row[t].epoch < MaxEpoch[t]
    /\ b # basis[t]
    /\ t \in reviews => Cardinality(b) = 1
    /\ basis' = [basis EXCEPT ![t] = b]
    /\ owed' = IF t \in reviews THEN [owed EXCEPT ![t] = {}] ELSE owed
    /\ loose' = IF t \in reviews THEN [loose EXCEPT ![t] = {}] ELSE loose
    /\ row' = [row EXCEPT ![t].epoch = @ + 1]
    /\ left' = [left EXCEPT !.amends = @ - 1]
    /\ UNCHANGED <<disk, writing, edits>>

Undisturbed ==
    \/ \E m \in Members, t \in Tasks : Dispatch(m, t) \/ PreparationFails(m, t)
    \/ \E m \in Members : Edit(m) \/ TurnEnds(m)
    \/ \E t \in Tasks :
        Wake(t) \/ Submit(t) \/ Rework(t) \/ Fence(t) \/ CloseOut(t) \/ Stopped(t) \/ StartFails(t)
    \/ Crash
    \/ \E t \in Tasks, b \in SUBSET Bases : Amend(t, b)

Next ==
    /\ \/ Undisturbed /\ UNCHANGED torn
       \/ \E m \in Members, t \in Tasks : DispatchCut(m, t)
    /\ UNCHANGED reviews

Spec == Init /\ [][Next]_vars
-----------------------------------------------------------------------------
TypeOK ==
    /\ \A m \in Members : disk.head[m] \subseteq edits \cup Bases
    /\ \A t \in Tasks : row[t].status \in {"pending", "running", "stopping", "submitted"}

\* Whatever is recovered, left and prepared, no edit leaves every worktree before it is in
\* a ref (preserveWorkspace, captureArtifact, assertNoIgnoredOverwrite).
NothingLost ==
    \A e \in edits :
        \/ \E m \in Members : e \in disk.tree[m]
        \/ \E c \in disk.refs : e \in c

\* An attempt starts from all its task's attempts left, or from what a submission captured,
\* on the present basis and nothing else: "a rejected experiment cannot leak in". What a
\* member wrote for the task itself may stay in its worktree (prepareTask). A death in a
\* preparation costs one task at most: the one that is left, if no record was written, or
\* the one that is prepared, if one of the two was (saveTaskWorkspace).
StartsFromItsWork ==
    \A t \in Tasks \ torn :
        row[t].status = "running" =>
            /\ basis[t] \cup owed[t] \subseteq disk.tree[row[t].owner]
            /\ disk.tree[row[t].owner] \subseteq basis[t] \cup owed[t] \cup loose[t]

\* No member is left that can prepare nothing, and no stop that can never be confirmed: the
\* records of one worktree agree, but those of a task that a death tore.
NeverStranded ==
    /\ \A m \in Members : Free(m) => MayLeave(disk, m) \/ disk.member[m].task \in torn
    /\ \A t \in Tasks \ torn : row[t].status = "stopping" => MayCheckpoint(row[t].owner, t)

\* A task's record never goes back to an earlier attempt (advisory A1).
RecordsAdvance ==
    [][\A t \in Tasks : disk.task[t] # None =>
        disk'.task[t] # None /\ disk'.task[t].epoch >= disk.task[t].epoch]_disk
=============================================================================
