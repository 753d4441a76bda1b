--------------------------- MODULE DeliveryApply ---------------------------
(***************************************************************************)
(* Applying an accepted delivery to the owner's checkout (applyDelivery of *)
(* src/delivery.ts and src/runtime.ts): a three-way merge of every changed *)
(* path is planned first, the whole plan is checked against the files      *)
(* again, then each file is moved aside, published by an exclusive link    *)
(* and checked; a receipt records the outcome before the copies are        *)
(* removed.  Any failure rolls the written files back, newest first.  The  *)
(* owner edits the same files throughout, the call may be cancelled, and   *)
(* the host may die; ApplyLock keeps a second application out.             *)
(*                                                                         *)
(* A file is an inode and its content, the set of contributions in it: the *)
(* snapshot's, the result's, and one per edit of the owner.  Several reads *)
(* that write nothing are one step.                                        *)
(***************************************************************************)
EXTENDS Integers, FiniteSets

CONSTANTS
    NP,           \* paths 1..NP the delivery changes, in the order of the diff
    MaxEdits,     \* bound on what the owner does to the files
    MaxApplies,   \* applications begun
    MaxCrashes,   \* bound on deaths of the host
    OpenEditors   \* whether an editor writes through a file it opened before

ApplyBounds ==
    /\ NP \in Nat \ {0}
    /\ {MaxEdits, MaxApplies, MaxCrashes} \subseteq Nat /\ OpenEditors \in BOOLEAN

Paths == 1..NP
Absent == [ino |-> 0, has |-> {}]
Snapshot == -1                 \* the contributions of the snapshot
Swarm == -2                    \* and of the result
Conflict == {0}                \* no content: what a merge that conflicts gives

VARIABLES
    diff,      \* the paths the delivery adds and removes: it changes the others
    file,      \* the checkout
    backup,    \* originals moved aside by this application
    aside,     \* a published file moved aside by its rollback
    copies,    \* copies left in the checkout by rollbacks and deaths
    receipt,   \* the receipt on disk
    app,       \* the application
    applied,   \* the mission row's appliedDelivery
    fresh,     \* inodes made so far
    edits,     \* what the owner did so far
    alive,     \* history: edits the owner has not deleted since
    touched,   \* history: paths the owner touched during the application
    before,    \* history: the files when it began
    left       \* applications and deaths left

vars == <<diff, file, backup, aside, copies, receipt, app, applied, fresh, edits, alive,
          touched, before, left>>
owners == <<edits, alive, touched>>

Base(p) == IF p \in diff.added THEN {} ELSE {Snapshot}
Result(p) == IF p \in diff.removed THEN {} ELSE Base(p) \cup {Swarm}

Idle == [at |-> "idle", path |-> 0, hit |-> FALSE, plan |-> [p \in Paths |-> Absent],
         read |-> [p \in Paths |-> Absent], published |-> [p \in Paths |-> Absent],
         written |-> {}, kept |-> {}, end |-> "none"]

Init ==
    /\ diff \in [added : SUBSET Paths, removed : SUBSET Paths] /\ diff.added \cap diff.removed = {}
    /\ file = [p \in Paths |-> IF Base(p) = {} THEN Absent ELSE [ino |-> p, has |-> Base(p)]]
    /\ backup = [p \in Paths |-> Absent] /\ aside = Absent /\ copies = {}
    /\ receipt = <<>> /\ app = Idle /\ applied = FALSE
    /\ fresh = NP /\ edits = 0 /\ alive = {} /\ touched = {} /\ before = file
    /\ left = [applies |-> MaxApplies, crashes |-> MaxCrashes]

-----------------------------------------------------------------------------
(* The plan.                                                               *)

(* applyDelivery of the runtime: the owner's completed mission, one call   *)
(* per workspace at a time.                                                *)
Begin ==
    /\ app.at = "idle" /\ left.applies > 0 /\ left' = [left EXCEPT !.applies = @ - 1]
    /\ app' = [Idle EXCEPT !.at = "receipt"] /\ touched' = {} /\ before' = file
    /\ UNCHANGED <<file, backup, aside, copies, receipt, applied, fresh, edits, alive>>

Quiet == UNCHANGED <<file, backup, aside, copies, receipt, applied, fresh, owners, before, left>>

(* A receipt is a hint: the recorded files must still be there.            *)
ReadReceipt ==
    /\ app.at = "receipt"
    /\ app' = IF receipt # <<>> /\ receipt = file
              THEN [app EXCEPT !.at = "done", !.end = "applied"]
              ELSE [app EXCEPT !.at = "plan", !.hit = receipt # <<>>]
    /\ Quiet

(* mergeEntry: what the merge of one path may give.                       *)
Merged(p) ==
    LET cur == file[p].has IN
    IF cur = Result(p) \/ Base(p) = Result(p) THEN {cur}
    ELSE IF cur = Base(p) THEN {Result(p)}
    ELSE IF {} \in {cur, Base(p), Result(p)} THEN {Conflict}
    ELSE {cur \cup Result(p), Conflict}

(* The plan of one application: after a recorded one, a conflicting path   *)
(* keeps the owner's work, and is written again only when it is gone.      *)
Plan ==
    /\ app.at = "plan"
    /\ \E m \in [Paths -> UNION {Merged(p) : p \in Paths}] :
        /\ \A p \in Paths : m[p] \in Merged(p)
        /\ LET clash == {p \in Paths : m[p] = Conflict}
               again == {p \in clash : file[p] = Absent /\ Result(p) # {}}
               Out(p) == IF p \in again THEN Result(p)
                         ELSE IF p \in clash THEN file[p].has ELSE m[p]
           IN  app' = IF clash # {} /\ ~app.hit
                      THEN [app EXCEPT !.at = "done", !.end = "conflicts"]
                      ELSE [app EXCEPT !.at = "check", !.read = file,
                               !.plan = [p \in Paths |-> [ino |-> 0, has |-> Out(p)]],
                               !.kept = clash \ again]
    /\ Quiet

Changes == {p \in Paths : app.read[p].has # app.plan[p].has}

(* The whole write set is compared with the files before the first write.  *)
Check ==
    /\ app.at = "check"
    /\ app' = IF \E p \in Changes : file[p] # app.read[p]
              THEN [app EXCEPT !.at = "done", !.end = "failed"]
              ELSE [app EXCEPT !.at = "next"]
    /\ Quiet

-----------------------------------------------------------------------------
(* The writes, one path after another.                                     *)

Fail == [app EXCEPT !.at = "undo"]

(* The next change, or the final check; the call may be cancelled here.    *)
NextChange ==
    /\ app.at = "next"
    /\ LET todo == Changes \ app.written IN
       \/ todo = {} /\ app' = [app EXCEPT !.at = "verify"]
       \/ \E p \in todo : (\A q \in todo : p <= q) /\ app' = [app EXCEPT !.at = "stage", !.path = p]
    /\ Quiet
Cancel == app.at \in {"next", "verify"} /\ app' = Fail /\ Quiet

Stage ==
    /\ app.at = "stage"
    /\ app' = IF file[app.path] # app.read[app.path] THEN Fail
              ELSE [app EXCEPT !.at = "move", !.written = @ \cup {app.path}]
    /\ Quiet

(* The original is moved aside, whatever it is by now; a file that         *)
(* vanished fails the move.                                                *)
Move ==
    LET p == app.path IN
    /\ app.at = "move"
    /\ IF app.read[p] = Absent
       THEN app' = [app EXCEPT !.at = "publish"] /\ UNCHANGED <<file, backup>>
       ELSE IF file[p] = Absent THEN app' = Fail /\ UNCHANGED <<file, backup>>
       ELSE /\ backup' = [backup EXCEPT ![p] = file[p]] /\ file' = [file EXCEPT ![p] = Absent]
            /\ app' = [app EXCEPT !.at = "moved"]
    /\ UNCHANGED <<aside, copies, receipt, applied, fresh, owners, before, left>>

Moved ==
    /\ app.at = "moved"
    /\ app' = IF backup[app.path] # app.read[app.path] THEN Fail
              ELSE [app EXCEPT !.at = "publish"]
    /\ Quiet

(* The link is exclusive: a file that appeared meanwhile is not replaced.  *)
\* Mutant: the result is published by a rename that replaces.
PublishOver ==
    LET p == app.path IN
    /\ app.at = "publish"
    /\ IF app.plan[p].has = {}
       THEN app' = [app EXCEPT !.at = "next"] /\ UNCHANGED <<file, fresh>>
       ELSE /\ fresh' = fresh + 1
            /\ file' = [file EXCEPT ![p] = [ino |-> fresh + 1, has |-> app.plan[p].has]]
            /\ app' = [app EXCEPT !.at = "published"]
    /\ UNCHANGED <<backup, aside, copies, receipt, applied, owners, before, left>>
Publish ==
    LET p == app.path IN
    /\ app.at = "publish"
    /\ IF app.plan[p].has = {}
       THEN app' = [app EXCEPT !.at = "next"] /\ UNCHANGED <<file, fresh>>
       ELSE IF file[p] # Absent THEN app' = Fail /\ UNCHANGED <<file, fresh>>
       ELSE /\ fresh' = fresh + 1
            /\ file' = [file EXCEPT ![p] = [ino |-> fresh + 1, has |-> app.plan[p].has]]
            /\ app' = [app EXCEPT !.at = "published"]
    /\ UNCHANGED <<backup, aside, copies, receipt, applied, owners, before, left>>

Published ==
    LET p == app.path IN
    /\ app.at = "published"
    /\ app' = IF file[p].has # app.plan[p].has THEN Fail
              ELSE [app EXCEPT !.at = "next", !.published[p] = file[p]]
    /\ Quiet

(* Every written file and every original moved aside is looked at again.   *)
Verify ==
    /\ app.at = "verify"
    /\ app' = IF \A p \in app.written :
                    /\ file[p] = app.published[p]
                    /\ backup[p] # Absent => backup[p].has = app.read[p].has
              THEN [app EXCEPT !.at = "record"] ELSE Fail
    /\ Quiet

(* The receipt records the files as they are now.                          *)
Record ==
    /\ app.at = "record" /\ receipt' = file /\ app' = [app EXCEPT !.at = "clean"]
    /\ UNCHANGED <<file, backup, aside, copies, applied, fresh, owners, before, left>>

Clean ==
    /\ app.at = "clean" /\ backup' = [p \in Paths |-> Absent]
    /\ app' = [app EXCEPT !.at = "done", !.end = "applied"]
    /\ UNCHANGED <<file, aside, copies, receipt, applied, fresh, owners, before, left>>

-----------------------------------------------------------------------------
(* The rollback, newest first.                                             *)

Dealt(p) == [app EXCEPT !.written = @ \ {p}, !.at = "undo"]
Kept(p) == copies' = IF backup[p] = Absent THEN copies ELSE copies \cup {backup[p]}
Forget(p) == backup' = [backup EXCEPT ![p] = Absent]

(* A path that is still as published is moved aside; one the owner changed *)
(* keeps the change, and the original stays beside it as a copy; one that  *)
(* is gone takes its original back.                                        *)
Undo ==
    /\ app.at = "undo"
    /\ \/ app.written = {} /\ app' = [app EXCEPT !.at = "done", !.end = "failed"] /\ Quiet
       \/ \E p \in app.written :
            /\ \A q \in app.written : q <= p
            /\ IF app.published[p] # Absent /\ file[p] = app.published[p]
               THEN app' = [app EXCEPT !.at = "displace", !.path = p] /\ UNCHANGED <<copies, backup>>
               ELSE IF file[p] # Absent THEN app' = Dealt(p) /\ Kept(p) /\ Forget(p)
               ELSE app' = [app EXCEPT !.at = "restore", !.path = p] /\ UNCHANGED <<copies, backup>>
            /\ UNCHANGED <<file, aside, receipt, applied, fresh, owners, before, left>>

Displace ==
    LET p == app.path IN
    /\ app.at = "displace"
    /\ IF file[p] = Absent
       THEN app' = Dealt(p) /\ Kept(p) /\ Forget(p) /\ UNCHANGED <<file, aside>>
       ELSE /\ aside' = file[p] /\ file' = [file EXCEPT ![p] = Absent]
            /\ app' = [app EXCEPT !.at = "displaced"] /\ UNCHANGED <<copies, backup>>
    /\ UNCHANGED <<receipt, applied, fresh, owners, before, left>>

(* What was moved aside is looked at; a change goes back, or stays a copy. *)
Displaced ==
    LET p == app.path IN
    /\ app.at = "displaced"
    /\ IF aside = app.published[p]
       THEN app' = [app EXCEPT !.at = "drop"] /\ UNCHANGED <<file, copies, backup, aside>>
       ELSE /\ IF file[p] = Absent
               THEN file' = [file EXCEPT ![p] = aside] /\ Kept(p)
               ELSE /\ copies' = copies \cup ({aside, backup[p]} \ {Absent}) /\ UNCHANGED file
            /\ aside' = Absent /\ Forget(p) /\ app' = Dealt(p)
    /\ UNCHANGED <<receipt, applied, fresh, owners, before, left>>
Drop ==
    /\ app.at = "drop" /\ aside' = Absent /\ app' = [app EXCEPT !.at = "restore"]
    /\ UNCHANGED <<file, backup, copies, receipt, applied, fresh, owners, before, left>>

(* The link of the original is exclusive too.                              *)
Restore ==
    LET p == app.path IN
    /\ app.at = "restore" /\ app' = Dealt(p) /\ Forget(p)
    /\ IF backup[p] # Absent /\ file[p] = Absent
       THEN file' = [file EXCEPT ![p] = backup[p]] /\ UNCHANGED copies
       ELSE Kept(p) /\ UNCHANGED file
    /\ UNCHANGED <<aside, receipt, applied, fresh, owners, before, left>>

-----------------------------------------------------------------------------
(* The end of the call: the mission row states what is in effect.          *)
Settle ==
    /\ app.at = "done" /\ app' = Idle
    /\ applied' = CASE app.end = "applied" -> TRUE
                    [] app.end = "conflicts" -> FALSE
                    [] OTHER -> applied
    /\ UNCHANGED <<file, backup, aside, copies, receipt, fresh, owners, before, left>>

(* The host dies: its files stay as they are, copies beside them.          *)
Die ==
    /\ app.at # "idle" /\ left.crashes > 0 /\ left' = [left EXCEPT !.crashes = @ - 1]
    /\ copies' = copies \cup (({backup[p] : p \in Paths} \cup {aside}) \ {Absent})
    /\ backup' = [p \in Paths |-> Absent] /\ aside' = Absent /\ app' = Idle
    /\ UNCHANGED <<file, receipt, applied, fresh, owners, before>>

-----------------------------------------------------------------------------
(* The owner.                                                              *)

Acts(p) == edits < MaxEdits /\ edits' = edits + 1 /\ touched' = touched \cup {p}
Elsewhere == UNCHANGED <<aside, copies, receipt, app, applied, before, left>>

(* A save writes into the file, or makes one; an editor may also replace   *)
(* it by a new one of its own.                                             *)
Save(p) ==
    /\ Acts(p) /\ alive' = alive \cup {edits'}
    /\ \/ /\ file[p] # Absent /\ file' = [file EXCEPT ![p].has = @ \cup {edits'}]
          /\ UNCHANGED fresh
       \/ /\ fresh' = fresh + 1
          /\ file' = [file EXCEPT ![p] = [ino |-> fresh + 1, has |-> @.has \cup {edits'}]]
    /\ UNCHANGED backup /\ Elsewhere

(* The owner discards what the path holds: it is gone, or as it was in the *)
(* snapshot again.                                                         *)
Discard(p) ==
    /\ file[p] # Absent /\ Acts(p) /\ alive' = alive \ file[p].has
    /\ \/ file' = [file EXCEPT ![p] = Absent] /\ UNCHANGED fresh
       \/ /\ Base(p) # {} /\ fresh' = fresh + 1
          /\ file' = [file EXCEPT ![p] = [ino |-> fresh + 1, has |-> Base(p)]]
    /\ UNCHANGED backup /\ Elsewhere

(* An editor saves into a file it opened before the application, or its    *)
(* rollback, moved it aside.                                               *)
SaveOpen(p) ==
    /\ OpenEditors /\ Acts(p) /\ alive' = alive \cup {edits'}
    /\ \/ /\ backup[p] # Absent /\ backup' = [backup EXCEPT ![p].has = @ \cup {edits'}]
          /\ UNCHANGED aside
       \/ /\ aside # Absent /\ aside' = [aside EXCEPT !.has = @ \cup {edits'}]
          /\ UNCHANGED backup
    /\ UNCHANGED <<file, fresh, copies, receipt, app, applied, before, left>>

Apply ==
    \/ ReadReceipt \/ Plan \/ Check \/ NextChange \/ Cancel \/ Stage \/ Move \/ Moved
    \/ Publish \/ Published \/ Verify \/ Record \/ Clean
    \/ Undo \/ Displace \/ Displaced \/ Drop \/ Restore \/ Settle
Next ==
    /\ Begin \/ Apply \/ Die \/ \E p \in Paths : Save(p) \/ Discard(p) \/ SaveOpen(p)
    /\ UNCHANGED diff

Spec == Init /\ [][Next]_vars

-----------------------------------------------------------------------------
(* The files are inodes of their own, and nothing is moved aside outside   *)
(* an application.                                                         *)
TypeOK ==
    /\ \A p \in Paths : (file[p].ino = 0) = (file[p].has = {})
    /\ \A p, q \in Paths : file[p].ino = file[q].ino => p = q \/ file[p] = Absent
    /\ app.at = "idle" => aside = Absent /\ \A p \in Paths : backup[p] = Absent
    /\ applied \in BOOLEAN /\ app.written \subseteq Paths /\ alive \subseteq 1..edits

(* Nothing the owner saved is lost to an application, whatever it raced,   *)
(* merged, rolled back or left behind by a death: until the owner deletes  *)
(* it, it is in the checkout, in a merged result or in a copy beside it,   *)
(* with editors that open a file by its path (applyDelivery, rollback,     *)
(* restoreExclusive).                                                      *)
Held == UNION {f.has : f \in {file[p] : p \in Paths} \cup copies
                              \cup {backup[p] : p \in Paths} \cup {aside}}
EditsSurvive == alive \subseteq Held

(* An application that conflicts or fails gives back every file the owner  *)
(* left alone: with its content, and with no other path half applied       *)
(* (rollback; delivery.test.mjs, any conflict prevents every source write). *)
FailureRestores ==
    (app.at = "done" /\ app.end \in {"conflicts", "failed"}) =>
        \A p \in Paths \ touched : file[p].has = before[p].has

(* An application that merged and reports success has brought every path   *)
(* the owner left alone to the result, short of those whose later work a   *)
(* repeated application keeps (applyDelivery).                             *)
SuccessIsWhole ==
    (app.at = "done" /\ app.end = "applied" /\ app.plan # Idle.plan) =>
        \A p \in Paths \ (touched \cup app.kept) :
            IF Result(p) = {} THEN file[p] = Absent ELSE Swarm \in file[p].has

(* The mission says applied only of a delivery whose receipt is on disk,   *)
(* through every failure, cancellation and death of a later application    *)
(* (applyDelivery of src/runtime.ts).                                      *)
AppliedOnReceipt == applied => receipt # <<>>

(* An edit saved through the open original before the last look stops the  *)
(* application: none is under the copies a success removes, unless it came *)
(* after that look (applyDelivery).                                        *)
OriginalsUnedited ==
    [][(app.at = "verify" /\ app'.at = "record") =>
        \A p \in app.written : backup[p] = Absent \/ backup[p].has = app.read[p].has]_vars

(* The comment of rollback says it preserves any edit that appeared after  *)
(* publication, edits racing the rollback included.                        *)
RollbackPreserves ==
    [][app.at \in {"undo", "displace", "displaced", "drop", "restore"}
        => alive' \cap Held \subseteq Held']_vars

(* The comment of the receipt says it records the exact applied state, so  *)
(* that a later call can tell a genuinely applied tree from a stale one: a *)
(* call that trusts it finds the result in every path.                     *)
ReceiptIsProof ==
    (app.at = "done" /\ app.end = "applied" /\ app.plan = Idle.plan) =>
        \A p \in Paths \ touched :
            IF Result(p) = {} THEN file[p] = Absent ELSE Swarm \in file[p].has
=============================================================================
