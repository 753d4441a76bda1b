----------------------------- MODULE ApplyLock -----------------------------
(***************************************************************************)
(* The lock of one checkout under which hosts apply a delivery             *)
(* (acquire, src/delivery.ts): a directory made exclusively, then an owner *)
(* record renamed into it.  A lock whose recorded owner is abandoned is    *)
(* moved away and made again, and so is one without a readable owner that  *)
(* has not changed for the grace period.  An owner is abandoned when its   *)
(* process id is free, or is held by a process of another birth            *)
(* (src/process-identity.ts).  Hosts run concurrently and may die.         *)
(***************************************************************************)
EXTENDS Naturals

CONSTANTS
    Hosts,       \* host processes applying results to the checkout
    Births,      \* whether the platform tells a process's birth
    MaxCrashes,  \* bound on deaths
    MaxRuns,     \* applications of a host
    Retries      \* LOCK_RETRIES

NoHost == "nobody"

LockBounds ==
    /\ NoHost \notin Hosts /\ Births \in BOOLEAN /\ {MaxCrashes, MaxRuns} \subseteq Nat
    /\ Retries \in Nat \ {0}

VARIABLES
    lock,    \* the lock directory, its owner record and its age
    host,    \* each host's application
    pid,     \* whose process id is taken: "self", "free" or "stranger"
    runs,    \* applications each host has had the lock for
    left     \* deaths left

vars == <<lock, host, pid, runs, left>>

NoLock == [there |-> FALSE, owner |-> NoHost, aged |-> FALSE]
Calm == [at |-> "idle", tries |-> 0]

Init ==
    /\ lock = NoLock /\ runs = [h \in Hosts |-> 0]
    /\ host = [h \in Hosts |-> Calm] /\ pid = [h \in Hosts |-> "self"]
    /\ left = MaxCrashes

Goto(h, at) == host' = [host EXCEPT ![h].at = at]

-----------------------------------------------------------------------------
(* An application of a delivery begins, after an earlier one returned.     *)
Begin(h) ==
    /\ host[h].at = "idle" /\ pid[h] = "self" /\ runs[h] < MaxRuns
    /\ host' = [host EXCEPT ![h] = [Calm EXCEPT !.at = "make"]]
    /\ UNCHANGED <<lock, pid, runs, left>>

(* mkdir: exclusive.                                                       *)
Make(h) ==
    /\ host[h].at = "make"
    /\ IF lock = NoLock
       THEN lock' = [NoLock EXCEPT !.there = TRUE] /\ Goto(h, "own")
       ELSE Goto(h, "ask") /\ UNCHANGED lock
    /\ UNCHANGED <<pid, runs, left>>

(* ownerAbandoned: a live process id keeps its lock unless both births are *)
(* known and differ.                                                       *)
Abandoned(o) == pid[o] = "free" \/ (pid[o] = "stranger" /\ Births)

(* lockHolder: why the lock may not be taken over yet.                     *)
Held ==
    /\ lock # NoLock
    /\ IF lock.owner # NoHost THEN ~Abandoned(lock.owner) ELSE ~lock.aged

Ask(h) ==
    /\ host[h].at = "ask"
    /\ IF Held \/ host[h].tries >= Retries - 1 THEN host' = [host EXCEPT ![h] = Calm]
                                               ELSE Goto(h, "reclaim")
    /\ UNCHANGED <<lock, pid, runs, left>>

(* The rename that moves the lock away takes whatever lock is there.       *)
Reclaim(h) ==
    /\ host[h].at = "reclaim" /\ lock' = NoLock
    /\ host' = [host EXCEPT ![h].at = "make", ![h].tries = @ + 1]
    /\ UNCHANGED <<pid, runs, left>>

(* The owner record is renamed into the directory of that name; without    *)
(* one the rename fails and the application with it.                       *)
Own(h) ==
    /\ host[h].at = "own"
    /\ IF lock # NoLock
       THEN /\ lock' = [lock EXCEPT !.owner = h, !.aged = FALSE]
            /\ Goto(h, "apply") /\ runs' = [runs EXCEPT ![h] = @ + 1]
       ELSE Goto(h, "idle") /\ UNCHANGED <<lock, runs>>
    /\ UNCHANGED <<pid, left>>

(* Release removes the directory of that name.                             *)
Release(h) ==
    /\ host[h].at = "apply" /\ lock' = NoLock /\ host' = [host EXCEPT ![h] = Calm]
    /\ UNCHANGED <<pid, runs, left>>

(* A host dies; its process id is free, or given to another process.       *)
Die(h) ==
    /\ pid[h] = "self" /\ left > 0 /\ left' = left - 1
    /\ pid' = [pid EXCEPT ![h] = "free"] /\ host' = [host EXCEPT ![h] = Calm]
    /\ UNCHANGED <<lock, runs>>
Recycle(h) ==
    /\ pid[h] = "free" /\ pid' = [pid EXCEPT ![h] = "stranger"]
    /\ UNCHANGED <<lock, host, runs, left>>

(* The grace period runs out on a lock without an owner record: a live     *)
(* host takes less between its two steps, so the maker is dead.            *)
Age ==
    /\ lock.there /\ lock.owner = NoHost /\ ~lock.aged
    /\ \A h \in Hosts : host[h].at # "own"
    /\ lock' = [lock EXCEPT !.aged = TRUE]
    /\ UNCHANGED <<host, pid, runs, left>>

Step(h) == Make(h) \/ Ask(h) \/ Reclaim(h) \/ Own(h) \/ Release(h)
Next == Age \/ \E h \in Hosts : Begin(h) \/ Step(h) \/ Die(h) \/ Recycle(h)

Spec == Init /\ [][Next]_vars

(* A live host's application proceeds and is tried again after a refusal;  *)
(* time passes.                                                            *)
FairSpec == Spec /\ WF_vars(Age) /\ \A h \in Hosts : WF_vars(Step(h)) /\ WF_vars(Begin(h))

-----------------------------------------------------------------------------
(* The lock names a host only once a host owned it.                        *)
TypeOK ==
    /\ lock.there \in BOOLEAN /\ lock.owner \in Hosts \cup {NoHost} /\ lock.aged \in BOOLEAN
    /\ runs \in [Hosts -> 0..MaxRuns]
    /\ \A h \in Hosts : host[h].at \in {"idle", "make", "ask", "reclaim", "own", "apply"}
    /\ (lock.owner # NoHost \/ lock.aged) => lock.there

(* docs/operations.md says one application runs per checkout at a time:    *)
(* the host that holds the lock, with its record written or not yet, is    *)
(* the only one past mkdir (acquire).                                      *)
OneApplier == \A h, o \in Hosts : host[h].at = "apply" /\ host[o].at = "apply" => h = o

(* A lock left behind by a dead host, recorded or not, recycled or not,    *)
(* never keeps a live host from applying for good (lockHolder,             *)
(* ownerAbandoned).                                                        *)
EachApplies ==
    \A h \in Hosts : (pid[h] = "self") ~> (runs[h] > 0 \/ pid[h] # "self")
=============================================================================
