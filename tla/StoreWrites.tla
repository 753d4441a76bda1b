---------------------------- MODULE StoreWrites ----------------------------
(***************************************************************************)
(* How a row is written: the transaction that is one writer's commit, the  *)
(* compare-and-swap every task row goes through (SwarmStore.putTask), the  *)
(* durable record of a refused write, and the transition that re-reads its *)
(* row inside the commit (SwarmRuntime.revise).                            *)
(*                                                                         *)
(* A row is which updates it holds: a writer that has read it adds one of  *)
(* its own to what it read and writes the whole row back.  Between the     *)
(* read and the commit a writer may have awaited anything.                 *)
(***************************************************************************)
EXTENDS Naturals, FiniteSets

CONSTANTS
    Writers, Rows,
    MaxWrites,  \* bound: updates, one number each
    MaxBusy     \* bound: times another connection holds SQLite's write lock too long

ASSUME StoreWritesConstants == {MaxWrites, MaxBusy} \subseteq Nat

VARIABLES
    row,       \* the durable rows
    copy,      \* per writer, the copies it read and has not written
    revision,  \* the state's revision
    log,       \* the refusal events, one per refused write
    updates,   \* how many updates were tried
    busy,
    accepted,  \* ghost: the updates whose transaction committed, per row
    refused,   \* ghost: the updates a compare-and-swap turned away
    unlogged   \* ghost: refusals whose own record found the writer busy

vars == <<row, copy, revision, log, updates, busy, accepted, refused, unlogged>>

Updates == 1 .. MaxWrites

Row == [rev : 0 .. MaxWrites, holds : SUBSET Updates]

\* A writer that holds no copy of a row.
Unread == [rev |-> 0, holds |-> {0}]

Init ==
    /\ row = [r \in Rows |-> [rev |-> 0, holds |-> {}]]
    /\ copy = [w \in Writers |-> [r \in Rows |-> Unread]]
    /\ revision = 0 /\ log = {} /\ updates = 0 /\ busy = 0
    /\ accepted = [r \in Rows |-> {}]
    /\ refused = {} /\ unlogged = {}

TypeOK ==
    /\ row \in [Rows -> Row]
    /\ copy \in [Writers -> [Rows -> Row \cup {Unread}]]
    /\ revision \in 0 .. MaxWrites /\ log \subseteq Updates /\ updates \in 0 .. MaxWrites
-----------------------------------------------------------------------------
Held(w) == {r \in Rows : copy[w][r] # Unread}

Read(w, r) ==
    /\ copy[w][r] # row[r]
    /\ copy' = [copy EXCEPT ![w][r] = row[r]]
    /\ UNCHANGED <<row, revision, log, updates, busy, accepted, refused, unlogged>>

\* Mutant: no revision is compared.
CurrentAlways(w, r) == TRUE

\* putTask: the presented revision is the durable one.
Current(w, r) == copy[w][r].rev = row[r].rev

\* An accepted write stamps the next revision.
Put(before, n) == [rev |-> before.rev + 1, holds |-> before.holds \cup {n}]

\* The body's writes and the refusals it caught are one commit and one revision.
Commit(w, fresh, stale, n) ==
    /\ row' = [r \in Rows |-> IF r \in fresh THEN Put(copy[w][r], n) ELSE row[r]]
    /\ accepted' = [r \in Rows |-> IF r \in fresh THEN accepted[r] \cup {n} ELSE accepted[r]]
    /\ log' = IF stale = {} THEN log ELSE log \cup {n}
    /\ revision' = revision + 1
    /\ UNCHANGED unlogged

\* The rollback erases the writes; the refusal is committed on its own, best effort.
Rollback(stale, n) ==
    /\ UNCHANGED <<row, accepted>>
    /\ IF stale = {} THEN UNCHANGED <<revision, log, unlogged>>
       ELSE \/ log' = log \cup {n} /\ revision' = revision + 1 /\ UNCHANGED unlogged
            \/ busy < MaxBusy /\ unlogged' = unlogged \cup {n} /\ UNCHANGED <<revision, log>>

\* One transaction that writes the copies of some rows.  The body may catch a refused
\* write and commit the rest, or let it end the transaction; a writer that stays busy
\* ends it before the body or at the commit.  The call is over either way, and its
\* copies with it.
Transact(w) ==
    /\ updates < MaxWrites
    /\ \E touched \in SUBSET Held(w) \ {{}} :
        LET n == updates + 1
            fresh == {r \in touched : Current(w, r)}
            stale == touched \ fresh
        IN /\ updates' = n
           /\ copy' = [copy EXCEPT ![w] = [r \in Rows |-> IF r \in touched THEN Unread ELSE @[r]]]
           /\ \/ /\ Commit(w, fresh, stale, n)
                 /\ refused' = IF stale = {} THEN refused ELSE refused \cup {n}
                 /\ UNCHANGED busy
              \/ /\ stale # {}
                 /\ Rollback(stale, n)
                 /\ refused' = refused \cup {n}
                 /\ busy' = IF unlogged' = unlogged THEN busy ELSE busy + 1
              \/ /\ busy < MaxBusy /\ busy' = busy + 1     \* at the commit
                 /\ \E kept \in {{}, stale} :
                        Rollback(kept, n) /\ refused' = IF kept = {} THEN refused ELSE refused \cup {n}

\* revise: the row is read in the commit that writes it, so its fence judges that row;
\* one it refuses, or finds moot, abandons the transaction.
Revise(w, r) ==
    /\ updates < MaxWrites /\ copy[w][r] # Unread
    /\ updates' = updates + 1
    /\ copy' = [copy EXCEPT ![w][r] = Unread]
    /\ \/ UNCHANGED <<row, accepted, revision>>
       \/ /\ row' = [row EXCEPT ![r] = Put(@, updates + 1)]
          /\ accepted' = [accepted EXCEPT ![r] = @ \cup {updates + 1}]
          /\ revision' = revision + 1
    /\ UNCHANGED <<log, busy, refused, unlogged>>

Next == \E w \in Writers : Transact(w) \/ \E r \in Rows : Read(w, r) \/ Revise(w, r)

Spec == Init /\ [][Next]_vars
-----------------------------------------------------------------------------
\* No lost update: a row holds every update whose write was accepted, whatever its
\* writers had read and however long they awaited.
NoLostUpdate == \A r \in Rows : row[r].holds = accepted[r]

\* "The rollback erased the refused write, not the evidence of it": every refused write
\* is in the log once its call is over, unless its record found the writer busy too.
RefusalsKept == refused = log \cup unlogged
=============================================================================
