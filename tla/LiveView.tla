----------------------------- MODULE LiveView -----------------------------
(***************************************************************************)
(* How a pane follows the store: the revision and the bounded change log a *)
(* transaction writes (SwarmStore), the watch that waits for a visible     *)
(* change (waitForStateChange), the answer composed from the log (the web  *)
(* API's `state' and `watch'), and the pane's merge of it (SwarmMonitor).  *)
(*                                                                         *)
(* A scope is an owner session, whose drafts and requests it stands for,   *)
(* or a mission.  The contents of a scope are the number of the commit     *)
(* that wrote it last; 0 is a mission that does not exist.                 *)
(***************************************************************************)
EXTENDS Naturals, FiniteSets

CONSTANTS
    Owners, Missions,
    OwnerOf,      \* the session that owns each mission
    MaxCommits,   \* bound: commits
    Bounds        \* bounds a behaviour may have: CHANGE_HISTORY, whether the owner restores
                  \* a snapshot of the store, lost requests, acts of the user

LiveViewConstants ==
    /\ Owners \cap Missions = {}
    /\ OwnerOf \in [Missions -> Owners]
    /\ MaxCommits \in Nat
    /\ Bounds \subseteq [history : Nat \ {0}, restores : BOOLEAN, faults : Nat, moves : Nat]

VARIABLES
    store,    \* revision, the change log and the contents of each scope
    saved,    \* a snapshot of the store
    wire,     \* the requests the host has, with their answers
    pane,     \* the monitor
    commits,  \* the commits made
    left      \* the history kept, and what may still happen

vars == <<store, saved, wire, pane, commits, left>>

Scopes == Owners \cup Missions

NoData == [rev |-> 0, rows |-> [s \in Scopes |-> 0]]

EmptyStore == [rev |-> 0, log |-> {}, rows |-> [s \in Scopes |-> 0], last |-> [s \in Scopes |-> 0]]

Init ==
    /\ store = EmptyStore /\ saved = EmptyStore
    /\ wire = {}
    /\ pane \in {[owner |-> o, active |-> TRUE, data |-> NoData, has |-> FALSE,
                  pending |-> 0, full |-> FALSE] : o \in {OwnerOf[m] : m \in Missions}}
    /\ commits = 0 /\ left \in Bounds

ScopeRows == [Scopes -> 0 .. MaxCommits]

TypeOK ==
    /\ store.rev \in 0 .. MaxCommits /\ store.rows \in ScopeRows /\ Cardinality(store.log) <= left.history
    /\ pane.owner \in Owners /\ pane.pending \in 0 .. 2 /\ pane.data.rows \in ScopeRows
    /\ Cardinality({r.id : r \in wire}) = Cardinality(wire)
-----------------------------------------------------------------------------
Visible(o) == {m \in Missions : OwnerOf[m] = o /\ store.rows[m] # 0}

Allowed(o) == {o} \cup Visible(o)

\* changesSince: a cursor before the first revision kept needs a fresh snapshot.
Replayable(after) ==
    after <= store.rev /\ (after = store.rev \/ \E c \in store.log : c.rev <= after + 1)

ChangedSince(after) == UNION {c.scopes : c \in {k \in store.log : k.rev > after}}

\* Mutant: a watch is woken by its session's scope alone.
InspectSession(w) ==
    IF w.phase # "waiting" THEN w
    ELSE IF ~Replayable(w.cursor) \/ w.owner \in ChangedSince(w.cursor)
      THEN [w EXCEPT !.phase = "done"]
      ELSE [w EXCEPT !.cursor = store.rev]

\* waitForStateChange's inspection, at the subscription and after every commit.
Inspect(w) ==
    IF w.phase # "waiting" THEN w
    ELSE IF ~Replayable(w.cursor) \/ ChangedSince(w.cursor) \cap Allowed(w.owner) # {}
      THEN [w EXCEPT !.phase = "done"]
      ELSE [w EXCEPT !.cursor = store.rev]

\* A transaction that changed rows: the next revision, the scopes it touched, the log
\* pruned to its history; then the subscribers are told.
Commit(scopes) ==
    /\ commits < MaxCommits
    /\ LET n == store.rev + 1 IN
        store' = [rev |-> n,
                  log |-> {c \in store.log : c.rev + left.history > n} \cup {[rev |-> n, scopes |-> scopes]},
                  rows |-> [s \in Scopes |-> IF s \in scopes THEN commits + 1 ELSE store.rows[s]],
                  last |-> [s \in Scopes |-> IF s \in scopes THEN n ELSE store.last[s]]]
    /\ wire' = {Inspect(w)' : w \in wire}
    /\ commits' = commits + 1
    /\ UNCHANGED <<saved, pane, left>>

\* A mission's own row touches its owner's scope too; it exists from that write on.
WriteMission(m) == Commit({m, OwnerOf[m]})
WriteTask(m) == store.rows[m] # 0 /\ Commit({m})
WriteDraft(o) == Commit({o})

Snapshot ==
    /\ left.restores /\ saved.rev = 0 /\ store.rev # 0
    /\ saved' = store
    /\ UNCHANGED <<store, wire, pane, commits, left>>

Spend(what) == left[what] > 0 /\ left' = [left EXCEPT ![what] = @ - 1]

\* The pane's request fails; it keeps its view and asks again.
Failed == pane' = [pane EXCEPT !.pending = 0]

\* The host restarts on the restored snapshot: every request to it fails.
Restore ==
    /\ left.restores /\ saved.rev # 0 /\ store # saved
    /\ store' = saved /\ saved' = EmptyStore
    /\ wire' = {} /\ Failed
    /\ UNCHANGED <<commits, left>>
-----------------------------------------------------------------------------
\* Request: one at a time, the one before is aborted and its answer ignored.
Ask(kind) ==
    \E id \in {1, 2} \ {r.id : r \in wire} :
        /\ wire' = wire \cup {[id |-> id, owner |-> pane.owner, kind |-> kind, after |-> pane.data.rev,
                              cursor |-> pane.data.rev, phase |-> "sent", answer |-> NoData, shown |-> {}]}
        /\ pane' = [pane EXCEPT !.pending = id]

\* SwarmMonitor.read on its timer: a watch once it holds a state, unless an answer was
\* refused, then the whole state.
Read ==
    /\ pane.active /\ pane.pending = 0
    /\ Ask(IF pane.has /\ ~pane.full THEN "watch" ELSE "state")
    /\ UNCHANGED <<store, saved, commits, left>>

\* The host takes the request: a watch subscribes and inspects at once.
Receive(w) ==
    /\ w.phase = "sent"
    /\ wire' = (wire \ {w}) \cup
        {IF w.kind = "state" THEN [w EXCEPT !.phase = "done"] ELSE Inspect([w EXCEPT !.phase = "waiting"])}
    /\ UNCHANGED <<store, saved, pane, commits, left>>

\* waitMs passes, or the owner's agent comes or goes.
Wake(w) ==
    /\ w.phase = "waiting"
    /\ wire' = (wire \ {w}) \cup {[w EXCEPT !.phase = "done"]}
    /\ UNCHANGED <<store, saved, pane, commits, left>>

Sent(w, kind, scopes) ==
    [w EXCEPT !.phase = "answered", !.kind = kind, !.shown = Visible(w.owner),
              !.answer = [rev |-> store.rev, rows |-> [s \in Scopes |-> IF s \in scopes THEN store.rows[s] ELSE 0]]]

\* The answer is composed now: the whole state, the changed missions beside the
\* session's own rows, or a heartbeat.
Answer(w) ==
    /\ w.phase = "done"
    /\ LET changed == ChangedSince(w.after) \cap Allowed(w.owner)
           answer == IF w.kind = "state" \/ ~Replayable(w.after) THEN Sent(w, "snapshot", Allowed(w.owner))
                     ELSE IF changed = {} THEN Sent(w, "heartbeat", {})
                     ELSE Sent(w, "delta", changed \cup {w.owner})
       IN wire' = (wire \ {w}) \cup {answer}
    /\ UNCHANGED <<store, saved, pane, commits, left>>

\* mergeUpdate: a delta replaces the missions it carries and drops those no longer
\* visible; one that is older than the view, or lacks a mission, is refused.
Accepted(w) ==
    \/ w.kind = "snapshot"
    \/ /\ w.answer.rev >= pane.data.rev
       /\ w.kind = "delta" => \A m \in w.shown : w.answer.rows[m] # 0 \/ pane.data.rows[m] # 0

Merged(w) ==
    CASE w.kind = "snapshot" -> w.answer
      [] w.kind = "heartbeat" -> [pane.data EXCEPT !.rev = w.answer.rev]
      [] w.kind = "delta" ->
            [rev |-> w.answer.rev,
             rows |-> [s \in Scopes |->
                IF s \in Missions \ w.shown THEN 0
                ELSE IF w.answer.rows[s] # 0 \/ s = w.owner THEN w.answer.rows[s] ELSE pane.data.rows[s]]]

Deliver(w) ==
    /\ w.phase = "answered"
    /\ wire' = wire \ {w}
    /\ pane' = CASE pane.pending # w.id -> pane
                 [] pane.pending = w.id /\ Accepted(w) ->
                        [pane EXCEPT !.data = Merged(w), !.has = TRUE, !.pending = 0, !.full = FALSE]
                 [] OTHER -> [pane EXCEPT !.pending = 0, !.full = TRUE]
    /\ UNCHANGED <<store, saved, commits, left>>

\* The request or its answer is lost, or 30 seconds pass.
Lose(w) ==
    /\ Spend("faults")
    /\ wire' = wire \ {w}
    /\ IF pane.pending = w.id THEN Failed ELSE UNCHANGED pane
    /\ UNCHANGED <<store, saved, commits>>

\* The user looks at another session: a new generation, nothing of the old one kept.
Select(o) ==
    /\ o # pane.owner /\ Spend("moves")
    /\ pane' = [pane EXCEPT !.owner = o, !.data = NoData, !.has = FALSE, !.pending = 0, !.full = FALSE]
    /\ UNCHANGED <<store, saved, wire, commits>>

\* A hidden pane keeps its data and stops asking; shown again, it reads the whole state.
Hide ==
    /\ pane.active /\ Spend("moves")
    /\ pane' = [pane EXCEPT !.active = FALSE, !.pending = 0]
    /\ UNCHANGED <<store, saved, wire, commits>>

Show ==
    /\ ~pane.active
    /\ \E id \in {1, 2} \ {r.id : r \in wire} :
        /\ wire' = wire \cup {[id |-> id, owner |-> pane.owner, kind |-> "state", after |-> pane.data.rev,
                              cursor |-> pane.data.rev, phase |-> "sent", answer |-> NoData, shown |-> {}]}
        /\ pane' = [pane EXCEPT !.active = TRUE, !.pending = id]
    /\ UNCHANGED <<store, saved, commits, left>>

Host == \E w \in wire : Receive(w) \/ Wake(w) \/ Answer(w) \/ Deliver(w)

Next ==
    \/ \E m \in Missions : WriteMission(m) \/ WriteTask(m)
    \/ \E o \in Owners : WriteDraft(o) \/ Select(o)
    \/ Snapshot \/ Restore
    \/ Read \/ Host \/ Hide \/ Show
    \/ \E w \in wire : Lose(w)

Spec == Init /\ [][Next]_vars

\* The monitor's timer fires, the host works off its requests and a watch ends.
FairSpec == Spec /\ WF_vars(Read) /\ WF_vars(Show) /\ WF_vars(Host)
-----------------------------------------------------------------------------
\* A pane shows its own session and, of every scope not written since the revision it
\* claims, the contents of the store: a delta after a pruned log, a lost answer or
\* a burst of commits between two watches leaves no mission behind.
ViewCurrent ==
    pane.has => /\ \A s \in Scopes : pane.data.rows[s] # 0 => s = pane.owner \/ (s \in Missions /\ OwnerOf[s] = pane.owner)
                /\ \A s \in Allowed(pane.owner) :
                    store.last[s] <= pane.data.rev => pane.data.rows[s] = store.rows[s]

\* "A commit cannot fall between baseline and wait": no watch sleeps over a change its
\* session may see.
WatchesWake ==
    \A w \in wire : w.phase = "waiting" => \A s \in Allowed(w.owner) : store.last[s] <= w.after

\* A pane that stays on screen catches up with the store, and so does one shown again.
Current == pane.has /\ \A s \in Allowed(pane.owner) : pane.data.rows[s] = store.rows[s]
CatchesUp == []<>Current
=============================================================================
