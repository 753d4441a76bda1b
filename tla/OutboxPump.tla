----------------------------- MODULE OutboxPump -----------------------------
(***************************************************************************)
(* The outbox pump of src/notices.ts: durable deliveries of every mission, *)
(* the requests that ask for a sweep, the deferred start they share, the   *)
(* pump that sweeps mission after mission, the successor that supersedes a *)
(* pump past its bound, and the scheduling body that flushes its own       *)
(* mission beside them.  An attempt at one delivery may be accepted,       *)
(* refused or never settle; the process may die at any point, which keeps  *)
(* the rows and loses the pump.                                            *)
(*                                                                         *)
(* A step runs from one await to the next: a flush reads the rows it meets *)
(* in one piece up to the first row it hands to the adapter.               *)
(***************************************************************************)
EXTENDS Naturals, FiniteSets

CONSTANTS
    NM,          \* missions 1..NM, in the order the store lists them
    NR,          \* deliveries of a mission, in the order the store lists them
    NP,          \* pumps alive at once
    Passes,      \* missions whose scheduling pass still runs and flushes
    Bounds       \* bounds a behaviour may have: the deliveries queued and their kinds,
                 \* what owners and members change under the pump, restarts

OutboxBounds ==
    /\ NM \in Nat \ {0} /\ NR \in Nat \ {0} /\ NP \in Nat \ {0}
    /\ Passes \subseteq 1..NM
    /\ Bounds \subseteq [rows : SUBSET ((1..NM) \X (1..NR)), kinds : SUBSET {"owner", "assignment"},
                         changes : Nat, crashes : Nat]

Missions == 1..NM
Rows == Missions \X (1..NR)
Pumps == 1..NP
Body == 0                      \* the scheduling body's own flush
Flushers == {Body} \cup Pumps
None == <<0, 0>>

VARIABLES
    row,         \* the deliveries ledger
    status,      \* what a mission's lifecycle lets the outbox send
    memberUp,    \* whether a mission's member can receive
    starved,     \* the mission row's outboxStarved
    pending,     \* pumpStartPending
    pump,        \* the current pump, 0 when there is none
    flush,       \* every flush in flight
    delivering,  \* deliveries claimed by an attempt
    owed,        \* history: rows requested and not looked at since
    budget       \* what is left of the bounds

vars == <<row, status, memberUp, starved, pending, pump, flush, delivering,
          owed, budget>>

NewRow == [state |-> "none", to |-> "owner", current |-> TRUE]
Idle == [live |-> FALSE, mission |-> 0, todo |-> {}, at |-> None, seen |-> <<None, 0>>,
         requested |-> FALSE, old |-> FALSE]
Calm == <<None, 0>>

Queued == {r \in Rows : row[r].state = "queued"}

(* An assignment whose task no longer holds its attempt is moot.           *)
Moot(r) == row[r].to = "assignment" /\ ~row[r].current

(* What the outbox may send now: an owner row while its fact is            *)
(* outstanding and the owner has not taken the mission out of play, a      *)
(* member's row while the mission runs.                                    *)
Sendable(r) ==
    /\ row[r].state = "queued"
    /\ ~Moot(r)
    /\ IF row[r].to = "owner" THEN row[r].current /\ status[r[1]] = "active"
                              ELSE status[r[1]] = "active"

(* Between two awaits nothing else runs: a flush that walks its rows goes  *)
(* on, across missions, until it waits for the adapter or ends.            *)
Walking(f) == flush[f].live /\ flush[f].at = None
AllAwait == \A f \in Flushers : ~Walking(f)

Gone(r) == Sendable(r) /\ row[r].to # "owner" /\ ~memberUp[r[1]]
Attemptable(r) == Sendable(r) /\ ~Gone(r) /\ r \notin delivering

Init ==
    /\ row = [r \in Rows |-> NewRow]
    /\ status = [m \in Missions |-> "active"]
    /\ memberUp = [m \in Missions |-> TRUE]
    /\ starved = [m \in Missions |-> Calm]
    /\ pending = FALSE
    /\ pump = 0
    /\ flush = [f \in Flushers |-> Idle]
    /\ delivering = {}
    /\ owed = {}
    /\ budget \in Bounds

-----------------------------------------------------------------------------
(* What the runtime and the owner do beside the pump. *)

Enqueue(r) ==
    /\ AllAwait
    /\ r \in budget.rows /\ row[r].state = "none"
    /\ r[2] > 1 => row[<<r[1], r[2] - 1>>].state # "none"
    /\ \E to \in budget.kinds :
          row' = [row EXCEPT ![r].state = "queued", ![r].to = to]
    /\ UNCHANGED <<status, memberUp, starved, pending, pump, flush, delivering, owed, budget>>

Change ==
    /\ AllAwait
    /\ budget.changes > 0
    /\ budget' = [budget EXCEPT !.changes = @ - 1]
    /\ \/ \E r \in Queued : row' = [row EXCEPT ![r].current = ~@] /\ UNCHANGED <<status, memberUp>>
       \/ \E m \in Missions :
             /\ status' = [status EXCEPT ![m] = IF @ = "active" THEN "paused" ELSE "active"]
             /\ UNCHANGED <<row, memberUp>>
       \/ \E m \in Missions : memberUp' = [memberUp EXCEPT ![m] = ~@] /\ UNCHANGED <<row, status>>
    /\ UNCHANGED <<starved, pending, pump, flush, delivering, owed>>

-----------------------------------------------------------------------------
(* A request made before the pending start runs shares that start. *)
Request ==
    /\ AllAwait
    /\ pending' = TRUE
    /\ owed' = owed \cup Queued
    /\ UNCHANGED <<row, status, memberUp, starved, pump, flush, delivering, budget>>

(* The deferred start joins a pump whose sweep is inside the bound, which  *)
(* then sweeps again; else it supersedes it.                               *)
Start ==
    /\ AllAwait
    /\ pending
    /\ pending' = FALSE
    /\ \/ /\ pump # 0 /\ ~flush[pump].old
          /\ flush' = [flush EXCEPT ![pump].requested = TRUE]
          /\ UNCHANGED pump
       \/ /\ pump = 0 \/ flush[pump].old
          /\ \E p \in Pumps :
                /\ ~flush[p].live
                /\ pump' = p
                /\ flush' = [flush EXCEPT ![p] = [Idle EXCEPT !.live = TRUE]]
    /\ UNCHANGED <<row, status, memberUp, starved, delivering, owed, budget>>

-----------------------------------------------------------------------------
(* The rows a walk still looks at: the rest of the list it read when it    *)
(* began this mission, and, for the current pump only, every later         *)
(* mission's list.  A superseded pump ends with the flush in flight.       *)
Ahead(f) ==
    flush[f].todo \cup {r \in Rows : /\ f # Body /\ f = pump
                                    /\ r[1] > flush[f].mission /\ row[r].state # "none"}

Before(r, s) == r[1] < s[1] \/ (r[1] = s[1] /\ r[2] < s[2])
FirstOf(S) == {r \in S : \A s \in S \ {r} : Before(r, s)}

StarvedAgain(r) == <<r, IF starved[r[1]][1] = r THEN 2 ELSE 1>>

(* One piece of a flush, up to the first delivery it hands to the adapter. *)
(* The rows it passes are left, marked moot, or recorded as starved;       *)
(* at the end a pump sweeps again if a request joined it.                  *)
WalkTo(f, at) ==
    LET passed == {r \in Ahead(f) : at = None \/ Before(r, at)}
        gone == {r \in passed : Gone(r)}
        again == at = None /\ f = pump /\ flush[f].requested IN
    /\ row' = [r \in Rows |->
          IF r \in passed /\ row[r].state = "queued" /\ Moot(r) THEN [row[r] EXCEPT !.state = "moot"]
          ELSE row[r]]
    /\ starved' = [m \in Missions |->
          LET lost == {r \in gone : r[1] = m} IN
          IF lost = {} THEN starved[m] ELSE StarvedAgain(CHOOSE r \in lost : \A s \in lost : s[2] <= r[2])]
    /\ owed' = owed \ (passed \cup {at})
    /\ delivering' = delivering \cup ({at} \ {None})
    /\ flush' = [flush EXCEPT ![f] =
          IF at # None
          THEN [@ EXCEPT !.at = at, !.mission = at[1], !.seen = starved'[at[1]],
                         !.todo = {r \in Ahead(f) : r[1] = at[1] /\ Before(at, r)}]
          ELSE [Idle EXCEPT !.live = again]]
    /\ pump' = IF at = None /\ f = pump /\ ~again THEN 0 ELSE pump
    /\ UNCHANGED <<status, memberUp, pending, budget>>

Walk(f) ==
    LET tries == {r \in Ahead(f) : Attemptable(r)} IN
    /\ Walking(f)
    /\ IF tries = {} THEN WalkTo(f, None) ELSE \E at \in FirstOf(tries) : WalkTo(f, at)

(* A scheduling body that is not wedged flushes its own mission. *)
BodyFlush(m) ==
    /\ m \in Passes
    /\ AllAwait
    /\ ~flush[Body].live
    /\ flush' = [flush EXCEPT ![Body].live = TRUE, ![Body].mission = m,
                              ![Body].todo = {r \in Rows : r[1] = m /\ row[r].state # "none"}]
    /\ UNCHANGED <<row, status, memberUp, starved, pending, pump, delivering, owed, budget>>

-----------------------------------------------------------------------------
(* The sweep in flight passes the declared bound. *)
Ages(f) ==
    /\ AllAwait
    /\ f \in Pumps /\ flush[f].at # None /\ ~flush[f].old
    /\ flush' = [flush EXCEPT ![f].old = TRUE]
    /\ UNCHANGED <<row, status, memberUp, starved, pending, pump, delivering, owed, budget>>

(* The rest of a flush once its attempt has ended: the row and the claim   *)
(* are settled by the caller, then the scan goes on with the next await.   *)
Ended(f) == flush' = [flush EXCEPT ![f].at = None, ![f].seen = Calm, ![f].old = @ \/ f # Body]
Kept(f) == flush' = [flush EXCEPT ![f].at = None, ![f].seen = Calm]

(* The adapter accepted: the transport fact, and the acknowledgement of    *)
(* the starvation this retry observed, if the row still records that one.  *)
Accepted(f) ==
    LET r == flush[f].at IN
    /\ AllAwait /\ r # None
    /\ row' = IF row[r].state = "queued" THEN [row EXCEPT ![r].state = "sent"] ELSE row
    /\ starved' = IF flush[f].seen[1] = r /\ starved[r[1]] = flush[f].seen
                  THEN [starved EXCEPT ![r[1]] = Calm] ELSE starved
    /\ delivering' = delivering \ {r}
    /\ Kept(f)
    /\ UNCHANGED <<status, memberUp, pending, pump, owed, budget>>

(* The adapter refused: the row stays queued and the mission row records   *)
(* the starvation (the durable failure reason beside it is left out).      *)
Refused(f) ==
    LET r == flush[f].at IN
    /\ AllAwait /\ r # None
    /\ starved' = [starved EXCEPT ![r[1]] = StarvedAgain(r)]
    /\ delivering' = delivering \ {r}
    /\ Kept(f)
    /\ UNCHANGED <<row, status, memberUp, pending, pump, owed, budget>>

(* The attempt never settled within the bound: it is abandoned, recorded   *)
(* and left to a later pump.  Its sweep began before it, so is past the    *)
(* bound as well.                                                          *)
Abandoned(f) ==
    LET r == flush[f].at IN
    /\ AllAwait /\ r # None
    /\ starved' = [starved EXCEPT ![r[1]] = StarvedAgain(r)]
    /\ delivering' = delivering \ {r}
    /\ Ended(f)
    /\ UNCHANGED <<row, status, memberUp, pending, pump, owed, budget>>

(* The process dies and a new one starts: the ledger is all that is left.  *)
Crash ==
    /\ AllAwait
    /\ budget.crashes > 0
    /\ budget' = [budget EXCEPT !.crashes = @ - 1]
    /\ pending' = FALSE /\ pump' = 0 /\ delivering' = {} /\ owed' = {}
    /\ flush' = [f \in Flushers |-> Idle]
    /\ UNCHANGED <<row, status, memberUp, starved>>

Settles(f) == Accepted(f) \/ Refused(f) \/ Abandoned(f)

Next ==
    \/ \E r \in Rows : Enqueue(r)
    \/ Change
    \/ Request
    \/ Start
    \/ \E m \in Missions : BodyFlush(m)
    \/ \E f \in Flushers : Walk(f) \/ Ages(f) \/ Settles(f)
    \/ Crash

Spec == Init /\ [][Next]_vars

(* The tick requests a sweep every period; the event loop runs what is     *)
(* deferred; an attempt ends at its bound if not before.  Strong, because  *)
(* another flush that walks disables each of them for a moment.            *)
Fairness ==
    /\ SF_vars(Request /\ ~pending)
    /\ SF_vars(Start)
    /\ \A f \in Flushers : WF_vars(Walk(f)) /\ SF_vars(Settles(f))

FairSpec == Spec /\ Fairness

-----------------------------------------------------------------------------
TypeOK ==
    /\ row \in [Rows -> [state : {"none", "queued", "sent", "moot"}, to : {"owner", "assignment"},
                         current : BOOLEAN]]
    /\ status \in [Missions -> {"active", "paused"}]
    /\ memberUp \in [Missions -> BOOLEAN]
    /\ starved \in [Missions -> (Rows \cup {None}) \X (0..2)]
    /\ pending \in BOOLEAN
    /\ pump \in {0} \cup Pumps
    /\ flush \in [Flushers -> [live : BOOLEAN, mission : {0} \cup Missions, todo : SUBSET Rows,
                               at : Rows \cup {None}, seen : (Rows \cup {None}) \X (0..2),
                               requested : BOOLEAN, old : BOOLEAN]]
    /\ delivering \in SUBSET Rows
    /\ owed \in SUBSET Rows

(* A request is answered by a sweep that starts after it: once no start is *)
(* pending and no pump is current, every row committed before the last     *)
(* request has been looked at since that request (pumpOutbox).             *)
RequestsAnswered == ~pending /\ pump = 0 => owed = {}

(* Two flushes never attempt one delivery at the same time, and the claim  *)
(* of an attempt lasts as long as the attempt (flushOutbox's delivering).  *)
OneAttempt ==
    /\ \A f, g \in Flushers : f # g /\ flush[f].at # None => flush[f].at # flush[g].at
    /\ delivering = {flush[f].at : f \in Flushers} \ {None}

(* What the mission row records about a starved delivery is cleared only   *)
(* by the end of the one it names.                                         *)
StarvationKept ==
    [][\A m \in Missions : starved[m] # Calm /\ starved'[m] = Calm
            => row'[starved[m][1]].state # "queued"]_vars

(* A delivery that may be sent is eventually attempted, whatever the other *)
(* attempts do: an adapter call that hangs starves no other row.           *)
EveryRowTried ==
    \A r \in Rows : (Sendable(r) /\ ~Gone(r)) ~> ((\E f \in Flushers : flush[f].at = r) \/ ~Sendable(r) \/ Gone(r))

(* "its successor's sweep started after the supersession and reaches every *)
(* mission" (pumpOutbox): the last mission's first delivery, once it may   *)
(* be sent, is attempted whatever the earlier missions' attempts do.       *)
ReachesLastMission ==
    LET r == <<NM, 1>> IN (Sendable(r) /\ ~Gone(r)) ~> ((\E f \in Flushers : flush[f].at = r) \/ ~Sendable(r) \/ Gone(r))
=============================================================================
