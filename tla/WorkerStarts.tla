---------------------------- MODULE WorkerStarts ----------------------------
(***************************************************************************)
(* One member's native starts: startWorker of src/runtime.ts with its      *)
(* shared entry, timeout and supersession, above start, open and end of    *)
(* src/harness-workers.ts with its resident map.  The runtime gives a      *)
(* start up at once when it is aborted; the native opening settles in its  *)
(* own time, and the entry stays fenced until it has.                      *)
(*                                                                         *)
(* A resident's publication and the continuation of the start that waits   *)
(* for it run in one turn of the event loop and are one step here.         *)
(***************************************************************************)
EXTENDS Naturals

CONSTANTS
    NS,          \* bound on start entries
    NR,          \* bound on residents
    FailLimit,   \* START_FAILURE_REROUTE_LIMIT
    Bounds       \* bounds a behaviour may have: on the owner's admissions, pauses, resumes
                 \* and stops; on timeouts, failed openings, retired handles and barriers;
                 \* and whether attempts are fenced and stopped while starts run

StartBounds ==
    /\ NS \in Nat \ {0} /\ NR \in Nat \ {0} /\ FailLimit \in Nat \ {0}
    /\ Bounds \subseteq [owner : Nat, faults : Nat, barriers : BOOLEAN]

Starts == 1..NS
Residents == 1..NR

VARIABLES
    status,      \* the mission's status
    phase,       \* the member's phase
    failures,    \* member.startFailures
    owed,        \* a fenced attempt owes the member's stop and checkpoint
    stopped,     \* the resident that barrier stops
    entry,       \* workerStarts.get(member), 0 when there is none
    start,       \* every start made
    cur,         \* residents.get(member), 0 when there is none
    res,         \* every resident made
    stopCalls,   \* deferred stops not yet made
    charged,     \* history: failures counted for each resident's opening
    left         \* owner actions and faults left, and whether there are barriers

vars == <<status, phase, failures, owed, stopped, entry, start, cur, res,
          stopCalls, charged, left>>

NoStart == [ph |-> "none", adm |-> FALSE, aborted |-> FALSE, retry |-> "none",
            on |-> 0, waits |-> FALSE]
NoRes == [ph |-> "none", aborted |-> FALSE, stopping |-> FALSE]

Init ==
    /\ status \in {"staged", "active"} /\ phase = "active" /\ failures = 0
    /\ owed = FALSE /\ stopped = 0
    /\ entry = 0 /\ start = [s \in Starts |-> NoStart]
    /\ cur = 0 /\ res = [r \in Residents |-> NoRes]
    /\ stopCalls = {} /\ charged = [r \in Residents |-> 0]
    /\ left \in Bounds

(* A native handle exists from its creation to the end of its disposal.    *)
Live(r) == res[r].ph \in {"created", "open", "disposing"}
Fenced(r) == res[r].aborted \/ res[r].stopping
Pending(s) == start[s].ph \in {"native", "given"}
Inactive(s) == status # "active" /\ ~(start[s].adm /\ status = "staged")

(* The one start the runtime still awaits on a resident, and the starts it *)
(* gave up that the resident still keeps pending.                          *)
Awaiting(r) == {s \in Starts : start[s].ph = "native" /\ start[s].on = r /\ ~start[s].waits}
GivenUp(r) == {s \in Starts : start[s].ph = "given" /\ start[s].on = r}

-----------------------------------------------------------------------------
(* What ends a start.  A failure of the native start of the current entry  *)
(* is the member's, unless an admission's caller records its own; either   *)
(* way the entry stays and gates the retry.                                *)
CountsFor(s) == entry = s /\ ~start[s].adm /\ status = "active" /\ phase = "active"

Failing(s, r) ==
    IF CountsFor(s)
    THEN /\ failures' = failures + 1
         /\ charged' = [charged EXCEPT ![r] = @ + 1]
         /\ phase' = IF failures + 1 >= FailLimit THEN "stopped" ELSE phase
    ELSE UNCHANGED <<failures, phase, charged>>

Failed(s) == [start[s] EXCEPT !.ph = "over", !.aborted = TRUE, !.retry = "later"]
Over(s) == [start[s] EXCEPT !.ph = "over"]

LateStops(s) == IF Inactive(s) \/ phase # "active" THEN stopCalls \cup {"late"} ELSE stopCalls

(* The start that awaits r settles with it; a start that made its resident *)
(* removes the entry of a rejected one.                                    *)
SettleOn(r, ok) ==
    LET settled(s) == IF s \in GivenUp(r) THEN [start[s] EXCEPT !.ph = "over"]
                      ELSE IF s \in Awaiting(r) THEN IF ok THEN Over(s) ELSE Failed(s)
                      ELSE start[s]
    IN /\ start' = [s \in Starts |-> settled(s)]
       /\ IF Awaiting(r) = {} THEN UNCHANGED <<failures, phase, entry, stopCalls, charged>>
          ELSE LET s == CHOOSE s \in Awaiting(r) : TRUE IN
               IF ok
               THEN /\ entry' = IF entry = s THEN 0 ELSE entry
                    /\ stopCalls' = LateStops(s)
                    /\ failures' = IF Inactive(s) \/ phase # "active" THEN failures ELSE 0
                    /\ UNCHANGED <<phase, charged>>
               ELSE Failing(s, r) /\ UNCHANGED <<entry, stopCalls>>

-----------------------------------------------------------------------------
(* The runtime's side.                                                     *)
Joins == entry # 0 /\ (start[entry].ph = "given" \/ start[entry].retry # "due")

First(S) == {x \in S : \A y \in S : x <= y}

Unmade == {s \in Starts : start[s].ph = "none"}
Made(s, adm) == [NoStart EXCEPT !.ph = "auth", !.adm = adm]

StartWorker ==
    /\ status = "active" /\ phase = "active" /\ ~owed /\ ~Joins
    /\ \E s \in First(Unmade) :
         /\ start' = [start EXCEPT ![s] = Made(s, FALSE)]
         /\ entry' = s
    /\ UNCHANGED <<status, phase, failures, owed, cur, res, stopCalls, left, charged>>

(* An abort cancels the resident the adapter call awaits, and the runtime  *)
(* gives the start up.                                                     *)
Cancelled(s) ==
    IF start[s].ph = "native" /\ ~start[s].waits /\ res[start[s].on].ph # "none"
    THEN [res EXCEPT ![start[s].on].aborted = TRUE] ELSE res

Aborted(s) ==
    [start[s] EXCEPT !.aborted = TRUE, !.ph = IF @ = "native" THEN "given" ELSE @]

(* The owner admits the member again, as a retried launch does: its start  *)
(* supersedes the one in flight, which fails unrecorded.                   *)
Admission ==
    /\ status = "staged" /\ phase = "active" /\ ~owed
    /\ left.owner > 0 /\ left' = [left EXCEPT !.owner = @ - 1]
    /\ \E s \in First(Unmade) :
         /\ entry' = s
         /\ IF entry = 0
            THEN start' = [start EXCEPT ![s] = Made(s, TRUE)] /\ UNCHANGED res
            ELSE /\ start' = [start EXCEPT ![s] = Made(s, TRUE), ![entry] = Aborted(entry)]
                 /\ res' = Cancelled(entry)
    /\ UNCHANGED <<status, phase, failures, owed, cur, stopCalls, charged>>

Launch ==
    /\ status = "staged" /\ cur # 0 /\ res[cur].ph = "open" /\ entry = 0
    /\ status' = "active"
    /\ UNCHANGED <<phase, failures, owed, entry, start, cur, res, stopCalls, left, charged>>

(* Past the authorization the start reads the mission again; a refusal     *)
(* here is not a native failure and leaves no entry.                       *)
RefusedHere(s) == start[s].aborted \/ Inactive(s) \/ phase # "active" \/ owed

Refuse(s) ==
    /\ start[s].ph = "auth" /\ RefusedHere(s)
    /\ start' = [start EXCEPT ![s] = Over(s)]
    /\ entry' = IF entry = s THEN 0 ELSE entry
    /\ UNCHANGED <<status, phase, failures, owed, cur, res, stopCalls, left, charged>>

(* The adapter adopts the member's resident, waits for one that is         *)
(* stopping, refuses one that was cancelled, or opens a new one.           *)
Enters(s) ==
    \/ start[s].ph = "auth" /\ ~RefusedHere(s)
    \/ start[s].ph = "native" /\ start[s].waits /\ cur # start[s].on

On(s, r, waits) == [start EXCEPT ![s] = [@ EXCEPT !.ph = "native", !.on = r, !.waits = waits]]

Adoptable(r) == ~Fenced(r)

Unopened == {r \in Residents : res[r].ph = "none"}

(* Mutant: a cancelled resident is replaced before it has settled.         *)
VacantOnceCancelled == cur \notin {r \in Residents : ~res[r].aborted}
Vacant == cur = 0

OpenNew(s) ==
    /\ Enters(s) /\ Vacant
    /\ \E r \in First(Unopened) :
         /\ res' = [res EXCEPT ![r].ph = "preparing"]
         /\ cur' = r
         /\ start' = On(s, r, FALSE)
    /\ UNCHANGED <<status, phase, failures, owed, entry, stopCalls, left, charged>>

WaitForStop(s) ==
    /\ Enters(s) /\ cur # 0 /\ res[cur].stopping
    /\ start' = On(s, cur, TRUE)
    /\ UNCHANGED <<status, phase, failures, owed, entry, cur, res, stopCalls, left, charged>>

(* An opening in flight is always the current entry's, so the resident a   *)
(* start adopts has opened.                                                *)
AdoptOpen(s) ==
    /\ Enters(s) /\ cur # 0 /\ Adoptable(cur) /\ res[cur].ph = "open"
    /\ start' = [start EXCEPT ![s] = Over(s)]
    /\ entry' = IF entry = s THEN 0 ELSE entry
    /\ failures' = 0
    /\ UNCHANGED <<status, phase, owed, cur, res, stopCalls, left, charged>>

AdapterRefuses(s) ==
    /\ Enters(s) /\ cur # 0 /\ Fenced(cur) /\ ~res[cur].stopping
    /\ start' = [start EXCEPT ![s] = Failed(s)]
    /\ Failing(s, cur)
    /\ UNCHANGED <<status, owed, entry, cur, res, stopCalls, left>>

(* The bound of one start passes.                                          *)
Timeout(s) ==
    /\ start[s].ph = "native" /\ left.faults > 0
    /\ left' = [left EXCEPT !.faults = @ - 1]
    /\ start' = [start EXCEPT ![s] = [Aborted(s) EXCEPT !.retry = "later"]]
    /\ res' = Cancelled(s)
    /\ Failing(s, start[s].on)
    /\ UNCHANGED <<status, owed, entry, cur, stopCalls>>

RetryDue ==
    /\ entry # 0 /\ start[entry].retry = "later"
    /\ start' = [start EXCEPT ![entry].retry = "due"]
    /\ UNCHANGED <<status, phase, failures, owed, entry, cur, res, stopCalls, left, charged>>

(* A start given up while it waited for a stop is over when that is.       *)
GivenUpWaiter(s) ==
    /\ start[s].ph = "given" /\ start[s].waits /\ cur # start[s].on
    /\ start' = [start EXCEPT ![s] = Over(s)]
    /\ UNCHANGED <<status, phase, failures, owed, entry, cur, res, stopCalls, left, charged>>

-----------------------------------------------------------------------------
(* The opening of a resident.                                              *)
Create(r) ==
    /\ res[r].ph = "preparing" /\ ~Fenced(r)
    /\ res' = [res EXCEPT ![r].ph = "created"]
    /\ UNCHANGED <<status, phase, failures, owed, entry, start, cur, stopCalls, left, charged>>

(* The map forgets a resident once its opening was rejected or its end is  *)
(* complete.                                                               *)
Forgets(r) == cur' = IF cur = r THEN 0 ELSE cur

OpeningFails(r) ==
    /\ res[r].ph = "preparing"
    /\ \/ Fenced(r) /\ UNCHANGED left
       \/ ~Fenced(r) /\ left.faults > 0 /\ left' = [left EXCEPT !.faults = @ - 1]
    /\ res' = [res EXCEPT ![r].ph = "gone"]
    /\ Forgets(r)
    /\ SettleOn(r, FALSE)
    /\ UNCHANGED <<status, owed>>

Publish(r) ==
    /\ res[r].ph = "created" /\ ~Fenced(r)
    /\ res' = [res EXCEPT ![r].ph = "open"]
    /\ SettleOn(r, TRUE)
    /\ UNCHANGED <<status, owed, cur, left>>

(* "Do not publish even a transient usable adapter handle after            *)
(* cancellation": the created handle is disposed first.                    *)
Discard(r) ==
    /\ res[r].ph = "created" /\ Fenced(r)
    /\ res' = [res EXCEPT ![r].ph = "disposing"]
    /\ UNCHANGED <<status, phase, failures, owed, entry, start, cur, stopCalls, left, charged>>

Discarded(r) ==
    /\ res[r].ph = "disposing"
    /\ res' = [res EXCEPT ![r].ph = "gone"]
    /\ Forgets(r)
    /\ SettleOn(r, FALSE)
    /\ UNCHANGED <<status, owed, left>>

(* A stop fences the resident at once; its handle is disposed when its     *)
(* opening and its observations have settled.                              *)
Stopped(r) == [res EXCEPT ![r].stopping = TRUE, ![r].aborted = TRUE]
StopMember == res' = IF cur = 0 THEN res ELSE Stopped(cur)

EndOpen(r) ==
    /\ res[r].ph = "open" /\ res[r].stopping
    /\ res' = [res EXCEPT ![r].ph = "gone"]
    /\ Forgets(r)
    /\ UNCHANGED <<status, phase, failures, owed, entry, start, stopCalls, left, charged>>

(* The host ends the agent of an open resident.                            *)
HostRetires(r) ==
    /\ res[r].ph = "open" /\ ~res[r].stopping /\ left.faults > 0
    /\ left' = [left EXCEPT !.faults = @ - 1]
    /\ res' = Stopped(r)
    /\ UNCHANGED <<status, phase, failures, owed, entry, start, cur, stopCalls, charged>>

-----------------------------------------------------------------------------
(* The owner's pause and stop abort the start in flight and defer a stop   *)
(* of the handle, which a resume in between makes moot.                    *)
Control(next) ==
    /\ status # "stopped" /\ status # next /\ left.owner > 0
    /\ next = "paused" => status = "active"
    /\ left' = [left EXCEPT !.owner = @ - 1]
    /\ status' = next
    /\ entry' = 0
    /\ IF entry = 0 THEN UNCHANGED <<start, res>>
       ELSE start' = [start EXCEPT ![entry] = Aborted(entry)] /\ res' = Cancelled(entry)
    /\ stopCalls' = stopCalls \cup {"control"}
    /\ UNCHANGED <<phase, failures, owed, cur, charged>>

Resume ==
    /\ status = "paused" /\ left.owner > 0
    /\ left' = [left EXCEPT !.owner = @ - 1]
    /\ status' = "active"
    /\ UNCHANGED <<phase, failures, owed, entry, start, cur, res, stopCalls, charged>>

Moot(kind) == kind = "control" /\ (status = "active" \/ owed)

DeferredStop(kind) ==
    /\ kind \in stopCalls
    /\ stopCalls' = stopCalls \ {kind}
    /\ IF Moot(kind) THEN UNCHANGED res ELSE StopMember
    /\ UNCHANGED <<status, phase, failures, owed, entry, start, cur, left, charged>>

(* The barrier of a fenced attempt stops the member and checkpoints its    *)
(* workspace; no start is made while it does.                              *)
Barrier ==
    /\ left.barriers /\ status = "active" /\ ~owed /\ cur # 0 /\ left.faults > 0
    /\ left' = [left EXCEPT !.faults = @ - 1]
    /\ owed' = TRUE /\ stopped' = cur
    /\ StopMember
    /\ UNCHANGED <<status, phase, failures, entry, start, cur, stopCalls, charged>>

BarrierDone ==
    /\ owed /\ res[stopped].ph = "gone"
    /\ owed' = FALSE /\ stopped' = 0
    /\ UNCHANGED <<status, phase, failures, entry, start, cur, res, stopCalls, left, charged>>

-----------------------------------------------------------------------------
StartStep(s) ==
    \/ Refuse(s) \/ OpenNew(s) \/ WaitForStop(s) \/ AdoptOpen(s)
    \/ AdapterRefuses(s) \/ GivenUpWaiter(s)

ResidentStep(r) ==
    \/ Create(r) \/ OpeningFails(r) \/ Publish(r) \/ Discard(r) \/ Discarded(r)
    \/ EndOpen(r)

Worker ==
    \/ StartWorker \/ Admission \/ Launch \/ RetryDue
    \/ \E s \in Starts : StartStep(s) \/ Timeout(s)
    \/ \E r \in Residents : ResidentStep(r) \/ HostRetires(r)
    \/ \E next \in {"paused", "stopped"} : Control(next)
    \/ Resume
    \/ \E kind \in stopCalls : DeferredStop(kind)

Next == (Worker /\ UNCHANGED stopped) \/ Barrier \/ BarrierDone

Spec == Init /\ [][Next]_vars

-----------------------------------------------------------------------------
(* Every entry of the two maps is a start or resident that can be waited   *)
(* for.                                                                    *)
TypeOK ==
    /\ status \in {"staged", "active", "paused", "stopped"}
    /\ phase \in {"active", "stopped"} /\ failures \in 0..FailLimit /\ owed \in BOOLEAN
    /\ entry \in Starts \cup {0} /\ cur \in Residents \cup {0}
    /\ entry # 0 => start[entry].ph # "none" /\ (start[entry].ph = "over" => start[entry].retry # "none")
    /\ cur # 0 => res[cur].ph \in {"preparing", "created", "open", "disposing"}
    /\ stopCalls \subseteq {"control", "late"}

(* One session has one native handle: a timed-out opening, a superseding   *)
(* admission, a stop and a restarting member never leave two alive.        *)
OneHandle == \A q, r \in Residents : Live(q) /\ Live(r) => q = r

(* Once everything in flight has settled, a mission that is not running    *)
(* has no handle, a start that outlived it included: "Tasks with a marker  *)
(* own their stop and checkpoint", every other stop is the pause's.        *)
Quiet ==
    /\ stopCalls = {} /\ \A s \in Starts : start[s].ph \notin {"auth", "native", "given"}
    /\ cur # 0 => ~res[cur].stopping
QuietWhenInactive == (status \in {"paused", "stopped"} /\ Quiet) => \A r \in Residents : ~Live(r)

(* "Keep a timed-out opening fenced until its native cleanup settles.      *)
(* Multiple callers of that same opening never spend more credits": one    *)
(* opening costs the member at most one of the failures that retire it.    *)
OpeningChargedOnce == \A r \in Residents : charged[r] <= 1
=============================================================================
