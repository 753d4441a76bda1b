---------------------------- MODULE WorkerInbox ----------------------------
(***************************************************************************)
(* The inbox of one worker, as src/harness-workers.ts keeps it over the    *)
(* native one: a delivery is journalled before it is sent and acknowledged *)
(* only after the session is flushed; the native driver claims a batch,    *)
(* and the pre-step hook rejects it, thins it of withdrawn assignments or  *)
(* lets it enter the model's step; an activation restores what the journal *)
(* still owes; a handle that fell idle on pending input is woken by the    *)
(* drain step of the dispatch sweep, never while its member is parked.     *)
(* The handle may be stopped, retired by the host or lost in a crash.      *)
(*                                                                         *)
(* The native agent is outside src/: its driver claims the next-step queue *)
(* and, when a turn begins, the head of the next-turn queue; a rejected    *)
(* step ends the driver; input that arrives before it is idle wakes        *)
(* nothing; disposal clears the native queues.                             *)
(***************************************************************************)
EXTENDS Naturals, FiniteSets, SequencesExt

CONSTANTS
    ND,           \* deliveries 1..ND, in the order the outbox lists them
    Assignments,  \* those of kind "assignment": the others are messages
    MaxStops,     \* bounds on stops and retirements of the handle,
    MaxCrashes,   \* on deaths of the process,
    MaxRevokes,   \* on assignments whose task moves on,
    MaxParks      \* and on calls of swarm_wait

InboxBounds ==
    /\ ND \in Nat \ {0} /\ Assignments \subseteq 1..ND
    /\ {MaxStops, MaxCrashes, MaxRevokes, MaxParks} \subseteq Nat

Deliveries == 1..ND
Publishing == ND + 1           \* the journal write of an opening
Ending == ND + 2               \* the one of an end

VARIABLES
    out,       \* the outbox row and the adapter's call for it
    current,   \* whether the store still admits the delivery
    parked,    \* the member's phase is "parked"
    owes,      \* the member owes a stop
    res,       \* the resident
    closing,   \* the adapter is being disposed
    agent,     \* the native inbox and status
    driver,    \* the native driver and the batch it claimed
    chain,     \* journalWrites: the callers of preserveInbox, in order
    writing,   \* what the head of the chain is writing
    journal,   \* the recovery journal on disk
    log,       \* the session log in memory
    disk,      \* the part of it that is flushed
    seen,      \* history: what entered a step of the model
    accepted,  \* history: the order in which messages were first sent
    left       \* what the environment may still do

vars == <<out, current, parked, owes, res, closing, agent, driver, chain,
          writing, journal, log, disk, seen, accepted, left>>

In(s) == {s[i] : i \in DOMAIN s}
Without(s, S) == SelectSeq(s, LAMBDA d : d \notin S)
With(s, t) == s \o Without(t, In(s))

NoRes == [stage |-> "none", handle |-> FALSE, stopping |-> FALSE,
          rejected |-> FALSE, delivered |-> {}, recovery |-> <<>>]
NoAgent == [status |-> "none", step |-> <<>>, turn |-> <<>>]
Off == [at |-> "off", batch |-> <<>>]
NoWrite == <<0>>

Init ==
    /\ out = [d \in Deliveries |-> "queued"] /\ current = [d \in Deliveries |-> TRUE]
    /\ parked = FALSE /\ owes = FALSE /\ closing = FALSE
    /\ res = NoRes /\ agent = NoAgent /\ driver = Off
    /\ chain = <<>> /\ writing = NoWrite /\ journal = <<>>
    /\ log = [inserted |-> {}, consumed |-> <<>>]
    /\ disk = [inserted |-> {}, consumed |-> <<>>, step |-> <<>>, turn |-> <<>>]
    /\ seen = {} /\ accepted = <<>>
    /\ left = [stops |-> MaxStops, crashes |-> MaxCrashes,
               revokes |-> MaxRevokes, parks |-> MaxParks]

-----------------------------------------------------------------------------
(* Shared readings.                                                        *)

Fenced == closing \/ res.stopping
Pending == agent.step \o agent.turn

(* A shutdown revokes nothing: the next activation asks the store again.   *)
Revoked == IF closing THEN {} ELSE {d \in Assignments : ~current[d]}

Image(a, l) == [inserted |-> l.inserted, consumed |-> l.consumed,
                step |-> a.step, turn |-> a.turn]

Thinned(a) == [a EXCEPT !.step = Without(@, Revoked), !.turn = Without(@, Revoked)]

(* A send with wakeup: an idle agent starts its driver.                    *)
Wakes(a) == IF a.status = "idle" THEN [a EXCEPT !.status = "busy"] ELSE a
Woken(a) == IF a.status = "idle" THEN [at |-> "turn", batch |-> <<>>] ELSE driver

Sent(a, d) == IF d \in Assignments THEN [a EXCEPT !.turn = Append(@, d)]
                                   ELSE [a EXCEPT !.step = Append(@, d)]

(* The tail is removed and sent again, so the order queued is kept.        *)
Rewake ==
    LET a == Thinned(agent) IN
    IF a.step \o a.turn = <<>>
    THEN agent' = [a EXCEPT !.status = "idle"] /\ driver' = Off
    ELSE agent' = [a EXCEPT !.status = "busy"] /\ driver' = [at |-> "turn", batch |-> <<>>]

(* preserveInbox: merges what the live agent holds, then queues a write.   *)
Preserves(r, who) ==
    /\ res' = [r EXCEPT !.recovery = IF r.handle THEN With(@, Pending) ELSE @]
    /\ chain' = Append(chain, who)

-----------------------------------------------------------------------------
(* Activation.                                                             *)

(* restoreInbox and the removal of withdrawn input, over what the native   *)
(* resume replays from the session log.                                    *)
Restored ==
    LET native == [status |-> "idle", step |-> disk.step, turn |-> disk.turn]
        saved == Without(journal, In(disk.consumed) \cup Revoked)
    IN  [status |-> "idle",
         step |-> With(native.step, Without(saved, Assignments)),
         turn |-> With(native.turn, SelectSeq(saved, LAMBDA d : d \in Assignments))]

Activate ==
    /\ res.stage = "none" /\ ~closing /\ ~owes
    /\ agent' = Thinned(Restored)
    /\ log' = [inserted |-> disk.inserted \cup In(Restored.step \o Restored.turn),
               consumed |-> disk.consumed]
    /\ res' = [NoRes EXCEPT !.stage = "opening",
                            !.recovery = Restored.step \o Restored.turn]
    /\ UNCHANGED <<out, current, parked, owes, closing, driver, chain, writing,
                   journal, disk, seen, accepted, left>>

(* The native handle is published: the delivered set is rebuilt from the   *)
(* session, the session flushed and the inbox journalled.                  *)
Publish ==
    /\ res.stage = "opening" /\ ~Fenced
    /\ Preserves([res EXCEPT !.stage = "publishing", !.handle = TRUE,
                             !.delivered = log.inserted \cup In(log.consumed)], Publishing)
    /\ disk' = Image(agent, log)
    /\ UNCHANGED <<out, current, parked, owes, closing, agent, driver, writing,
                   journal, log, seen, accepted, left>>

(* The end of a resident: native disposal clears the queues.               *)
Disposes ==
    /\ res' = NoRes /\ agent' = NoAgent /\ driver' = Off /\ owes' = FALSE
    /\ disk' = [Image(NoAgent, log) EXCEPT !.step = <<>>]

Discard ==
    /\ res.stage = "opening" /\ Fenced /\ Disposes
    /\ UNCHANGED <<out, current, parked, closing, chain, writing, journal, log,
                   seen, accepted, left>>

-----------------------------------------------------------------------------
(* Delivery.                                                               *)

(* The outbox never offers an assignment the store no longer admits.       *)
Deliver(d) ==
    /\ out[d] = "queued" /\ (d \in Assignments => current[d])
    /\ res.stage = "open" /\ ~Fenced
    /\ IF d \in res.delivered
       THEN /\ out' = [out EXCEPT ![d] = "sent"] /\ UNCHANGED <<res, chain>>
       ELSE /\ out' = [out EXCEPT ![d] = "journal"]
            /\ Preserves([res EXCEPT !.recovery = With(@, <<d>>)], d)
    /\ UNCHANGED <<current, parked, owes, closing, agent, driver, writing, journal,
                   log, disk, seen, accepted, left>>

(* A write reads the recovery map when its turn comes, minus what is       *)
(* withdrawn by then.                                                      *)
WriteStarts ==
    /\ chain # <<>> /\ writing = NoWrite
    /\ writing' = <<0>> \o <<Without(res.recovery, Revoked)>>
    /\ UNCHANGED <<out, current, parked, owes, res, closing, agent, driver, chain,
                   journal, log, disk, seen, accepted, left>>

Written ==
    /\ writing # NoWrite /\ journal' = writing[2]
    /\ writing' = NoWrite /\ chain' = Tail(chain)

(* The delivery is sent once its journal entry is durable.                 *)
Sends ==
    \E d \in Deliveries :
        /\ Written /\ Head(chain) = d
        /\ IF Fenced
           THEN /\ out' = [out EXCEPT ![d] = "queued"]
                /\ UNCHANGED <<res, agent, driver, log, accepted>>
           ELSE /\ out' = [out EXCEPT ![d] = "sent"]
                /\ res' = [res EXCEPT !.delivered = @ \cup {d}]
                /\ agent' = Wakes(Sent(agent, d)) /\ driver' = Woken(agent)
                /\ log' = [log EXCEPT !.inserted = @ \cup {d}]
                /\ accepted' = With(accepted, <<d>>)
        /\ UNCHANGED <<current, parked, owes, closing, disk, seen, left>>

Opens ==
    /\ Written /\ Head(chain) = Publishing
    /\ IF Fenced THEN Disposes
       ELSE res' = [res EXCEPT !.stage = "open"] /\ UNCHANGED <<agent, driver, disk, owes>>
    /\ UNCHANGED <<out, current, parked, closing, log, seen, accepted, left>>

(* The flush of a delivery, then its acknowledgement; a session detached   *)
(* meanwhile accepts no flush.                                             *)
Acknowledge(d) ==
    /\ out[d] = "sent"
    /\ IF res.handle
       THEN out' = [out EXCEPT ![d] = "acked"] /\ disk' = Image(agent, log)
       ELSE out' = [out EXCEPT ![d] = "queued"] /\ UNCHANGED disk
    /\ UNCHANGED <<current, parked, owes, res, closing, agent, driver, chain, writing,
                   journal, log, seen, accepted, left>>

(* The host persists its session log when it likes: it matters only while  *)
(* a crash may still come.                                                 *)
HostFlushes ==
    /\ left.crashes > 0 /\ res.stage # "none" /\ disk # Image(agent, log) /\ disk' = Image(agent, log)
    /\ UNCHANGED <<out, current, parked, owes, res, closing, agent, driver, chain,
                   writing, journal, log, seen, accepted, left>>

-----------------------------------------------------------------------------
(* The native driver and the pre-step hook.                                *)

\* Mutant: an entry leaves the recovery map when its item leaves the inbox.
ClaimForgets ==
    /\ driver.at = "turn" /\ Pending # <<>>
    /\ LET n == IF agent.turn = <<>> THEN 0 ELSE 1 IN
       /\ driver' = [at |-> "claimed", batch |-> agent.step \o SubSeq(agent.turn, 1, n)]
       /\ agent' = [agent EXCEPT !.step = <<>>, !.turn = SubSeq(@, n + 1, Len(@))]
    /\ res' = [res EXCEPT !.recovery = Without(@, In(driver'.batch))]
    /\ UNCHANGED <<out, current, parked, owes, closing, chain, writing, journal,
                   log, disk, seen, accepted, left>>
Claim ==
    /\ driver.at = "turn" /\ Pending # <<>>
    /\ LET n == IF agent.turn = <<>> THEN 0 ELSE 1 IN
       /\ driver' = [at |-> "claimed", batch |-> agent.step \o SubSeq(agent.turn, 1, n)]
       /\ agent' = [agent EXCEPT !.step = <<>>, !.turn = SubSeq(@, n + 1, Len(@))]
    /\ UNCHANGED <<out, current, parked, owes, res, closing, chain, writing, journal,
                   log, disk, seen, accepted, left>>

(* The next step of the same turn: it takes what messages arrived.         *)
ClaimNext ==
    /\ driver.at = "stepped" /\ (agent.step # <<>> \/ parked)
    /\ driver' = [at |-> "claimed", batch |-> agent.step]
    /\ agent' = [agent EXCEPT !.step = <<>>]
    /\ UNCHANGED <<out, current, parked, owes, res, closing, chain, writing, journal,
                   log, disk, seen, accepted, left>>

EndTurn ==
    /\ driver.at = "stepped" /\ agent.step = <<>> /\ ~parked
    /\ driver' = [at |-> IF agent.turn = <<>> THEN "ended" ELSE "turn", batch |-> <<>>]
    /\ UNCHANGED <<out, current, parked, owes, res, closing, agent, chain, writing,
                   journal, log, disk, seen, accepted, left>>

Ended == [at |-> "ended", batch |-> <<>>]

(* The hook up to the host's own decision.                                 *)
PreStep ==
    /\ driver.at = "claimed"
    /\ IF Fenced THEN driver' = Ended /\ UNCHANGED <<agent, res>>
       ELSE /\ agent' = Thinned(agent)
            /\ IF driver.batch # <<>> /\ In(driver.batch) \subseteq Revoked
               THEN driver' = Ended /\ res' = [res EXCEPT !.rejected = TRUE]
               ELSE driver' = [driver EXCEPT !.at = "checked"] /\ UNCHANGED res
    /\ UNCHANGED <<out, current, parked, owes, closing, chain, writing, journal, log,
                   disk, seen, accepted, left>>

(* beforeStep: a member that owes a stop takes no step, a parked one only  *)
(* with fresh input, which unparks it.                                     *)
BeforeStep ==
    /\ driver.at = "checked"
    /\ LET fresh == Without(driver.batch, Revoked) # <<>> IN
       IF owes \/ (parked /\ ~fresh)
       THEN /\ driver' = Ended /\ res' = [res EXCEPT !.rejected = TRUE]
            /\ UNCHANGED parked
       ELSE /\ driver' = [driver EXCEPT !.at = "admitted"]
            /\ parked' = FALSE /\ UNCHANGED res
    /\ UNCHANGED <<out, current, owes, closing, agent, chain, writing, journal, log,
                   disk, seen, accepted, left>>

Enter ==
    /\ driver.at = "admitted" /\ driver' = [at |-> "stepped", batch |-> <<>>]
    /\ LET batch == Without(driver.batch, Revoked) IN
       /\ log' = [log EXCEPT !.consumed = @ \o batch]
       /\ res' = [res EXCEPT !.recovery = Without(@, In(batch))]
       /\ seen' = seen \cup In(batch)
    /\ UNCHANGED <<out, current, parked, owes, closing, agent, chain, writing, journal,
                   disk, accepted, left>>

(* The driver is idle: after a rejected step its idle handler wakes what   *)
(* arrived behind the rejection.                                           *)
FallsIdle ==
    /\ driver.at \in {"ended", "turn"} /\ (driver.at = "turn" => Pending = <<>>)
    /\ res' = [res EXCEPT !.rejected = FALSE]
    /\ IF res.rejected /\ ~Fenced THEN Rewake
       ELSE agent' = [agent EXCEPT !.status = "idle"] /\ driver' = Off
    /\ UNCHANGED <<out, current, parked, owes, closing, chain, writing, journal, log,
                   disk, seen, accepted, left>>

(* The drain step of the dispatch sweep, for a member that takes work and  *)
(* is not parked.                                                          *)
Drain ==
    /\ res.handle /\ ~Fenced /\ agent.status = "idle" /\ Pending # <<>>
    /\ ~parked /\ ~owes
    /\ Rewake
    /\ UNCHANGED <<out, current, parked, owes, res, closing, chain, writing, journal,
                   log, disk, seen, accepted, left>>

-----------------------------------------------------------------------------
(* The runtime and the host.                                               *)

Spend(what) == left[what] > 0 /\ left' = [left EXCEPT ![what] = @ - 1]

(* swarm_wait, called by the step the model is in.                         *)
Park ==
    /\ driver.at = "stepped" /\ ~parked /\ ~Fenced /\ Spend("parks") /\ parked' = TRUE
    /\ UNCHANGED <<out, current, owes, res, closing, agent, driver, chain, writing,
                   journal, log, disk, seen, accepted>>

(* The task of an assignment moves on; a fence also owes the handle's stop. *)
Revoke(d) ==
    /\ d \in Assignments /\ current[d] /\ Spend("revokes")
    /\ current' = [current EXCEPT ![d] = FALSE] /\ owes' \in {owes, TRUE}
    /\ UNCHANGED <<out, parked, res, closing, agent, driver, chain, writing, journal,
                   log, disk, seen, accepted>>

(* stop: the handle is cancelled with its inbox kept.                      *)
Cancels ==
    /\ res' = [res EXCEPT !.stopping = TRUE] /\ driver' = Off
    /\ agent' = IF res.stage = "none" THEN agent ELSE [agent EXCEPT !.status = "idle"]
Stop ==
    /\ res.stage # "none" /\ ~res.stopping
    /\ \/ owes /\ UNCHANGED <<left, closing>>
       \/ Spend("stops") /\ closing' \in {closing, TRUE}
    /\ Cancels
    /\ UNCHANGED <<out, current, parked, owes, chain, writing, journal, log, disk,
                   seen, accepted>>

(* A stop owed by a member without a handle is confirmed at once.          *)
NothingToStop ==
    /\ owes /\ res.stage = "none" /\ owes' = FALSE
    /\ UNCHANGED <<out, current, parked, res, closing, agent, driver, chain, writing,
                   journal, log, disk, seen, accepted, left>>

(* end: after the opening and every journal write has settled, the inbox   *)
(* is journalled once more; a handle the host retired has none left.       *)
End ==
    /\ res.stage = "open" /\ res.stopping /\ chain = <<>>
    /\ IF res.handle
       THEN Preserves([res EXCEPT !.stage = "ending"], Ending)
            /\ UNCHANGED <<agent, driver, disk, owes>>
       ELSE Disposes /\ UNCHANGED chain
    /\ UNCHANGED <<out, current, parked, closing, writing, journal, log, seen,
                   accepted, left>>

Disposed ==
    /\ Written /\ Head(chain) = Ending /\ Disposes
    /\ UNCHANGED <<out, current, parked, closing, log, seen, accepted, left>>

(* The host ends the agent itself: its queues are cleared, the resident    *)
(* lets go of the handle and ends.                                         *)
HostRetires ==
    /\ res.stage = "open" /\ ~res.stopping /\ Spend("stops")
    /\ res' = [res EXCEPT !.handle = FALSE, !.stopping = TRUE] /\ driver' = Off
    /\ agent' = [NoAgent EXCEPT !.status = "idle"]
    /\ disk' = Image(agent', log)
    /\ UNCHANGED <<out, current, parked, owes, closing, chain, writing, journal, log,
                   seen, accepted>>

Restart ==
    /\ closing /\ res.stage = "none" /\ chain = <<>> /\ closing' = FALSE
    /\ out' = [d \in Deliveries |-> IF out[d] = "acked" THEN "acked" ELSE "queued"]
    /\ UNCHANGED <<current, parked, owes, res, agent, driver, chain, writing, journal,
                   log, disk, seen, accepted, left>>

Crash ==
    /\ Spend("crashes")
    /\ out' = [d \in Deliveries |-> IF out[d] = "acked" THEN "acked" ELSE "queued"]
    /\ res' = NoRes /\ agent' = NoAgent /\ driver' = Off /\ closing' = FALSE
    /\ chain' = <<>> /\ writing' = NoWrite
    /\ log' = [inserted |-> disk.inserted, consumed |-> disk.consumed]
    /\ UNCHANGED <<current, parked, owes, journal, disk, seen, accepted>>

Adapter ==
    \/ Activate \/ Publish \/ Discard \/ WriteStarts \/ Sends \/ Opens \/ End \/ Disposed
    \/ Claim \/ ClaimNext \/ EndTurn \/ PreStep \/ BeforeStep \/ Enter \/ FallsIdle
    \/ NothingToStop \/ Restart \/ (owes /\ Stop)
    \/ \E d \in Deliveries : Acknowledge(d)

Next ==
    \/ Adapter \/ Drain \/ HostFlushes \/ Park \/ Stop \/ HostRetires \/ Crash
    \/ \E d \in Deliveries : Deliver(d) \/ Revoke(d)

Spec == Init /\ [][Next]_vars

(* Every step of the adapter, the driver and the pump settles; the tick    *)
(* repeats the dispatch sweep.                                             *)
FairSpec ==
    /\ Spec /\ WF_vars(Adapter) /\ SF_vars(Drain)
    /\ \A d \in Deliveries : SF_vars(Deliver(d))

-----------------------------------------------------------------------------
(* Every variable holds a value the adapter can hold, and a driver runs    *)
(* exactly on a busy agent.                                                *)
TypeOK ==
    /\ out \in [Deliveries -> {"queued", "journal", "sent", "acked"}]
    /\ current \in [Deliveries -> BOOLEAN]
    /\ {parked, owes, closing, res.stopping, res.handle, res.rejected} \subseteq BOOLEAN
    /\ res.stage \in {"none", "opening", "publishing", "open", "ending"}
    /\ In(journal) \cup In(res.recovery) \cup In(Pending) \cup In(driver.batch) \subseteq Deliveries
    /\ (agent.status = "busy") = (driver.at # "off")
    /\ (writing # NoWrite) => chain # <<>>

(* The model sees a delivery once: across retries of the pump, restored    *)
(* journals, re-sent tails and resumed sessions the session log holds each *)
(* delivery at most once, and nothing it holds is pending again            *)
(* (deliver's delivered set, restoreInbox's consumed set).                 *)
SeenOnce ==
    LET coming == driver.batch \o Pending IN
    /\ IsInjective(log.consumed) /\ IsInjective(coming)
    /\ In(log.consumed) \cap In(coming) = {}

(* What the outbox believes told is never lost unread: an acknowledged     *)
(* delivery the store still admits, and that no step of the model has      *)
(* taken, is in the journal or in the flushed session, from which the next *)
(* activation restores it, whatever stops, retirements and crashes came    *)
(* between (deliver, preserveInbox, end, restoreInbox).                    *)
AcceptedSurvives ==
    \A d \in Deliveries :
        (out[d] = "acked" /\ current[d] /\ d \notin seen)
            => d \in In(journal) \cup In(disk.step) \cup In(disk.turn)

(* An assignment whose task moved on starts no work: whatever the awaits   *)
(* of the hook let in, only assignments the store admits enter a step.     *)
WithdrawnNeverEnters ==
    [][\A d \in seen' \ seen : d \in Assignments => (current[d] \/ closing)]_vars

(* Messages enter in the order in which they were first sent, whatever was *)
(* rejected, re-woken or restored, as long as no crash lost the session's  *)
(* tail (rewake, restoreInbox).                                            *)
InOrder ==
    left.crashes = MaxCrashes =>
        \A i, j \in DOMAIN log.consumed :
            (i < j /\ In(<<log.consumed[i], log.consumed[j]>>) \cap Assignments = {})
            => ~ \E m, n \in DOMAIN accepted :
                    m < n /\ accepted[m] = log.consumed[j] /\ accepted[n] = log.consumed[i]

(* An accepted delivery enters a step in the end, unless its assignment is *)
(* withdrawn or its member parks: a handle left idle on pending input is   *)
(* woken by the sweep or by its own idle handler (drainStrandedInbox,      *)
(* continueAfterRejectedStep).                                             *)
AcceptedIsTaken ==
    \A d \in Deliveries :
        out[d] = "acked" ~> (d \in seen \/ ~current[d] \/ parked)

(* tools.ts says swarm_wait parks until a direct message arrives.  A       *)
(* message accepted for a parked member wakes it.                          *)
MessageUnparks ==
    \A d \in Deliveries \ Assignments : out[d] = "acked" ~> d \in seen
=============================================================================
