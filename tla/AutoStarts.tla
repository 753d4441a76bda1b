----------------------------- MODULE AutoStarts ------------------------------
(***************************************************************************)
(* One automatic request (/agent-swarm): the row `starts`, the draft and   *)
(* the mission it is assembled into, and the planner's messages to the     *)
(* owner's conversation (requestStart, prepareStart, startPlan,            *)
(* controlStart, failStart, sweepStarts and start() of src/runtime.ts;     *)
(* src/planner.ts).                                                        *)
(*                                                                         *)
(* An owner decision never waits behind launch I/O.  It aborts the call's  *)
(* controller, moves the planning epoch and fences the draft: the call     *)
(* gives up at once, while the assembly it was waiting for may run on for  *)
(* any time (abortableStart), holding exclusive(draftId) but not           *)
(* exclusive(requestId), until one of its assertions stops it.  The        *)
(* content of plans, and the steps inside an assembly, are DraftLaunch's.  *)
(***************************************************************************)
EXTENDS Naturals, FiniteSets

CONSTANTS Bodies,     \* assemblies that may be alive at once
          MaxEpoch,   \* bound: planning epochs
          Bounds      \* what a behaviour may be about: the assemblies it begins, the planner's
                      \* deliveries, how many revisions of the draft, extensions of the
                      \* deadline, and restarts and deliveries given up

Kinds == {"command", "planning", "failure"}
AutoAssumption ==
  /\ MaxEpoch \in Nat \ {0}
  /\ Bounds \subseteq [bodies : SUBSET Bodies, kinds : SUBSET Kinds, revision : Nat,
                       extends : Nat, faults : Nat]

VARIABLES req,      \* the request row
          late,     \* its deadline has passed
          draft,    \* the draft row
          mission,  \* the mission's status
          call,     \* the startPlan call inside exclusive(requestId)
          body,     \* the launchDraft bodies, awaited or abandoned
          deliver,  \* planner.ts: the deliveries in flight
          said,     \* the messages of each kind and epoch in the owner's session
          saved,    \* those of them flushed
          watch,    \* epochs whose planning turn watchIdle watches
          owner,    \* the owner's agent can take a wake
          extends, faults,
          bound     \* what this behaviour is about

rows == <<req, late, draft, mission>>
work == <<call, body>>
talk == <<deliver, said, saved, watch>>
vars == <<req, late, draft, mission, call, body, deliver, said, saved, watch, owner,
          extends, faults, bound>>

Epochs == 1..MaxEpoch
NoCall == [pc |-> "idle"]
NoBody == [pc |-> "idle"]
Busy == {"planning", "launching"}
Ended(m) == m \in {"active", "stopped", "completed"}

TypeOK ==
  /\ req \in [status : {"planning", "launching", "running", "failed", "stopped", "completed"},
              epoch : Epochs, fenced : BOOLEAN, dispatch : BOOLEAN, notice : BOOLEAN,
              drafted : BOOLEAN]
  /\ late \in BOOLEAN
  /\ draft.status \in {"none", "draft", "launching", "failed", "launched"}
  /\ mission \in {"none", "staged", "active", "stopped", "completed"}
  /\ call.pc \in {"idle", "waiting"}
  /\ \A b \in Bodies : body[b].pc \in {"idle", "queued", "authorizing", "checking",
                                       "assembling", "done", "failed"}
  /\ Cardinality({b \in Bodies : body[b].pc \in {"authorizing", "checking", "assembling"}}) <= 1
  /\ \A d \in deliver : d.kind \in bound.kinds /\ d.epoch \in Epochs
                        /\ d.pc \in {"prepare", "preparing", "send", "flush"}
  /\ said \in [{"planning", "failure"} \X Epochs -> Nat]
  /\ saved \subseteq ({"planning", "failure"} \X Epochs)
  /\ watch \subseteq Epochs
  /\ bound \in Bounds /\ extends \in 0..bound.extends /\ faults \in 0..bound.faults

\* requestStart has just committed the request; the command goes on to prepareStart.
Init ==
  /\ bound \in Bounds
  /\ req = [status |-> "planning", epoch |-> 1, fenced |-> FALSE, dispatch |-> FALSE,
            notice |-> FALSE, drafted |-> FALSE]
  /\ late = FALSE
  /\ draft = [status |-> "none", revision |-> 0]
  /\ mission = "none"
  /\ call = NoCall
  /\ body = [b \in Bodies |-> NoBody]
  /\ deliver = {[kind |-> k, epoch |-> 1, pc |-> "prepare"] : k \in bound.kinds \cap {"command"}}
  /\ said = [m \in {"planning", "failure"} \X Epochs |-> 0]
  /\ saved = {} /\ watch = {}
  /\ owner = TRUE
  /\ extends = 0 /\ faults = 0

---------------------------------------------------------------------------
(* The rows' shared effects. *)

\* fenceStartDraft: an assembly revision is retired with its caller.
Fenced(d) ==
  IF d.status = "launching" THEN [status |-> "failed", revision |-> d.revision + 1] ELSE d

\* syncStarts: the journal follows the mission, in the mission's own commit.
Synced(r, m) ==
  [r EXCEPT !.status = CASE m = "completed" -> "completed" [] m = "stopped" -> "stopped"
                         [] OTHER -> "running",
            !.dispatch = FALSE, !.notice = FALSE]

\* startControllers.get(requestId)?.abort(...): the call's signal, and its body's.
Cut == /\ call' = IF call.pc = "waiting" THEN [call EXCEPT !.cut = TRUE] ELSE call
       /\ body' = [b \in Bodies |-> IF call.pc = "waiting" /\ call.body = b
                                      /\ body[b].pc # "idle"
                                    THEN [body[b] EXCEPT !.cut = TRUE] ELSE body[b]]

\* failStart: never revokes a launched mission, never reopens a stopped request.
FailStart ==
  \/ /\ Ended(mission)
     /\ req' = Synced(req, mission)
     /\ UNCHANGED <<draft, call, body>>
  \/ /\ ~Ended(mission)
     /\ req.status \in {"stopped", "completed"}
     /\ UNCHANGED <<req, draft, call, body>>
  \/ /\ ~Ended(mission)
     /\ req.status \notin {"stopped", "completed"}
     /\ req' = [req EXCEPT !.status = "failed", !.fenced = TRUE, !.notice = TRUE,
                           !.dispatch = FALSE]
     /\ draft' = Fenced(draft)
     /\ Cut

---------------------------------------------------------------------------
(* The clock and the owner's decisions. *)

DeadlinePasses ==
  /\ ~late
  /\ req.status \in Busy
  /\ late' = TRUE
  /\ UNCHANGED <<req, draft, mission, work, talk, owner, extends, faults>>

\* sweepStarts, on the queue-independent tick.
Sweep ==
  /\ late
  /\ req.status \in Busy
  /\ FailStart
  /\ UNCHANGED <<late, mission, talk, owner, extends, faults>>

Extend ==
  /\ req.status \in Busy
  /\ ~Ended(mission)
  /\ extends < bound.extends
  /\ extends' = extends + 1
  /\ late' = FALSE
  /\ UNCHANGED <<req, draft, mission, work, talk, owner, faults>>

Retry ==
  /\ req.status = "failed"
  /\ ~Ended(mission)
  /\ req.epoch < MaxEpoch
  /\ req' = [req EXCEPT !.status = "planning", !.epoch = @ + 1, !.fenced = FALSE,
                        !.dispatch = TRUE, !.notice = FALSE]
  /\ late' = FALSE
  /\ draft' = Fenced(draft)
  /\ Cut
  /\ UNCHANGED <<mission, talk, owner, extends, faults>>

\* controlStart(stop), which also stops the mission staged so far.
StopRequest ==
  /\ req.status # "stopped"
  /\ ~Ended(mission)
  /\ req.epoch < MaxEpoch
  /\ req' = [req EXCEPT !.status = "stopped", !.epoch = @ + 1, !.fenced = TRUE,
                        !.dispatch = FALSE, !.notice = FALSE]
  /\ draft' = Fenced(draft)
  /\ mission' = IF mission = "staged" THEN "stopped" ELSE mission
  /\ Cut
  /\ UNCHANGED <<late, talk, owner, extends, faults>>

\* control(stop | complete) of the mission itself; a staged one can only be stopped.
ControlMission ==
  /\ \E m \in {"stopped", "completed"} :
       /\ mission = "active" \/ (mission = "staged" /\ m = "stopped")
       /\ mission' = m
       /\ req' = Synced(req, m)
  /\ UNCHANGED <<late, draft, work, talk, owner, extends, faults>>

---------------------------------------------------------------------------
(* startPlan, and the launchDraft body it waits for. *)

\* prepareStart and startPlan of one request run one at a time.
RequestFree == call.pc = "idle" /\ \A d \in deliver : d.pc # "preparing"

Launchable(e) ==
  /\ RequestFree
  /\ req.epoch = e /\ ~req.fenced
  /\ ~Ended(mission)
  /\ req.status \notin {"stopped", "completed"}

\* The plan is refused by validation, or an assembly still holds the draft it would edit.
RejectPlan(e) ==
  /\ Launchable(e)
  /\ req' = [req EXCEPT !.status = "failed"]
  /\ UNCHANGED <<late, draft, mission, work, talk, owner, extends, faults>>

\* The plan is saved (created, edited, or as it already is) and its launch begun.
StartPlan(e, b) ==
  /\ Launchable(e)
  /\ b \in bound.bodies /\ body[b] = NoBody
  /\ req' = [req EXCEPT !.status = "launching", !.drafted = TRUE]
  /\ late' = FALSE
  /\ \/ /\ draft.status = "none"
        /\ draft' = [status |-> "draft", revision |-> 1]
     \/ /\ draft.status \in {"draft", "failed"}
        /\ draft' = [draft EXCEPT !.revision = @ + 1]
     \/ /\ draft.status # "none"
        /\ UNCHANGED draft
  /\ draft'.revision <= bound.revision
  /\ body' = [body EXCEPT ![b] = [pc |-> "queued", revision |-> draft'.revision,
                                  epoch |-> 0, cut |-> FALSE]]
  /\ call' = [pc |-> "waiting", epoch |-> e, body |-> b, cut |-> FALSE]
  /\ UNCHANGED <<mission, talk, owner, extends, faults>>

\* The owner's turn, or its tool call, is cancelled.
CancelCall ==
  /\ call.pc = "waiting" /\ ~call.cut
  /\ Cut
  /\ UNCHANGED <<rows, talk, owner, extends, faults>>

Freed == [b \in Bodies |-> IF body[b].pc \in {"done", "failed"} THEN NoBody ELSE body[b]]

\* The call returns with its body, or gives up on it when its signal is aborted:
\* an active mission is reported as such; a failure only for the same epoch.
CallEnds ==
  /\ call.pc = "waiting"
  /\ call.cut \/ body[call.body].pc \in {"done", "failed"}
  /\ req' = IF Ended(mission) THEN Synced(req, mission)
            ELSE IF req.epoch = call.epoch /\ ~req.fenced /\ req.status # "stopped"
                 THEN [req EXCEPT !.status = "failed"] ELSE req
  /\ call' = NoCall
  /\ body' = Freed
  /\ UNCHANGED <<late, draft, mission, talk, owner, extends, faults>>

Awaited(b) == call.pc = "waiting" /\ call.body = b
Finish(b, pc) == body' = [body EXCEPT ![b] = IF Awaited(b) THEN [@ EXCEPT !.pc = pc] ELSE NoBody]

\* The one read of the draft, under exclusive(draftId).
BodyReads(b) ==
  /\ body[b].pc = "queued"
  /\ \A o \in Bodies : body[o].pc \notin {"authorizing", "checking", "assembling"}
  /\ IF draft.revision = body[b].revision /\ draft.status \in {"draft", "failed"}
     THEN body' = [body EXCEPT ![b].pc = "authorizing"]
     ELSE Finish(b, "failed")
  /\ UNCHANGED <<rows, call, talk, owner, extends, faults>>

\* assertCurrent: the signal, and the request's durable generation.
Current(b, e) ==
  /\ ~body[b].cut
  /\ ~req.fenced /\ req.status \notin {"failed", "stopped"}
  /\ req.epoch = e

\* The generation this body runs for is read after its workspace is authorized.
BodyAuthorized(b) ==
  /\ body[b].pc = "authorizing"
  /\ Current(b, req.epoch)
  /\ body' = [body EXCEPT ![b].pc = "checking", ![b].epoch = req.epoch]
  /\ UNCHANGED <<rows, call, talk, owner, extends, faults>>

\* Checks and routes passed: launching, and the mission created, in one turn.
BodyAssembles(b) ==
  /\ body[b].pc = "checking"
  /\ Current(b, body[b].epoch)
  /\ mission \in {"none", "staged"}
  /\ draft' = [status |-> "launching", revision |-> body[b].revision + 1]
  /\ mission' = "staged"
  /\ body' = [body EXCEPT ![b].pc = "assembling", ![b].revision = @ + 1]
  /\ UNCHANGED <<req, late, call, talk, owner, extends, faults>>

BodyActivates(b) ==
  /\ body[b].pc = "assembling"
  /\ Current(b, body[b].epoch)
  /\ mission = "staged"
  /\ mission' = "active"
  /\ draft' = [status |-> "launched", revision |-> body[b].revision]
  /\ req' = Synced(req, "active")
  /\ Finish(b, "done")
  /\ UNCHANGED <<late, call, talk, owner, extends, faults>>

\* The bounded wait for the queue or an await of the body rejects, or an assertion after it throws.
BodyFails(b) ==
  /\ body[b].pc \in {"queued", "authorizing", "checking", "assembling"}
  /\ draft' = IF body[b].pc = "assembling" /\ draft.revision = body[b].revision
              THEN [draft EXCEPT !.status = "failed"] ELSE draft
  /\ Finish(b, "failed")
  /\ UNCHANGED <<req, late, mission, call, talk, owner, extends, faults>>

---------------------------------------------------------------------------
(* The planner: the outbox of one request, and the command's own message. *)

\* pending(): asked of the row again after every await.
Pending(k, e) ==
  /\ req.epoch = e
  /\ CASE k = "command"  -> req.status = "planning" /\ ~req.fenced
       [] k = "planning" -> req.status = "planning" /\ ~req.fenced /\ req.dispatch
       [] OTHER          -> req.status = "failed" /\ req.notice

Outbox == IF req.status = "planning" /\ req.dispatch THEN {"planning"} \cap bound.kinds
          ELSE IF req.status = "failed" /\ req.notice THEN {"failure"} \cap bound.kinds ELSE {}

\* pump: one delivery in flight per request, epoch and kind.
Pump ==
  /\ owner
  /\ \E k \in Outbox :
       /\ \A d \in deliver : ~(d.kind = k /\ d.epoch = req.epoch)
       /\ deliver' = deliver \cup
            {[kind |-> k, epoch |-> req.epoch,
              pc |-> IF k = "planning" THEN "prepare" ELSE "send"]}
  /\ UNCHANGED <<rows, work, said, saved, watch, owner, extends, faults>>

To(d, pc) == deliver' = (deliver \ {d}) \cup {[d EXCEPT !.pc = pc]}
Drop(d) == deliver' = deliver \ {d}

\* prepareStart takes the request's own queue, for a generation still planning.
Prepare(d) ==
  /\ d.pc = "prepare"
  /\ RequestFree
  /\ req.status \in {"planning", "failed"} /\ ~req.fenced /\ req.epoch = d.epoch
  /\ To(d, "preparing")
  /\ UNCHANGED <<rows, work, said, saved, watch, owner, extends, faults>>

Prepared(d) ==
  /\ d.pc = "preparing"
  /\ req.status \in {"planning", "failed"} /\ ~req.fenced /\ req.epoch = d.epoch
  /\ To(d, "send")
  /\ UNCHANGED <<rows, work, said, saved, watch, owner, extends, faults>>

Message(d) == <<IF d.kind = "failure" THEN "failure" ELSE "planning", d.epoch>>

\* Mutant: the flag is cleared as soon as the message is in the session.
SendCleared(d) ==
  /\ d.pc = "send"
  /\ owner /\ Pending(d.kind, d.epoch)
  /\ said' = [said EXCEPT ![Message(d)] = IF d.kind # "command" /\ @ > 0 THEN @ ELSE @ + 1]
  /\ IF d.kind = "command"
     THEN Drop(d) /\ watch' = watch \cup {d.epoch}
     ELSE To(d, "flush") /\ UNCHANGED watch
  /\ req' = IF d.kind = "failure" THEN [req EXCEPT !.notice = FALSE] ELSE req
  /\ UNCHANGED <<late, draft, mission, work, saved, owner, extends, faults>>

\* The message goes in once: a delivery tried again finds the earlier one.  The
\* command's own message needs no flush and no acknowledgement.
Send(d) ==
  /\ d.pc = "send"
  /\ owner /\ Pending(d.kind, d.epoch)
  /\ said' = [said EXCEPT ![Message(d)] = IF d.kind # "command" /\ @ > 0 THEN @ ELSE @ + 1]
  /\ IF d.kind = "command"
     THEN Drop(d) /\ watch' = watch \cup {d.epoch}
     ELSE To(d, "flush") /\ UNCHANGED watch
  /\ UNCHANGED <<rows, work, saved, owner, extends, faults>>

\* The session is flushed, then ackStartMessage clears the flag of that generation.
Acknowledge(d) ==
  /\ d.pc = "flush"
  /\ saved' = saved \cup {Message(d)}
  /\ Drop(d)
  /\ IF Pending(d.kind, d.epoch)
     THEN /\ req' = IF d.kind = "planning" THEN [req EXCEPT !.dispatch = FALSE]
                                           ELSE [req EXCEPT !.notice = FALSE]
          /\ watch' = IF d.kind = "planning" THEN watch \cup {d.epoch} ELSE watch
     ELSE UNCHANGED <<req, watch>>
  /\ UNCHANGED <<late, draft, mission, work, said, owner, extends, faults>>

\* Superseded meanwhile: dropped, the command's as a failure of its own epoch.
Superseded(d) ==
  /\ \/ d.pc = "prepare" /\ RequestFree
     \/ d.pc = "preparing"
     \/ d.pc = "send"
  /\ \/ d.pc # "send" /\ ~(req.status \in {"planning", "failed"} /\ ~req.fenced
                           /\ req.epoch = d.epoch)
     \/ d.pc = "send" /\ ~(owner /\ Pending(d.kind, d.epoch))
  /\ Drop(d)
  /\ IF d.kind = "command" /\ req.epoch = d.epoch THEN FailStart
     ELSE UNCHANGED <<req, draft, call, body>>
  /\ UNCHANGED <<late, mission, said, saved, watch, owner, extends, faults>>

\* The queue's bounded wait, the snapshot or the flush fails, or the delivery's
\* own clock expires.
DeliveryFails(d) ==
  /\ d.pc \in {"prepare", "preparing", "flush"}
  /\ faults < bound.faults
  /\ faults' = faults + 1
  /\ Drop(d)
  /\ IF d.kind = "command" /\ req.epoch = d.epoch THEN FailStart
     ELSE UNCHANGED <<req, draft, call, body>>
  /\ UNCHANGED <<late, mission, said, saved, watch, owner, extends>>

\* watchIdle: the planning turn is over and its own epoch was not launched.
TurnEnds(e) ==
  /\ e \in watch
  /\ call.pc = "idle"
  /\ watch' = watch \ {e}
  /\ IF req.epoch = e /\ (req.status = "planning" \/ (req.status = "failed" /\ ~req.fenced))
     THEN FailStart
     ELSE UNCHANGED <<req, draft, call, body>>
  /\ UNCHANGED <<late, mission, deliver, said, saved, owner, extends, faults>>

OwnerLeaves ==
  /\ "failure" \in bound.kinds
  /\ owner
  /\ faults < bound.faults
  /\ faults' = faults + 1
  /\ owner' = FALSE
  /\ UNCHANGED <<rows, work, talk, extends>>

OwnerReturns ==
  /\ ~owner
  /\ owner' = TRUE
  /\ UNCHANGED <<rows, work, talk, extends, faults>>

\* The host dies and start() runs: what was in flight is gone, and so is a
\* message no flush had saved.  The interrupted generation is failed, not fenced.
Restart ==
  /\ faults < bound.faults
  /\ faults' = faults + 1
  /\ draft' = IF draft.status = "launching" THEN [draft EXCEPT !.status = "failed"] ELSE draft
  /\ req' = IF Ended(mission) THEN [Synced(req, mission) EXCEPT !.dispatch = req.dispatch,
                                                               !.notice = req.notice]
            ELSE IF req.status \in Busy
                 THEN [req EXCEPT !.status = "failed", !.notice = TRUE, !.dispatch = FALSE]
            ELSE req
  /\ call' = NoCall
  /\ body' = [b \in Bodies |-> NoBody]
  /\ deliver' = {} /\ watch' = {}
  /\ said' = [m \in DOMAIN said |-> IF m \in saved THEN said[m] ELSE 0]
  /\ UNCHANGED <<late, mission, saved, owner, extends>>

Decide == DeadlinePasses \/ Sweep \/ Extend \/ Retry \/ StopRequest \/ ControlMission

Launch ==
  \/ \E e \in Epochs : RejectPlan(e) \/ \E b \in Bodies : StartPlan(e, b)
  \/ CancelCall \/ CallEnds
  \/ \E b \in Bodies : \/ BodyReads(b) \/ BodyAuthorized(b) \/ BodyAssembles(b)
                       \/ BodyActivates(b) \/ BodyFails(b)

Plan ==
  \/ Pump
  \/ \E d \in deliver : \/ Prepare(d) \/ Prepared(d) \/ Send(d) \/ Acknowledge(d)
                        \/ Superseded(d) \/ DeliveryFails(d)
  \/ \E e \in Epochs : TurnEnds(e)
  \/ OwnerLeaves \/ OwnerReturns

Next == (Decide \/ Launch \/ Plan \/ Restart) /\ UNCHANGED bound

Spec == Init /\ [][Next]_vars

\* The tick sweeps, time passes, the pump runs and its deliveries end; nothing
\* is assumed of a launch body, a turn or an owner.
FairSpec ==
  /\ Spec
  /\ WF_vars(DeadlinePasses)
  /\ WF_vars(Sweep)
  /\ WF_vars(Pump)
  /\ WF_vars(OwnerReturns)
  /\ WF_vars(\E d \in deliver : Send(d) \/ Acknowledge(d) \/ Superseded(d))

-----------------------------------------------------------------------------
(***************************************************************************)
(* Properties.                                                             *)
(***************************************************************************)

\* syncStarts, and the mission check of failStart and of startPlan's catch:
\* whatever abort, sweep, restart or late answer comes in between, the request
\* reads as running exactly while its mission is active and ends with it.
JournalFollowsMission ==
  /\ mission = "active" <=> req.status = "running"
  /\ mission \in {"stopped", "completed"} => req.status = mission

\* controlStart(stop): a stopped request has no mission, or a stopped one, for
\* good, though the assembly it interrupted may still be running.
StopIsFinal ==
  [][req.status = "stopped" => req'.status = "stopped"
                               /\ mission' \in {"none", "stopped"}]_<<req, mission>>

\* fenceStartDraft and the catch of launchDraft: an assembly whose generation
\* was superseded writes neither the draft nor the mission any more; the retry
\* that superseded it owns both.
SupersededKeepsOff ==
  \A b \in Bodies :
     /\ body[b].pc = "assembling" /\ body[b].epoch # req.epoch
     /\ body'[b] # body[b]
     /\ req' = req
     => draft' = draft /\ mission' = mission

\* planner.ts: the recovery message of one generation enters the owner's
\* conversation at most once, however often its delivery is tried.
RecoveryToldOnce == \A e \in Epochs : said[<<"failure", e>>] <= 1

\* failStart + ackStartMessage: a request that was failed and fenced stays so
\* only with a recovery message its owner has in the conversation, or is still
\* owed: no restart between the send, the flush and the acknowledgement loses it.
FailureIsTold ==
  req.status = "failed" /\ req.fenced => req.notice \/ said[<<"failure", req.epoch>>] > 0

\* sweepStarts: planning and launching end, even when the planner's turn or an
\* adapter call of the assembly never does.
PlanningEnds == (req.status \in Busy) ~> (req.status \notin Busy)

\* The recovery notice reaches the owner's conversation, or the owner has decided.
RecoveryReaches ==
  (req.status = "failed" /\ req.notice) ~> ~(req.status = "failed" /\ req.notice)
=============================================================================
