# A TLA+ model of the swarm runtime

The swarm runtime drives teams of LLM workers through a board of tasks. It is a
single Node process over SQLite: every state change is a synchronous commit, and
between two commits everything interleaves: tool calls of the workers' live
turns, the owner's controls, the tick, the scheduling body of each mission, stop
barriers, worker starts, the outbox, and the host ending agents on its own account.
This directory holds TLA+ modules translated from `src/src`, TLC configurations that
check them on small instances, and proofs, checked by TLAPS, that the main safety
properties hold for every board, every team and every bound.

Paths below are relative to the repository's `src/`. `PROJECT.json` maps the
definitions to the lines they model (an abbreviation has no entry of its own where the
definitions that use it cite its lines) and lists the hazards the properties are for.

## Contents

| part of the system | its modules | its proofs |
|---|---|---|
| attempts, leases, stop barriers | `TaskRow` (one row and every write to it), `Attempts`; `TaskOwnership` is what they promise, `AttemptsRefinement` the mapping, `MCAttempts` the instance for TLC | `AttemptsProofs` |
| the mission queue | `MissionQueue`; `MCMission` | `HostProofs` |
| the scheduling bodies and their watchdog | `SchedulingPass`; `MCScheduling` | `SchedulingPassProofs` |
| independent review | `Review`; `ReviewContract` is what it promises; `MCReview` | `ReviewProofs` |
| the task graph and the life of a plan | `PlanAdmission` (what a plan may be, and its rows), `TaskGraph` (the pure functions), `Lineage` (the commits); `MCMission` (the plans and the missions they are run on) | |
| the store | `StoreWrites` (row writes), `StoreRestore` (lock, open, snapshots, restore), `LiveView` (change log, watches, monitor); `MCStore` | `StoreProofs` |
| what a board owes its owner | `Witness` (the board predicates and the judgement over them); `MCScheduling` | |
| what the owner is told | `OwnerQuestions` (reply protocol), `NoticeLedger` (facts, wake budget, reminders), `OutboxPump` (delivery); `MCNotices` | `NoticesProofs` |
| launches and pauses | `DraftLaunch` (a saved plan), `AutoStarts` (an automatic request), `BudgetGate` (the pool and its pauses); `MCLaunches` | `LaunchProofs` |
| one worker's session | `UsageLedger` (tokens), `WorkerInbox` (deliveries), `WorkerStarts` (its native handle); `MCWorkers` | `WorkerProofs` (of `UsageLedger` and `WorkerStarts`) |
| work on disk | `Checkpoints` (worktrees, records and refs between attempts), `CheckHost` (slots and checkouts), `DeclaredChecks` (passes and verdict), `DeliveryApply` (the owner's checkout), `ApplyLock`; `MCDelivery` | `HostProofs` (of all but `Checkpoints`) |

A module opens with a comment that says what it models, and comments each of its
variables and bounds. `Mutant` operators are plausible bugs of the code: each property
of a run is shown able to fail by putting one in place of the definition it precedes
(`PROJECT.json`, "mutants"); they are used nowhere else.

## Inventory of the system

For each part: the state it keeps, its operations, how it interacts, what is hard
about it, and what makes it correct.

**Attempts and stop barriers** (`src/attempts.ts`). State: the row's `attempt` and
its durable marker `resumeAfterStop`; the volatile `stopRetries`. Operations: fence
a row (`fenceForStop`), run its stop barrier (`resumeStoppedAttempt`: stop the
handle, checkpoint the workspace, release the row), retry it with a backoff, close
out an idle attempt, expire a lease, renew one. It is called by every operation
that takes work away. Hard: the barrier crosses three awaits, the row can be
fenced, cancelled or resumed again at each of them, each step may fail, and the
host may die. Correct when a marker is never lost, never released while the member
is in a turn, and settled in the end.

**Task rows** (`src/types.ts`, `src/task-graph.ts`, `src/assignment.ts`). State: status,
epoch, attempt, marker, assignee and plan, recovery credit, preparation failure,
ceiling, prior owners; for reviews and lineage also `reviewOf`, `replaces`,
dependencies. Hard: combinations of fields decide together, and one writer may
forget another's field. Correct when a row holds an attempt or owes a stop and
never both, and its block causes survive.

**Mission runtime** (`src/runtime.ts`, `src/refusals.ts`, `src/authorization.ts`). Tool
calls (claim, submit, handoff, wait, publish, verify, challenge, propose, cancel),
task and mission controls, start failures, route refusals, the step brake, cold
start. Hard: claims, submissions and verdicts read, await and then commit; controls
commit in between. Correct when admission (one lease per member, no owed stop) and
withdrawal hold at the commit and not only at the read.

**Mission queue** (`src/runtime.ts`, `exclusive`, `boundedQueueWait`). State: a tail
promise per mission and the identity of its physical head. Hard: promise chains
whose waiters may be refused while the head still runs; an earlier form let two
waiters run together. Correct when bodies never overlap, keep their order, and
nothing waits or is kept for ever.

**Dispatch sweep** (`src/scheduling.ts`, `src/board.ts`). Chooses a row and a member,
awaits a start and a preparation, re-reads and assigns. State: the pass record
(`openPass`, `closePass`), which chains a body that stopped early. Hard: stale
choices; a wedged body. Correct when an assignment is made only from what the
board says at the commit, and every member's turn to be swept comes.

**Worker starts and handles** (`src/harness-workers.ts`, `startWorker` in
`src/runtime.ts`). State: the start entry of a member, the residents with their live
turns. Hard: starts are coalesced, cancellable and timed; a late answer may meet a
stop. Correct when a session has one native handle, a stopped handle executes nothing
and an opening costs the member one failure.

**Worker inbox and usage** (`src/harness-workers.ts`, `src/gates.ts`). State: the
recovery journal beside the native queues; the watermark beside the session log.
Hard: two durable things written one after the other, and a crash between them.
Correct when what was acknowledged reaches the model once, and a token is charged once.

**Review and verdicts** (`src/runtime.ts`, `src/check-results.ts`). Submission,
admission of reviews, verdict, rework, challenge, evidence. Hard: a verdict commits
after minutes of checks while its source may be withdrawn, amended or judged by a
sibling. Correct when a verdict judges the artifact it read, no author reviews its
own work, and acceptance is never left beside an open dispute.

**Task graph** (`src/task-graph.ts`). Replacement lineage, dependency resolution,
completion exemptions, delivery selection. Pure. Correct when a reference resolves to
one live obligation or fails closed, and what is delivered was accepted.

**Budget gate** (`src/gates.ts`, `src/resource-time.ts`). Pauses a mission at a limit,
waits until every handle is quiet, continues the attempts it preserved. Hard:
pauses, raises and resumes overlap. Correct when nothing is spent while paused and
no preserved attempt is lost or doubled.

**Notices and outbox** (`src/notices.ts`, `src/owner-reply.ts`, `src/events.ts`). The
durable ledger of what the owner is told, the questions the owner must settle, and the
pump that delivers both. Hard: at-least-once delivery across crashes, deduplication,
retired facts, hung deliveries. Correct when a fact is told once, and each request to
tell is answered.

**Store** (`src/store.ts`, `src/process-identity.ts`). SQLite rows, a revision per
row, a change log with its watches, a runtime lock, a staged restore. Hard: a crash in
the middle of a restore, a lock whose owner died, a copy read before an await. Correct
when no update is lost, what is opened is whole, and a watch sleeps over nothing.

**Delivery** (`src/delivery.ts`). Applies an accepted artifact to the owner's checkout
under a lock, while the owner edits it. Hard: a failure or a death between two files.
Correct when no edit is lost and a failed application leaves what it found.

**Drafts, plans, launches** (`src/plans.ts`, `src/planner.ts`, `src/admission.ts`). A saved
plan's life, and an automatic request's. Hard: launches, saves, discards and retries
overlap across restarts. Correct when what runs is the plan saved as launched.

**Declared checks** (`src/declared-checks.ts`, `src/workspaces.ts`). A semaphore around
check processes in disposable checkouts; the deciding pass. Hard: waiters aborted
while queued, a cleanup beside a run. Correct when slots are neither lost nor doubled
and a verdict rests on a pass that judged.

**The board's witness** (`src/board.ts`, the judgement in `src/notices.ts`). Predicates over
one board that decide what may be dispatched, what waits on something alive, what is
dead, and from them the facts the owner is owed after each published commit. Pure, but
over the board that time, stops and members also move. Hard: each classifier leaves work
to another, and the ledger holds what was told before. Correct when no unfinished work is
left to nobody.

**Workspaces** (`src/workspaces.ts`, `src/git-snapshot.ts`). A worktree, a record and a ref
for each member, a record for each task. Operations: prepare a worktree for an attempt,
checkpoint it at a stop, capture it at a submission, recover another member's work. Hard:
the writes of one operation are separate files and refs, and what the next attempt should
start from is told from records that may disagree. Correct when it starts from what the
last one left.

**Everything else**: the arena, tools, web API and plugin entry, projections and traces, the web client
(of which `LiveView` has the monitor).

## How `Attempts` corresponds to the code

| variable | code |
|---|---|
| `mission` | `mission.status`, of a launched mission |
| `row` | the `tasks` rows; see `TaskRow!Row` |
| `phase` | `member.phase` (durable) |
| `handle` | the adapter's resident: none, idle, in a turn, ending, or ending with a start that waits for it |
| `work` | what the live turn of a member executes: `<<task, epoch>>` pairs |
| `strikes` | `member.startFailures` |
| `op` | the body that holds the mission queue across an await |
| `barrier` | where a row's stop barrier is (`stopRetries`) |

One action is one commit, or one adapter event. An operation that awaits is two
actions, `...Begin` with what it read and a finish that re-asks exactly what the
code re-asks: `ClaimBegin` and `DispatchBegin` end in `Assign`, `PrepareFails`,
`CallRefused` or `Moot`; `SubmitBegin` in `SubmitFinish` or `CallRefused`;
`CloseOutBegin` and `ExpireBegin` in their finishes or `Moot`. Controls, handoffs,
route refusals, start failures and the owner's changes commit outside the queue,
hence between a beginning and its finish. The barrier of a row goes `stopping`,
`saving`, `releasing`, and back to `idle`, or into `backoff` at any failure; only
its release takes the queue. `Restart` kills the process between two commits and
runs the cold start on the store: handles, the queue and the barriers are volatile.

The data is abstracted to what the properties tell apart:

- An attempt is identified by the epoch it was minted at (the code's fresh id).
- A lease is a flag that time may set at any moment, and a renewal clears.
- Recovery credit is what is left of the allowance; an owner may lower the
  allowance to what is already spent, so pending and running rows may have none.
- A worker start that finds no resident is one step: it asks whether a stop is owed
  (`stopOwed`), synchronously, before the adapter makes the resident, and a stop ends
  the opening; that counts as a failed start, so `StartFails` may also happen under an
  owed stop. A start that finds the old resident ending waits for it (`StartWaits`) and
  then opens a fresh one (`LateStart`), when only the mission and the membership are
  asked again: a fence may have come in between, and the handle is then there under the
  barrier. What it may not do there is begin a turn (`beforeStep`).
- The adapter's `stop` releases its handle even when it rejects, as
  `HarnessWorkers.end` does in a `finally`.
- A turn that ends, a submission that commits or a stop empties `work`; a step
  fills it with the attempt the member holds. An agent whose task was fenced in the
  middle of its turn keeps the old pair until its turn or its handle ends: that is
  the interesting case of every handover property.
- Capture, preparation and checkpoint outcomes are choices.

In scope are rows without a pinned member, without dependencies and not under
review, in the default scheduling mode. Left out: a legacy marker with no member,
the budget pause (`BudgetGate` has it), refusals when the SQLite writer is busy
(`StoreWrites`), the owner's notices (`NoticeLedger`).

## How `MissionQueue` corresponds to the code

Calls are numbered in the order `exclusive` is called. `previous[k]` is the tail
the call found, `tail` is `queues.get(missionId)`, `settled` the calls whose
`current` promise has settled, `operation` the id that names the physical head and
`told` the id a refused call reported. `Enter` and `Wait` are the synchronous part
of a call, `Start`, `Settle` and `Forget` are microtasks, `Refuse` is the bounded
wait's timer, which fires only when the microtasks have drained, `Return` is a body
that ends or throws. The queue's promise to the rest is `Serial`; `Attempts` relies
on it by having one `op`.

## How `SchedulingPass` corresponds to the code

`pass` is the record `kick` opens and `closePass` removes, with the stage its body is
in: `queued` behind the mission queue, `recovering` leases, `sweeping` at a member,
`flushing` the outbox, `over` (returned or thrown, not closed yet). Instants are
ages: `age` since `startedAt`, `idle` since `progressAt`, `held` since the sweep
reached the member; each stops at the last value a bound tells apart, and `late`
says that the last stamp was made past the body's bound. Members are numbered in
board order. The code slices a rotated list; here the order is where it begins
(`First`), where it ends (`End`) and what follows a member (`After`). A member the
sweep skips is one whose step takes no time.

`pending` is a queued publication (`pendingTransitions`, the microtask), `naming` one
a naming is owed (`wedgedReleases`). `unasked` says that a commit's board has not
been judged since: it is what `publish` and the pass-end witness clear. A judgement
that throws counts as made, since the code swallows it. `swept` and `roster` are
history: what the chain has reached, and how many members it began with.

Bodies and others interleave freely: `Commit` and `Suspend` happen at any stage,
`AddMember` when no body holds the queue, `Clock` between any two steps, so each
member may hold the body for any time. The wait for the queue is a choice between
`Begin` and `Refused`; `MissionQueue` has the queue itself. Left out: shutdown, the
second kick after a quiesced budget pause, automatic completion, the backward steps
of a clock.

## How `Review` corresponds to the code

`src` is the source row with what its reviews add to it (`commit`, `rejected`,
`checks`), `reviews` the rows with `reviewOf` in admission order, `claims` the evidence
published on the source, `need` the host's review need (`reviewAdmissions`: its id, its
grace and the blocker last recorded under it). `verify` is two queued sections with the
declared checks between them: `BeginVerdict` reads and leaves a record in `runs`, which
carries what it read, and the second section (`Verdict`, `Defer`, `Refused`,
`Unfounded`) re-asks what the code re-asks. Submissions, challenges, amendments that
strengthen the checks, withdrawals, handoffs and the host's own admission of a missing
review (`AdmitMissing`, `BlockersNow`) commit in between. A commit is a number, the checks are
the number of times they were strengthened, and the rest of the board is only whether
something else on it moves.

`ReviewContract` is the promise: work is open, offered, accepted, rejected or withdrawn;
a member who never worked on it judges what was offered; a dispute reopens what was
accepted. `Review!Contract` is the refinement mapping (`standing`, `authors`, `judge`,
`disputed`).

Left out: owner amendments of a review row, borrowed workers, reasons and their contents.

## How `TaskGraph` and `Lineage` correspond to the code

`TaskGraph` has the functions of `src/task-graph.ts` over a sequence of rows in creation
order (`ReplacementDescendants`, `Carrier`, `Lineage`, `Effective`, `DependencyMet`,
`AdmissibleGraph`, `SelectAcceptedDelivery`, `Unschedulable`), with walks written as recursive functions
bounded by the number of rows. `Lineage` is the life of a plan over them: one step is one
committed transition (propose, repair, verdict, challenge with its fences, withdraw,
rework, amend, complete). `content` is which submissions a worktree has merged, which is
what the properties are about: a row's dependencies say what it should rest on,
`content` what it does. A mission is a record of what each proposal may be, so that one
run takes several (`MCMission!AllMissions`). Left out: priorities, scopes, the
checklist, wording of refusals; a verdict is one step (`Review` has its two sections).

## How the store's modules correspond to the code

`StoreWrites`: `row` are the durable rows, `copy` what a writer read and has not
written, `revision` the state's revision, `log` the refusal events. A transaction
commits or refuses whole; `PutTask` compares the revision of the copy; a refusal is
recorded by a transaction of its own, which may find the writer busy; `Revise` re-reads
inside its commit. A row is the set of updates it holds, so a lost one is visible.

`StoreRestore`: the state file, its write-ahead log, the snapshots, the staged request,
the restore intent, the staging copies and the lock's file, one file operation a step
and a crash between any two. The contents of a database are the commits it holds, their
number its revision, by which the snapshots' names are ordered (`SortsAfter`). A
write-ahead log belongs to the generation of the main file it was written over. The
loss modelled is that of a store at rest.

`LiveView`: `store` is the revision, the change log of `CHANGE_HISTORY` entries and the
number of the commit that wrote each scope last; `wire` the requests the host has;
`pane` the monitor with its generation, its cursor and what it shows. The contents of a
scope are a number, so a pane that shows an old one is visible. Left out: the SQL of the
readers, schema upgrades (versions 4 to 8), the views' wording.

## How the modules of the owner's news correspond to the code

`OwnerQuestions`: `asked` are the receipts of the deliveries ledger (delivered, consumed,
nudges, settled), `replies` the links that answer them, `turn` and `bookings` the guard of
`src/owner-reply.ts`: the open questions each message of a turn comes after join the turn's
bookings (`Books`), each completed turn that leaves a booked one open is a nudge of its own
ordinal, and the last hands the decision over. `admitted` and `onRecord` are histories: what
the turn's messages carried, and what was delivered or consumed when the last of them came.
Writes that fail and acknowledgements that are lost are choices: a consumption that is not
recorded, and a miss that cannot be written, which ends the turn's count (`turn` is then
"failed", and what it left uncounted is lost with its bookings). A turn that was aborted or
lost to a restart (`CutTurn`) owes nothing; a restart loses nothing else here, so it needs
no bound.

`NoticeLedger`: `ledger` are the owner's deliveries, rows and summaries with the items
they carry; `window` the wake budget in memory, lost in a crash; `attempts` and `taken`
the adapter, which takes one content per delivery id. How a fact is judged outstanding
is the board's affair: here it stands or does not. A fact dropped by its summary at the
hand-off because it had ended, and that stands again, reaches the owner by its reminder.

`OutboxPump`: `pending` the deferred start requests share, `pump` and `flush` the sweep
and the flushes in flight, `delivering` the claims. A step runs from one await to the
next. A successor supersedes a pump past its bound; the pass's own flush runs beside it.
Which deliveries are queued, and how much changes or crashes under them, is chosen at the
start of a behaviour among `Bounds`, here and in `NoticeLedger` and `WorkerStarts`.

## How the modules of launches and pauses correspond to the code

`DraftLaunch`: `draft` is the row, `launch` the concurrent calls with the copy each read,
`mission`, `task`, `member` and `compose` what they assemble. A call reads the draft once
and then waits for the workspace, the checks and the routes; saves and discards are
synchronous. An assembly that fails keeps its draft and its staged mission, and the next
launch repairs what is there. A save compares the new plan with the plan saved before and
with the rows of its keys only (`Repairable`), so the key of a task that an earlier repair
withdrew may come back; the next launch refuses it. A plan is the keys of its tasks and the settings of one
member. `exclusive`'s bounded wait is `RefuseLaunch` from the queue.

`PlanAdmission`: one plan after the other, with its content. A plan is `[tasks, limit]`, a
task has the fields that the rules compare: its key, kind, dependencies, `reviewOf`,
assignee, scope, `outputs`, `covers`, whether it has criteria of its own, whether its
objective assumes prior work, and the override of its review. An optional field is a set of
at most one value, a path is a file and a scope a set of them. `ValidPlan` is what
`validatePlan` refuses, `PairReviews` the reviews the host adds, `OrderedTasks` the walk that
orders the proposals, `CompletePlan` what `automaticPlan` asks beside, `Admissible` what
`propose` refuses, and `Repaired` what a repair writes over the rows of the launch before.
`SaveDraft`, `LaunchDraft`, each `Propose` and `Activate` are a commit, and `CutOff` ends an
assembly between any two of them. Left out: titles, checks, ceilings, timeouts, priorities
and experiments, which both sides read by the same rule, and `replaces`, which a plan has not.

`AutoStarts`: `req` is the row `starts`, `call` the call inside `exclusive(requestId)`,
`body` the assemblies, awaited or abandoned, `deliver`, `said` and `saved` the planner's
messages to the owner's session and whether they are flushed. An owner decision moves the
planning epoch, fences the draft and aborts the call, whose assembly may run on. Left
out: the planning warning, limits on saved drafts and failed requests, one request in
progress per session, the owner's edits of an automatic draft, the `baseline` flag.

`BudgetGate`: `pause` is `mission.budgetPause` with its claim, `by` an attempt's
`pausedBy`, `stops` the deferred stops in flight with the handles each waits for, `owed`
usage the store has not seen. The pool is one dimension, as the code tests tokens, steps
and the deadline together. A task whose stop a mission pause owes comes back in one step
here (`Attempts` has that barrier), and the `setImmediate` of a pause is merged with the
issue of its stops. Left out: the warnings before a limit, the execution clock, the
owner's own usage.

## How the modules of a worker's session correspond to the code

`UsageLedger`: `flushed` and `total` are the log on disk and in memory, `gen` the
composition's generation, `mark` the member's watermark, `life` and `used` what was
charged. Observations travel and may be replayed; a crash falls between the log and the
row. `WorkerInbox`: `out` is the outbox row, `journal` and `chain` the recovery journal
with its serialized writers, `agent` and `driver` the native side (external), `log` and
`disk` the session, `seen` what entered a step of the model. Left out: other plugins'
pre-step hooks, faults of the journal's disk, the owner's own inbox. `WorkerStarts`:
`entry` and `start` are the runtime's start records, `cur` and `res` the adapter's
residents, `stopCalls` the deferred stops. A resident's publication and the continuation
of the start that waits for it run in one turn of the event loop and are one step; a
barrier's stop of an opening counts as a start failure, as in the code.

## How `Witness` corresponds to the code

`rows` are the task rows with what the judgement reads of them: status, epoch, holder,
stop marker (`bounded`, then `overdue`), back-off, and for a submission its review need
(`fresh`, `ripe`, `recorded`). `member` is a member's phase and whether its handle holds a
turn, which is what the adapter answers to `startable`. `pass` is the scheduling body,
`due` the publication a commit or a close queued, `facts` the deliveries ledger, where a
fact is its family, its subjects at their epochs and its reason. The predicates carry the
names of `src/board.ts` where they can (`Capable`, `Ready`, `Eligible`, `Dispatchable`);
`View` is the interpretation, `Waits` is `waitsLegitimately`, `Owed` is `judge` and
`Outstanding` is what keeps a told fact open. What happens to a board is one commit an
action: proposals from the plan, dispatch, submission, verdict, withdrawal, fence, stop,
preparation failure, resume, parking. `TaskGraph` answers for the lineage. Left out: the
budget's pause, the scheduling-pass fact itself, integration, checks and roles, and the
absence net, which re-derives what the judgement says.

## How the modules of work on disk correspond to the code

`Checkpoints`: an edit is a value, and a worktree, a snapshot or a capture is the set of
edits in it, so lost work is visible. `disk` has each member's worktree and HEAD, its
record, each task's record and the refs; `basis` is what a task builds on, `owed` and
`loose` what its next attempt must and may start from (history); `reviews` and `left` say what
a behaviour is about. An operation is a
sequence of disks, one for each write that may be the last before a crash: `Leave` (leave
the old task), `Recover`, `Start`. A composition that conflicts undoes what it did.
The host may die after any write. `torn` is the history of the deaths between a checkout and
the second record of it, after which the records of one task disagree: the task that was left,
when the worktree was composed and neither record was written (`Bare`), or the task that was
prepared, when only the member's was (`Ahead`). The code fails for that task (Findings); the
properties are about all others. `Documented` decides whether what an interrupted attempt left is owed whatever
is recorded. Left out: files, merges, ignored and declared outputs, the mission's baseline.

`CheckHost`: `run` is a member's run of the checks, `active` and `waiters` the semaphore,
`owned` and `disk` the disposable checkouts; an aborted run takes its own place out of
the line; the cleanup also reclaims what earlier processes left. `DeclaredChecks`: `attempt`, `mail`, `calls` and `rows` are the review's
attempts, the assignments that carry the environment, the verifications and the durable
tool runs. `DeliveryApply`: a file is an inode and the set of contributions in it (the
snapshot's, the result's, each edit), so a lost edit is visible; `diff` is what the delivery
adds and removes; `backup`, `aside` and `copies` are the files moved aside. Several reads that write nothing are one step; the
outcome of a merge is a choice. `ApplyLock`: the lock directory, its owner record, its
age, and whose process id is taken. Left out: modes, links, scratch and created
directories, the read-only inspection, the rendered rejection.

## The runs

| run | instance | what it asks |
|---|---|---|
| `handover` | 1 task, 2 members, epochs to 3, credit 1 | whether a stop is owed exactly while its handle may run, whether a handle works on what its member does not hold, whether a release is quiescent, and the refinement of `TaskOwnership` |
| `attempt_ends` | 1 task, 1 member, epochs to 2, 1 nudge, credit 0 or 1, with fairness | whether every attempt ends, and whether work the host gave up on returns by itself |
| `scheduling` | teams to 3 members, 2 failed bodies, 2 pauses, with fairness; 2 boards of 3 tasks and 2 members, 1 fault | whether chains of early stops cover one rotation and reach everyone, whether any commit is left to nobody to publish, and whether any unfinished work is silent once its board was judged |
| `mission` | 5 calls, with fairness; plans of 2 tasks of every form, plans of 1 or 2 corrected twice with 2 cut assemblies, and generated plans of 2 or 3; 6 missions of 2 to 4 proposals (`Repairs`, `Deliveries`, `Amendments`, `Stalls`, `Reworked`, `Withdrawals`) | overlap, the identity a hang is told under, whether every call is answered; whether a plan let through is refused halfway and its work can be delivered; whether live work rests on accepted work, whether what is delivered was accepted, whether merged work is fenced when it is challenged, whether a stall is silent but behind a ring, and how a ring of pending tasks may close |
| `review` | claims: 2 members, 2 rows, 1 rework, 2 commits, 1 claim, 1 dispute, epochs to 3; admission: 3 rows, epochs to 2 | whether a verdict rests on what is current, whether reworked work is judged again, whether the host admits one review for a need, and the refinement of `ReviewContract` |
| `store` | 2 writers, 2 rows, 4 updates, 1 busy; 2 commits, snapshots and requests of 1 host with 1 crash and 2 faults, or of 2 hosts with none; panes over 3 commits, a log of 1, and of 2 with a restore | lost updates, what is opened, watches |
| `notices` | 2 questions, 1 nudge, 1 control, turns and restarts without bound; 1 crash, 2 missions or 2 deliveries under 2 pumps; 3 facts and a crash, or 2 with reminders | whether an answer is queued once, whether a completed turn counts every question it saw, whether a fact is told once |
| `launches` | 2 launches of a draft of 2 plans and 2 settings, 6 revisions, 3 worker identities, 1 restart; an automatic request of 2 epochs, with 2 assemblies and 1 restart, or with its messages and 2 faults; a pool of 2 extended to 4, 2 pauses, 1 control, 2 faults | whether what runs is what was saved, whether a failure is told and a superseded assembly keeps off, whether a preserved attempt continues once its pause is quiet |
| `workers` | totals to 3, 2 generations; 2 deliveries, 1 stop, 1 crash; 5 starts, 4 residents, 3 faults, with fences and 1 act of the owner, or 3 acts and no fence | whether tokens are charged once, whether what was accepted is seen once, whether there is one handle |
| `delivery` | 2 members, 2 tasks, 2 edits, with 1 crash after any write, or 1 amendment, or a review of a changed source; 3 members over 1 slot, 2 commands; 2 verifications of 2 attempts in 2 environments; 2 paths, of which the delivery may add or remove one, 2 edits, 2 applications, 1 death; 2 hosts on the lock | whether an attempt starts from what the last one left, slots, the foundation of a verdict, the owner's edits, the lock |
| `carried` | 2 members, 1 task, no crash | a finding: the work after a stop's snapshot that the next member does not get |
| `corrected` | plans of 1 or 2 tasks, 3 saves, 2 cut assemblies | a finding: the outputs that a repair leaves as they were |

All but the last two hold.

**One behaviour, one part.** `MCScheduling`, `MCMission`, `MCReview`, `MCStore`, `MCNotices`, `MCLaunches`,
`MCWorkers` and `MCDelivery` gather the modules of one part of the system: a variable
`part` says at the start which of them the behaviour is about, and only its variables
move. The parts do not interact there; each is checked as if alone, on the constants its
INSTANCE or the configuration names, and a property that speaks of several parts says so part by part. Where
parts of the system do interact, one module has both sides (`Attempts` the
rows, the handles and the queue's operation; `BudgetGate` the pool, the stops and the
handles; `DeclaredChecks` the attempts, their mail and the passes).

**Bounds.** `MaxEpoch` guards the assignments, the failed preparations and the
amendments, so it bounds how often a task changes hands by the board; fences are
bounded by attempts. Three epochs let one task be assigned, fenced, released and
assigned to the other member, and fenced once more while something of the first
round is still in flight; a conflict between two owners needs no more. Larger boards are
out of reach of TLC here, and are covered by the proofs. One credit and one
counted failure reach both sides of each limit. Five queue calls allow a head, a refused
call behind it, one behind that, one that starts after them, and one after the queue was
forgotten. Three members give a chain of three bodies, with a member between the first
and the last to lose; one unit of time for each bound tells before from after, and the
grace is one more unit. Failures and pauses are bounded because each may cut a
chain short: unboundedly many would starve a rotation, in the model as in the code.

The boards of `scheduling` are work with a dependent and a repair, and work with a review
by a member and one by anyone: with one fault, each family of facts is owed on one of
them. The missions of `mission` are the smallest of each kind: a repair of a repair beside an
integration, two candidates for one delivery, an amendment that can close a cycle, any
three dependent pieces of work, a rework under an integration. `review` has a row for the
source and one review at a time where claims and reworks multiply the states, and two
reviews at a time where they do not. `store` needs two writers for a lost update, two
rows for a transaction that is refused in one of them, and a log shorter than the
commits so that a cursor falls out of it. In `notices` a second question makes a turn
book one and settle the other, a second pump supersedes the first, and a wake budget of
one makes the second fact a summary's. In `launches` two keys differ between two plans,
so a stale copy shows and a withdrawn key comes back, and two settings a member that has to be composed again; two pauses
let a stop of the first meet the second. In the plans of `mission` two tasks meet every rule
that compares one with another, one of them under the key of a review the host would add, and
a third lets an integration assemble two; three saves let a key leave a plan and come back. In `workers`
two generations make one log follow another, one stop and one crash are enough to fall
between any two writes, and four residents let an opening be given up three times. In
`delivery` three members over one slot give a holder, a waiter and an aborted waiter, and
two paths give an application that fails at its second file; two tasks and two members let
work be handed on while the member that did it takes something else.

Symmetry is used only in runs with no liveness, over members, tasks or questions that
nothing tells apart. Deadlock checking is off where the system may stop: a queue of
finitely many calls ends, a mission completes or is stopped, and the environment's
bounded acts run out. It is on for `Attempts` and `SchedulingPass`, which never stop.

**Fairness.** `Attempts!FairSpec` assumes weak fairness of the queue's operation
(an awaited adapter call has a bound of its own) and of the sweep of owed stops (the tick, `sweepDecisions`). It
assumes strong fairness of an adapter's stop, of the checkpoint and of the
barrier's release (a call made again for as long as it fails is answered in the
end), and of the lease recovery and the close-out of a row (every pass makes them,
but a pass finds the queue taken or the owner back in a turn now and then).
Nothing is assumed of workers, of starts, of dispatch or of the owner.
`MissionQueue!FairSpec` assumes that promises settle and timers fire, and never that
a body returns. `SchedulingPass!WatchSpec` assumes that microtasks run, the clock
moves and the tick comes, and never that a body returns; `FairSpec` adds that it
does (each of its awaits has a bound of its own). The other modules' `FairSpec` are used
outside the runs, below: each assumes that the host's own timers, ticks and awaited
calls come, strongly where a call is repeated until it is answered, and nothing of the
owner or of the workers unless the property is about what follows their act.

**The liveness properties of the runs.** `StopSettles`: a stop owed is settled, or
recorded as a deterministic failure for the owner to decide. `LapsedLeaseRecovered`: a
lapsed lease of an active mission is renewed or taken. `IdleAttemptClosedOut`: an attempt
whose owner keeps ending its turn is not due for close-out for ever, unless the owner of
the mission keeps resuming the task, which restarts the count of nudges.
`CallsAnswered`: a queued call starts or is refused. `MembersReached`: on a
mission that stays active, slow members do not starve one another.

## What is proved

For all values of the constants, from the assumptions on them alone.

| component | theorems, with the property of a run they state |
|---|---|
| `AttemptsProofs` | `StopsNotOrphaned` (`StopNeverOrphaned`), `HandlesQuiescent` (`HandleQuiescence`), `ReleasesQuiescent` (`QuiescentRelease`), `ExhaustedStay` (`ExhaustedStaysBlocked`), `AttemptsImplementsOwnership` (`ImplementsTaskOwnership`); and `TypeCorrect`, `MembersExclusive`, `HandlesExclusive`, `PausesHold`, `OwnersLive`, `CancellationsFinal`, `OwnersRemembered`, `NothingBlockedRuns`; of the abstract protocol, `OwnersExecute`, `HandsHoldOne` |
| `HostProofs` | of the queue `QueueSerial` (`Serial`), `QueueIdentities` (`HangToldOnce`); `QueueRefusals`; of the check host `SlotsAreAccounted` (`SlotsAccounted`); `HostInvariant`, `CheckoutsStand`; of the declared checks `VerdictsAreFounded` (`VerdictFounded`); `VerdictInvariant`; of a delivery and its lock `EditsAreKept` (`EditsSurvive`); `EveryDelivery` |
| `SchedulingPassProofs` | `CommitsOwed` (`NothingUnpublished`), `RotationsAreWhole` (`WholeRotation`); `ChainsCoverOneRotation` |
| `ReviewProofs` | `AcceptancesRestOnCurrent` (`BasisIsCurrent`), `ReworksAreReviewed` (`ReworkIsReviewed`), `NeedsAdmitOnce` (`OneAutomaticReview`), `ReviewImplementsContract` (`KeepsContract`); `ReviewInvariant`, `AcceptancesStand`, `VerdictsIndependent`, `RefutationsFinal` |
| `StoreProofs` | `UpdatesKept` (`NoLostUpdate`), `RestoresOpenWhole` (`OpenedWhole`), `WatchesAlwaysWake` (`WatchesWake`); `RefusalsRecorded` |
| `WorkerProofs` | of the tokens `ChargedAtMostSpent` (`NeverOvercharged`); `LedgerInvariant`, `SettledAreCharged`; of the starts `OneNativeHandle` (`OneHandle`); `StartsInvariant` |
| `NoticesProofs` | of the reply protocol `AnswersQueuedOnce` (`AnswerQueuedOnce`), `TurnsAccountForSeen` (`TurnAccountsForSeen`); `SeenAreBooked`, `ReceiptsSettledOnce`, `NudgesBeforeTerminal`; of the ledger and the outbox `ToldUnderOneDelivery` (`ToldOnce`); `NoticesInvariant`, `HandedOverIsFrozen`, `RemindersSpendTheirs`, `StarvationIsKept` |
| `LaunchProofs` | of a draft `PlansAreLaunched` (`ActiveIsThePlan`); of an automatic request `FailuresAreTold` (`FailureIsTold`); of the budget gate `MarksNameTheirPause` (`PreservedByCurrentPause`), `HandedOnAfterQuiet` (`ResumedAfterQuiet`); `PausesInvariant`, `QuiescenceToldOnce`, `StoppedIsFinal`; of a request that the owner stopped, `StoppedRequestsStay` (`AutoStarts`'s `StopIsFinal`) |

*Assumptions.* Only those of the constants, each named where the constant is declared:
the bounds are naturals of the stated kind, the outcomes are Booleans, and an absent
value is none of the values it stands beside. Nothing bounds the tasks, the members, the
writers or the epochs, and they need not be finite.
A theorem of `MCStore`, `MCWorkers`, `MCDelivery`, `MCNotices` or `MCLaunches` is about the parts as the module instantiates
them: the constants of the run are free there, and what an INSTANCE fixes (one act of the
owner where attempts can be fenced, which facts a behaviour may have, crashes on one host only,
two hosts that apply once each under one lock) is fixed in the theorem too.

*Attempts.* The inductive invariant `IInv` joins the checked invariants with what
they rest on. `StopNeverOrphaned` and `MemberExclusive` are nearly inductive
already. `HandleQuiescence` is not: a marker may leave a row only when the member
it names is quiet, so `IInv` also says that the member of a barrier beyond its stop is
in no turn (`QuietWhileSaving`; its handle need not be down, a late start may have
opened it), that a barrier in flight has a stop
behind it (`BarrierOwesStop`), that a member not in a turn executes nothing
(`WorkInTurn`) and that a live call belongs to a turn (`CallInTurn`).
The proof is split by data and control. The first part says of every row write
that the new row *evolves* from the old one: a marker stays with its owner and
epoch, an attempt either stays or becomes a marker of its own owner, an attempt
never appears, and a cancelled row stays cancelled. The second shows once
that a step whose rows all evolve keeps the invariant; most actions are instances
of that lemma. The exceptions get proofs of their own: `Assign`, which mints an
attempt and where admission is used; `SubmitFinish`, which ends one with no marker
and where the turn itself stops working; `Release`; `StartFails` and `Restart`,
which re-pend running work with no marker and are safe because no handle is up.
`NothingRunsBlocked` and `ExhaustedStaysBlocked` rest on a second relation between
a row and what a write makes of it (`Stays`): nothing the host gave up on goes back
on the board, except by the owner's word. Under the refinement mapping `Assign` is the
only step that takes, `Step` the only one that executes, and every other step sheds or
stutters.

*Queue.* The settled calls are an initial segment of the calls made; the first call
past it is the head, and it is running or about to. The invariant carries the
head's existence, so the proof needs no induction over the calls.

*Check host.* `HInv` says who holds a slot by where its run stands, that those runs are a
finite set, that a queued run is one that has to queue, and whose each checkout is. The
count in `active` is then carried through every step by the cardinality of that set: a
release hands the slot to the head of the line without touching the count, so one holder
leaves the set and another joins it. Three lemmas say what queueing, serving the head and
taking a place out of the middle make of the line.

*Verdicts.* `VInv`: the results a verification judges are those of a pass it ran, of which
only the last command may have failed (`Ran`); and an attempt has at most two letters, of
which the first was sent when there are two (`LettersOwed`). So a failing pass has one
failing row and it is the last, which is what makes "every failing row is the host's own"
and "the last row is the host's own" the same question; and the environment a verdict
compares with, that of the first letter that carries one, is the only one the letters
carry, since an adapter declares one.

*Scheduling bodies.* A chain starts with a body kicked afresh, at the first member,
and members are only ever added behind the last; so what a chain has reached is an
initial segment of the board (`Segment`), and the order, which may wrap round in the
code, in fact ends with the last member. Both rotation properties follow.

*Review.* `RInv` joins the shapes of the rows (`SourceShaped`, `ReviewsShaped`,
`ClaimsShaped`: which combinations of status, attempt, commit and marker occur) with
four relations between the source and its reviews. `ReworkCovered` is what
`ReworkIsReviewed` needs while the source is still being reworked: the review that will
judge it is already on the board, at every step before the resubmission.
`NeedCounted` says that the need's
id has moved once there was a submission, so that no admission is made under the first. `AcceptedOnce` (one accepted review, of this commit, by no author,
and no claim in dispute) and `BasisIsCurrent` hold together: a verdict re-reads
the source in its second section, and only a dispute or an amendment, which reopen
the source, change what it rests on. `AcceptedOnce` makes the step that accepts
a step of the contract; every other action maps to a withdrawal, a rework, a dispute, an
authorship, or a stutter.

*Store writes.* `WInv`: a copy is never ahead of its row, and one that carries the row's
revision is the row (`CopiesBehind`); every revision is some update's. So what the
compare-and-swap admits adds to everything committed before it.

*Files.* `FInv`: at most one host is past the lock (`OneInside`), either because only one
starts, or because nothing has crashed, and then a lock belongs to a living process and
nobody is on the way to remove it (`Unbroken`); with a crash and a second host this is false
(Findings). A durable intent has its bytes, staged or installed, and names what the next open
must hold; without one the main file and its own log hold it (`FilesWhole`). The rest is how
far the restore has come at each step of the one host inside (`Reached`): what it installed
before it removes the log, and that the log is gone before the intent goes. A crash anywhere
leaves `FilesWhole`, from which the next start reaches the same steps.

*Panes.* `VInv`: the log has the last change of each scope, or only newer ones
(`StoreWhole`). So a scope that a replayed log does not name was last written before the
cursor, which is all that a sleeping watch (`Sleeps`), a delta and a heartbeat say. An
answer on its way differs from the store only in what was written since it was composed
(`Answered`), and the request a pane waits for is about the view it has (`Asked`), so the
view stays current when the two are merged (`PaneHolds`). The last three hold only where
nothing is restored (Findings: `CatchesUp`).

*Usage.* `LInv` is a balance for each member (`Balanced`): what it was charged and what
its log holds beyond the watermark make up all its logs ever held on disk, except for a
legacy log no watermark has met, which was charged a prefix. An observation in flight
carries a total the live log reached (`ObservationsHold`), and what a resident counted is
charged or on its way (`CountedIsSent`). A crash between the log and the row keeps the
balance.

*Worker starts.* `SInv`: every resident but the map's has ended (`OneResident`); only the
current entry's start is in the adapter or may still enter it, and what a start was given
up on is cancelled (`EntryGoverns`); a mission that does not run has no entry and, where no
attempt is fenced, still owes the stop of a handle it has not stopped (`HaltedOwesStop`).
Where the owner acts once, an opening that was charged has ended, or the mission has
halted, or the entry of the start it was charged to fences it (`ChargedIsFenced`): no later
start can be charged for it. With a second act of the owner this is false (Findings).

*Delivery.* `AInv` follows one application from point to point. A plan adds and drops no edit
(`Merges`), what was published is what was planned, with the original that was read beside it
(`Works`), so of the two either may go: `Survive`, that each edit of the owner is in a file, a
copy or what is aside, then holds through every step of a publication and of its rollback. Of
a path the owner left alone, `LeftAlone` says where the application has put it at every point,
which is why a rollback restores it, and `Reaches` that the plan of a path has the result.
`EveryDelivery` says it of one application, whatever the delivery adds and removes in however
many files; `EditsAreKept` of the part of the run, with the lock. `KInv` of the lock: a host
that found the directory taken has met one that holds it or has had its turn, and one that
takes it for left behind has met the latter, so the two never hold it together; that a holder's
third application could come between is the overlap of Findings.

*Questions.* `QInv`: an answered receipt has exactly one queued reply and an open one
none; every open question the turn saw is booked, and nothing is booked that it did not see.
For a later message to lose nothing, a question that is open now and was seen earlier must
have been open then: a question that was not asked is on no record, what is on record stays
there, and a settled one is not reopened (`Kept`). At the end of the turn the booked ones
still open are the missed ones and each is counted (`Counted`), which gives
`TurnAccountsForSeen`; only that step adds a nudge or the terminal, which gives `NudgesFirst`.

*Notices.* `TInv`: the number of a reminder is past every number told of its fact, so a new
one is in no delivery (`ItemsOnce`); an id that an attempt, an acknowledgement or the adapter
has was handed over, with the content it had then, and a summary of the window that may still
take items was not (`HandedFirst`); and a fact that another row restates was never handed
over, hence never reminded (`CoveredQuiet`). That a hand-off freezes the content
(`FrozenOnceHanded`) and that a reminder spends the number it carries follow step by step.

*Outbox.* `PInv`: once no start is pending, the current pump will sweep again or has every
requested row ahead of it (`RequestsHeld`), and an attempt is one flush's and claims its
delivery as long as it lasts (`Claims`). A walk up to the row it tries leaves the requested
rows that come later ahead, and counts the others as looked at; a walk to the end of the
missions leaves none owed, or sweeps again.

*Drafts.* `DraftInv`: one call at a time holds the draft (`OneHolds`), so what it repaired is
still so when it activates. Once the rows are repaired no task waits that the plan has not and
none it has was withdrawn (`TasksRepaired`); the member that works has the plan's settings, and
is active as long as the mission was not stopped meanwhile (`MemberRepaired`). The owner cannot
save or discard a draft that is launching, so the copy that is activated is the plan as it was
when the assembly began, though not always the plan as it was saved (Findings).

*Automatic requests.* `StartInv`: a notice is cleared only when its message was flushed
(`OwedOrSaved`), and what was flushed, or waits for it, is in the conversation (`Said`), which
a restart cuts back to what was flushed. An assembly has the draft it wrote, at its revision and
for the current epoch, or the draft has gone past that revision (`Owned`), because a decision that
moves the epoch fences the draft in the same step; and a draft reads as launching only for an
assembly alive. So what is left of a superseded assembly finds nothing that is its own.

*Budget.* `BInv`: a handle that was active when the pause began is stopping until it is
down (`StaleStopping`); every stop in flight for the current pause waits for each of those
handles (`StopsCoverStale`); a quiesced pause has none left; and a new pause takes an id
no stop in flight can hold, since the ids taken are an initial segment (`IdsTaken`).

Several invariants are wider than any property of a run because the property alone does
not survive a step; each was checked by TLC before it was proved.

*Only model-checked.*

- Liveness under fairness, everywhere.
- The properties of `Lineage`, `PlanAdmission` and `Witness`: they are about walks over replacements and dependencies, which the graph
  computes by recursion, and what a recursion computes for every input needs induction
  over data.
- `AcceptedSurvives` and `StartsFromItsWork` (Plan).
- `UsageLedger!TypeOK` says that the pool is the sum of the members' charges, a fold
  over a set; the proofs have the rest. `Review!TypeOK`'s bound on epochs is TLC's.

## Stated and checked outside the runs

The modules state more than the runs check. Each of these was checked by TLC on its own
module, with the constants given (and, for the temporal ones, under `FairSpec`, or
`WatchSpec` where said); those marked * are proved as well.

| module | properties | constants |
|---|---|---|
| `MissionQueue` | `QueueForgotten` | as `mission` |
| `SchedulingPass` | `RotationsComplete`; under `WatchSpec` `HungBodyNamed`, `WindowPublished` | as `scheduling`; the last two with `MaxTeam` 2 |
| `Review` | `AcceptedOnce`*, `NoMootReview`, `RefutedIsFinal`*, `NoSupersededVerified`; `ReviewPathNamed` | as `review`; the last as its admission part |
| `Lineage` | `NoDuplicateCarrier` | as `mission` |
| `StoreWrites` | `RefusalsKept`* | as `store` |
| `StoreRestore` | `RollsBackOnce`, `RestoreCompletes` | `Bounds` of 1 host, 1 crash and 2 faults; `Keep` 2, 2 commits, snapshots and requests |
| `OwnerQuestions` | `SeenIsBooked`*, `SettledOnce`*, `NudgesFirst`*, `IgnoredIsHandedOver` | as `notices` |
| `NoticeLedger` | `FrozenOnceHanded`*, `RemindersNamed`*, `EveryFactReaches` | 2 or 3 facts, a wake budget of 1, 1 reminder, 2 changes, 1 crash |
| `OutboxPump` | `StarvationKept`*, `EveryRowTried` | 2 missions, 2 pumps |
| `BudgetGate` | `QuiescedOnce`*, `StopIsFinal`*, `PauseEnds` | as `launches` |
| `DraftLaunch` | `StoppedForGood` | as `launches` |
| `AutoStarts` | `StopIsFinal`*; `PlanningEnds`, `RecoveryReaches` | as `launches`; the last two with 1 body and no restart |
| `UsageLedger` | `SettledIsCharged`* | as `workers` |
| `WorkerInbox` | `WithdrawnNeverEnters`, `InOrder`, `AcceptedIsTaken` | 2 deliveries, 1 stop or crash |
| `CheckHost` (`HostSpec`, `HostFairSpec`) | `CheckoutStands`*, `RunsEnd` | as `delivery` |
| `DeclaredChecks` | `RetryOnRecord` | as `delivery` |
| `DeliveryApply` | `AppliedOnReceipt`, `OriginalsUnedited` | as `delivery` |
| `ApplyLock` | `EachApplies` | as `delivery` |

## Findings

Places where the code does other than a comment, a test or a document says. The first two have
a run; each of the others is a property of the module named, which TLC finds violated on
the constants given (as the `CONSTANTS` of a configuration of that module with `Spec`, or
`FairSpec` for the last two). `PROJECT.json` quotes the lines on both sides.

| property | module and constants | what happens |
|---|---|---|
| `OutputsAreThePlans` | run `corrected` | a launch fails after a task was admitted and the plan is corrected: the repair writes the task's new fields, but not its outputs, which may then lie outside its scope |
| `WorkIsCarried` | run `carried` | a stop's snapshot stays in the task's record while its member works on; if that attempt ends in a restart or a failed start, the member that takes over starts from the old snapshot |
| `KindsRetained` | `PlanAdmission`, as part "corrected" | a correction is compared with the plan saved before it: a key that one save leaves out and the next brings back may have another kind, and its row keeps the old one |
| `StartsFromItsWork` of a torn task | `Checkpoints`, as part "interrupted" with `torn` left empty | a death between the checkout for the next task and the record of it: the other task's content is then preserved as the old task's checkpoint |
| `NeverStranded` of a torn task | the same | a death between a member's record and its task's: the stop's checkpoint is never confirmed again |
| `FallthroughTrue` | `Witness`, with work for a preferred member and work for anyone | while every member works, work anyone may take is told as work no live path advances, though a member takes it when its own ends |
| `MergedWorkFenced` | `MCMission`, `Missions <- Forks` | where a fork left a second live carrier, the challenge of a repair does not fence the work that merged it |
| `NoPendingCycle` | `MCMission`, as `mission` or with `Missions <- Rings` | two pieces of work are admitted that wait on each other, through a repair withdrawn while its task's stop was owed; `StallDiagnosed` says that no ring comes about in any other way |
| `OneOwner` | `StoreRestore`, `Hosts` {1, 2}, `Keep` 1, `Bounds` of both hosts and a crash, others 0 | two starts after a crash take over the lock one after the other: two runtimes open the file |
| `StagedRestoreApplies` | `StoreRestore`, `Hosts` {1}, `Keep` 1, `MaxSnapshots` 2, `MaxRequests` 1, `Bounds` of the host with no crash or fault | a snapshot that a staged request names is pruned, and every later start fails |
| `UserPauseKept` | `BudgetGate`, as `launches` | usage that settles after the owner's pause turns it into a budget pause, which an extension lifts |
| `OpeningChargedOnce` | `WorkerStarts`, as part "starts" with fences and 2 acts of the owner | a pause drops the entry of a timed-out opening, and its refusal is charged again |
| `NoHandleUnderBarrier` | `Attempts`, as `handover` | a start asked before a fence waits for the old handle's end and opens a fresh one while the barrier checkpoints, though a start is to wait for the previous attempt's stop |
| `QuietWhenInactive` | `WorkerStarts`, as part "starts" with fences and 2 faults | a start that waits behind a barrier's stop opens a handle that neither the barrier nor the pause stops |
| `SavedRevisionLaunched` | `DraftLaunch`, as `launches` | a launch writes its early copy back over a revision saved, or a plan discarded, meanwhile |
| `RollbackPreserves` | `DeliveryApply`, `NP` 2, `MaxEdits` 2, `MaxApplies` 1, `MaxCrashes` 0, `OpenEditors` TRUE | a rollback compares the file it moved aside and then unlinks it: an editor that has it open and saves between the two loses the edit |
| `OneApplier` | `ApplyLock`, 2 hosts, no crash, `MaxRuns` 2 | a contender's rename moves away the lock a third application has just made |
| `ReceiptIsProof` | `DeliveryApply`, as part "apply" with no crash | the receipt takes its fingerprints after the last comparison, and an edit in between counts as the applied state |
| `ReachesLastMission` | `OutboxPump` (`FairSpec`), `NM` 3, `NR` 1, `NP` 2, `Passes` {}, `Bounds` with a row of each mission to its owner, no change, no crash | while two missions' deliveries hang, no sweep reaches the third |
| `MessageUnparks` | `WorkerInbox` (`FairSpec`), as part "parked" with no crash | a message accepted just before its member's handle is stopped wakes nobody, and the member stays parked |
| `CatchesUp` | `LiveView` (`FairSpec`), as part "panes" with a restore, no lost request and no act | a pane whose cursor the restored store has caught up with never re-reads what the restore rolled back |

Two things a reader of the code may wonder about are deliberate there and modelled so.
After its capture, the lease expiry asks only whether the attempt is still held: a
renewal recorded during the capture does not save it (`ExpireFinish`). And a failed
start re-pends running work with no stop marker (`StartFailedRow`), which is safe
because a failed start means that no handle is up; `OneHandlePerTask` shows it.

## What is not modelled

- *Git itself* (`src/git-snapshot.ts`, `src/arena.ts`): files, merges, conflicts, ignored and
  declared outputs. Their outcomes are choices of the actions that await them; `Checkpoints`
  has the order of the writes, `CheckHost` the disposable checkouts of the checks and
  `DeliveryApply` the owner's checkout.
- *What the absence net adds* (`src/notices.ts`): silence of operations and attempts.
- *Check commands and texts* (`src/admission.ts`): which shell command a worker's checkout
  can run, which words of an objective assume prior work, which path is a legal selector.
  `PlanAdmission` has the rules on what these decide, `Lineage` the admission of repairs.
- *Eligibility and order of dispatch* (`src/scheduler.ts`): roles, scopes and priorities.
- *Tools, web API, plugin entry, projections, traces, the web client*: they read, or call
  operations modelled elsewhere. `LiveView` has the state and watch endpoints and the
  monitor, `StoreRestore` the start's restore.
- What single modules leave out is said in their sections above and in `PROJECT.json`,
  component by component.

## Plan

Built: the ten groups of modules above, and the proofs of eight modules. Left, in order:

1. `Lineage`: what holds of the commits without unfolding a walk.
2. `NoMootReview` and `NoSupersededVerified`, by the invariant of `ReviewProofs`.
3. `AcceptedSurvives` and what `StartsFromItsWork` rests on, proved.

## Running

From this directory:

    tlc -config AttemptsHandover.cfg MCAttempts.tla
    tlapm AttemptsProofs.tla

`Attempts*.cfg` go with `MCAttempts`, `DeliveryCarried.cfg` with `MCDelivery`,
`MissionCorrected.cfg` with `MCMission`, and each of the others with the `MC` module of its name.
