# Formal models of the ts-cloud control plane

ts-cloud keeps its control plane in one SQLite file that several processes open: the dashboard
server with its queue worker, every CLI command, the API. What makes it hard is there: claims,
leases, locks, retries, cancellations, crashes and recovery of *durable operations*, and the
features built over them. This directory models that part in TLA+, checks it with TLC on small
instances and proves the core of it with TLAPS.

Paths below are relative to `packages/ts-cloud/src` unless they begin with `docs/`.

## Inventory

| Component | State | Operations | Interacts with | Hard behaviour |
|---|---|---|---|---|
| store (`control-plane/store.ts`) | `operations` rows with state, attempt, version, lease | create, claim, transition (compare-and-set on `version`), request cancellation, reconcile | everything | several processes; idempotency keys |
| queue (`queue/queue.ts`) | `operation_jobs`, `operation_locks`, limits | enqueue, claim, heartbeat, cancel, retry, finish, runOne, recoverExpired, clearCompleted | store, handlers, worker (listener) | gaps between statements, stalls, crashes, timeouts racing results |
| worker (`queue/worker.ts`) | `running`, one promise per lane, sleepers | start, stop, wake, settled, drain | queue | lost wake-ups, one poll timer, shutdown |
| tracked operations (`deploy/dashboard-control-plane.ts`) | one operation per dashboard request | enqueue + claim + execute + complete/fail; recovery at start-up | queue | no heartbeat during `execute()` |
| releases (`release/*.ts`) | `releases`, approvals, transitions | create, approve, activate, health gate, rollback, promote, pin | queue, provider driver, API, CLI | read before an await and used after; enqueue and mark are two steps; idempotency keys |
| scheduled jobs (`jobs/*.ts`) | `scheduled_jobs` with `next_run_at`, `job_executions` | tick, dispatch, run by hand, enable, edit, remove, handler | queue, provider's schedule | overlap and missed-run policies, one slot dispatched twice, crash inside a tick |
| spend control (`spend/*.ts`) | budgets, `spend_enforcements`, the gate, the lease | evaluate, enforce, release, reconcile the gate | transports, CLI, handlers that ask the gate | lease taken once per cycle, record and traffic written one after the other |
| previews (`preview/*.ts`, their part of `source/webhooks.ts` and `queue/deployment-handlers.ts`) | `preview_instances`, `source_webhook_deliveries` | deliver, deploy, rebuild, destroy, clean up, extend | queue, provider's stack | keys that outlive their operation, late handlers, repeated deliveries |
| backups (`backups/*.ts`) | policies, `recovery_points`, `backup_jobs` | back up, verify, restore, protect, retention | queue, sources, destinations, CLI | retention against restores, a cleanup that fails between mark, deletion and record |
| plans, site move, rename (`operations/*.ts`) | files and services on two boxes | satisfied/apply steps, resumable | drivers, DNS | re-run after a failed step |
| maintenance, placement, fleet, deployments | status records | queue handlers | queue | status left behind by a lost handler |
| alerts (`alerts/*.ts`) | rules, `alerts`, silences, channels, routes, `notification_deliveries` | evaluate, silence, enqueue, deliver, retry | dashboard sweeps, CLI, channels' endpoints | sweeps that overlap, notices told late, deliveries read before an await and written after it |
| other webhooks, auth, telemetry, configuration, compose | records | reads and writes | providers | – |
| server, API, drivers, AWS clients, CloudFormation, certificates | – | routing, shell scripts, API calls, templates | outside world | pure I/O or pure functions |

What makes each correct:

* **store and queue** – one executor per operation and per resource lock; limits respected by all
  processes together; a lease exactly while running; no cancellation lost; attempts bounded; the
  documented life cycle; queued work moves and running work ends in spite of crashes.
* **worker** – due work is found however wake-ups are lost; after `stop()` every lane ends, so that
  `settled()` resolves.
* **tracked operations** – as for the queue; they are where it fails.
* **releases** – one active release; success means that the provider serves what the store says; an
  activating release has somebody working on it; the traffic is where the store says.
* **scheduled jobs** – `next_run_at` moves only past runs that are queued; a dead run never starts
  again; dispatching a slot again changes nothing.
* **spend control** – two loops do not enforce at once; an active record is in force; overspending is
  answered; what is lifted by hand comes back while the budget stays overspent.
* **previews** – what is recorded as destroyed is gone; an answered delivery has its operation.
* **backups** – retention leaves what it promises and spares what is held or being restored; an
  available point has its object.
* **alerts** – an incident is announced once, whatever happens to it, and not passed over without a reason.

## Modules

| Module | Models | Theorems |
|---|---|---|
| `OperationLifecycle` | Abstract specification: what one operation's state and attempt counter may do, whoever runs it. | |
| `DurableQueue` | store and queue tables and every process that uses them, one action per SQL statement or transaction; tracked operations and start-up recovery. Implements `OperationLifecycle`. | `DurableQueueProofs` |
| `QueueWorker` | The lanes of one worker process, one action per run of the event loop. | `QueueWorkerProofs` |
| `ReleaseActivation` | The release store, service and handlers over an abstract queue and an external provider. | `ReleaseProofs` |
| `ScheduledJobs` | One scheduled job: ticks, commands, executions and their operations. | `ScheduledJobsProofs` |
| `SpendEnforcement` | The spend loops under their lease, records, gate and traffic. | `SpendProofs` |
| `Previews` | One preview environment: deliveries, requests, cleanup, its operations and its stack. | `PreviewsProofs` |
| `Backups` | The recovery points of one policy: backups, verification, restores, retention. | `BackupsProofs` |
| `Alerts` | One alert of one rule: evaluation, silences, notices and their deliveries. | `AlertsProofs` |
| `MCDurableQueue`, `MCQueueWorker`, `MCReleaseActivation` | Instances for TLC: the named values the `.cfg` files choose from. | |
| `MCServices`, `MCLoops` | Instances of several components that share no variable, see Runs. | |

`DurableQueue` answers for the others. `QueueWorker` takes from it only whether a job is due,
claimed or left running; the service modules take an operation with its attempts, its end and its recovery,
and that at most one operation of a resource runs at a time. A handler may go on after its operation was
ended, in every module of a service.

Each module defines operators named `Mutant_...` directly before the operator they distort. They
are wrong versions of the code (a dropped guard, a missing reset, an off-by-one), and no definition
uses them; each shows that a property fails when the code is wrong in that way. `PROJECT.json`
says which mutant breaks which property, and which source lines each definition stands for.

### DurableQueue and the code

* `row` is the `operations` table, `job` the `operation_jobs` row (missing, not yet due, due),
  `lock` the `operation_locks` table. `proc` is where each process is in the call it has begun;
  `holds` says of which rows the version it has read is still current, which is all that
  `transitionOperation` asks of versions. `abandoned` has the handlers that run on after `runOne`
  lost the race to an abort.
* A lane is an executor: a worker lane in `runOne`, or a request in `trackDashboardOperation`. A
  client enqueues, cancels and retries; those in `Recoverers` also initialise the control plane and so recover.
* Each statement is a step, since every other process may run between two. Between statements of
  lanes of one process nothing runs in reality; the model allows it, which only adds behaviours.
* Time is what the code compares: an expired lease (`leased`, `live`), a past `available_at`.
  A lane that is not in `Stalling` heartbeats in time, so its lease does not lapse
  (`KeptAlive`); the heartbeat's own three statements are one step.
* Not modelled: logs and events; changing the limits (`configureConcurrency`) and limits cached per
  queue object; priorities beyond a constant order; the `resource`-less listings; reuse of a worker
  id by a new process before the old one's leases lapse; the retention date (`Clearable` operations
  may be selected at any time after they ended).
* `clearCompleted` is two steps: `ClearCompleted` selects what has ended, `ClearRow` deletes one selected row by
  its id, whatever has become of it.

### QueueWorker and the code

`pc` says at which await a lane's promise is. `loop` is the head of `runLane`, which calls
`claimNext` without an await in between; `handled`, `empty` and `failed` are the continuations of
`runOne`; `asleep` is `wait()`. `Armed` is the `setTimeout` only the coordinator's wait makes. Claims and ends may
fail in any lane. `stray` exists in the model only: the lanes without a timer whose `runOne` rejected after `stop()`.
`drain()` and a second `start()` before the first has settled are not modelled.

### ReleaseActivation and the code

`op` is indexed by idempotency key, as `createOperation` treats it. `handler` has the handlers at work, each
with what it read before it awaited the driver (`seen` is the rollback target's status then), and whether its
operation still waits for it (`awaited`). A cancellation or a time-out (`LetGo`) ends the operation and frees the
lock at any await, before, in or after the driver; the handler goes on, may move the traffic and write the
release, and meets the handler of the next operation. What stops it is the checkpoint after the driver, a
heartbeat, which only asks whether the operation runs under this worker's id: a retry that was claimed meanwhile
lets the old handler pass too (`StillRuns`). All handlers run on one thread; between two awaits only other
processes do anything.

`call` is a client between `queue.enqueue`, the read of `releases.transition` and its `UPDATE`, which
names no state; a client in the worker's own process (`LocalClients`) has no such gaps and never interrupts a
handler's synchronous parts. The provider is external: a driver that succeeds makes it serve the wanted
release, one that fails may or may not (`half_done`). Statements of one `transition` are separate
steps, because it uses no transaction. Not modelled: handlers in several processes, health reports
from the API, promotion (which is `Create` for another resource), artifacts, pins, retention, traffic
percentages.

`SuccessIsReal` is said of operations that began when no handler of an ended one was at work (`beside`), and
excepts a release that such a client has taken from active back to activating (`remarked`); without either, TLC finds an
operation that succeeds while the provider serves another release, or the store calls none active.

### ScheduledJobs and the code

A run is the idempotency key of its execution row and of its operation: a slot of the schedule, or the
call that asked for it. `dispatcher` is where a process is in `JobService.enqueue`, with what it read of
the job when it began (`tick` uses that copy to the end). `jobOp` is the run's operation, `executor` its
handler, `late` the attempts whose executor answers after the operation ended. `alone` is the lock:
the job's or, under `allow`, the execution's own. Jobs share nothing but the tick that visits them in
turn, so one is modelled.

Not modelled: cron expressions, start and end dates, edits of the retry policy, reconciliation with the
provider. What the model shows and no text of the repository rules out: under `forbid` the row of an
enqueue that was cut off counts as active, so that the run is skipped and lost (`MarkedRunsAreQueued`
is stated for the other policies); a late answer overwrites a newer status; a tick that was overtaken
by an edit moves `next_run_at` back to what it had read.

### SpendEnforcement and the code

A cap is one enforcing action of one budget. `record` has the states of its rows in
`spend_enforcements`, `gate` its entry in the setting every spending caller asks, `cut` what the
transport did. Only caps in `Equipped` have a transport. Without one the applier succeeds all the same and marks what it
did unsupported (`spend/appliers.ts:128-130`): the record becomes active, the gate has the cap, and no traffic is
cut. So it is with the dashboard and the commands of this repository, which give the loop none. `waived` exists in the model
only: the caps whose entry an operator, or the reconciliation of a budget that is off, has taken out again. What a budget spends is reduced to over, near (kept by hysteresis) and below its
threshold. `cycle` is where a process is in `runEnforcement`: the decisions of all budgets are made
first, then carried out one by one. `FreeRow` is how fresh row ids are drawn from the few of the model. Processes in `Unleased` run `spend:work --once` and `spend:check --apply`.

Not modelled: forecasts, approvals, anomalies, notifications. Gate operations and the two statements of
`budget:delete` are single steps. The model shows: a release
that failed stays `releasing`, and as the lifts are chosen among active records it is not tried again while spending
stays below, although the comment at `spend/enforcement.ts:195` wants the next cycle to; a crash while a
record is pending and spending falls, a dry-run switch, and disabling or deleting a budget leave the traffic cut; an
apply that failed leaves its entry in the gate.

### Previews and the code

`deployment` is indexed by idempotency key: a deployment by commit, a teardown by the delivery or the
request that asks for it. `request` is a call between `upsert`, `enqueue`, the mark and the answer;
`stack` is the provider's, and says whether its last deployment was that of a running operation.
A thrown checkout writes nothing, a failed command writes `failed` or `cleanup_failed` and may have done its work.

A cancellation or a time-out ends the operation while its command runs, and frees the lock. `overrun` has the
handlers and commands that go on: the command is asked to stop and may do its work all the same, after any
operation that came next; the command of a worker that died goes on without a handler. A handler then looks for a cancellation
only, so that one that has timed out records its result, `destroyed` too, over whatever has been recorded since
(`lateRecord`). `DestroyedMeansGone` says that there is nothing else: a preview that the teardown of a
running operation called destroyed has no stack but that of a command that outlived its operation.

Not modelled: definitions, quotas, reconciliation, resources. States
the model reaches that no text excludes: a preview deploying or destroying for ever after a crash (the
cleanup leaves out `destroying`); a preview queued for ever because the key of its commit or its reason was used;
`active` written late over a newer status; a deployment retried after a teardown brings the stack back. A crash between
`upsert` and `enqueue` makes the redelivery find nothing changed, so that it is ignored, although
`docs/features/preview-environments.md` calls webhook retries idempotent; `AnsweredDeliveriesHaveWork`
is about deliveries answered as enqueued.

### Backups and the code

`point` is `recovery_points` (`stored` is whether the destination has the object), `backupJob` is
`backup_jobs` by idempotency key, `task` the operations a job was given: the second copy is the one
enqueued when a process ended before it attached the first. `asking` is a call of the coordinator,
`running` the handlers. The dashboard is one thread, so that only `recovery:*` commands (`Shells`) run
between two statements of a handler; what they may ask for is `ShellAsks`. `recovery:protect` is not among it:
it reads a row and rewrites all of it, the status included, so that it may call available again what a cleanup has
marked meanwhile. Nothing is shown of backups beside that command; `Protect` is the dashboard's.

`held` stands for hold, pin and object lock; of the tiers of retention days stand for all. Not modelled:
destinations and their capacity, multipart uploads and their resumption, safety backups of in-place
restores, coverage. The model shows, and nothing
promises otherwise: `enqueueDue` advances the policy first, so that a crash loses the backup; a cleanup
that failed after its mark is never repeated, because candidates are available points and its key is
used; a restore that was cancelled or recovered leaves its job open, which protects its point for ever.
`ProtectionHolds` needs that restores are asked for in the dashboard: with `"restore"` in `ShellAsks`, TLC finds
a command that comes between check and mark.

### Alerts and the code

`alert` is the row an evaluation reads and rewrites, `deliveries` is `notification_deliveries` by idempotency
key, `telling` what a sweep has evaluated and not yet enqueued, `sending` the calls of `deliver` that await the
endpoint with the attempt they read. `incident` counts when the alert became firing or silenced, and
`untold` the announcements that could not be made; both exist in the model only. Time is the number of the
sample: `firingAt` and `resolvedAt` matter as parts of keys, `silencedUntil` against the next samples.

`IncidentsAreTold` excepts what the code does not do, and nothing promises: a rule with `consecutive = 1`
keeps `firingAt` from the last incident, so that the next one has a key that is used and is not announced
(without the exception TLC finds it in the same instance);
a transition while the channel is `failing`, or seen by `alerts:evaluate`, is never announced later. The
model also shows that an alert that never fired is announced as resolved, and that two sweeps may send
one delivery twice, since `deliver` does not claim the row before it awaits. Not modelled: health checks, reminders and
escalations (whose keys name no incident), group-by, two processes inside one evaluation, several routes and channels.

## Runs

| Run | Expect | Question | Instance |
|---|---|---|---|
| `queue_recovery` | pass | Is execution exclusive and covered by lease and lock, are attempts bounded and cancellations kept, when workers and clients crash anywhere? | 2 operations on one lock, 2 single-lane processes, 2 clients of which one recovers, 2 crashing processes, one operation that its lane and a client may retry |
| `queue_stalled` | pass | What still holds when lanes are suspended for any time and tracked operations do not heartbeat? Includes the refinement of `OperationLifecycle`. | 1 queued operation that is retried and cleared + 1 tracked that is cleared, limit 1, both lanes of one process |
| `queue_progress` | pass | Does queued work move and running work end? | 2 operations on one lock, one of them retried, one process crashing, window 1, fair |
| `queue_attempts` | violation | Are attempts bounded when a lane is suspended? | 1 operation, 2 attempts |
| `queue_tracked` | violation | Is execution exclusive when an operation is tracked by a dashboard request? | 1 + 1 operation on one lock |
| `worker_poll` | violation | Is the fallback poll always armed when a lane is idle? | 2 lanes, 2 jobs |
| `release_stuck` | violation | Has every activating release somebody at work on it? | 2 releases, no fault but a failing driver |
| `release_traffic` | violation | Does the provider serve what the store calls active? | 3 releases, no fault |
| `services_safety` | pass | The safety of releases, jobs, previews, backups and alerts, each under crashes, cancellations, retries, time-outs and commands that fail half-way. | below |
| `jobs_dispatch` | violation | Does dispatching a slot again leave its operation alone? | 2 slots, one tick and one command, no mishap |
| `loops_live` | pass | Is due work found and does a stopped worker settle; is overspending answered, by one loop at a time, and do records tell the truth, with a transport and without? | below |
| `spend_lifted` | violation | Does a cap that was lifted by hand come back? | 1 cap, 2 loops, fair |

`services_safety` and `loops_live` each check several components that have no variable in common. A
behaviour first chooses one (`service`, `loop`) and then takes steps of that one alone: of components that share
nothing, every reachable state of all together is made of reachable states of each. Fairness too is owed only to the loop that runs.

Instances of `services_safety`:

* releases – two, one behind an approval, with a named health gate and operations that may be cancelled, one with
  automatic rollback; two handlers at a time; a client in a process of its own; three operations (such as two activations and a
  rollback), one rollback of each release; crashes, drivers that fail half-way or
  cannot be had. Time-outs are what the theorems add: to a handler they are cancellations.
* jobs – two slots and one more run, a tick, a command; `forbid` with `skip` and `replace` with
  `catch_up`; two attempts; one mishap (an edit, crash, cancellation, time-out or retry by hand);
  under `replace` either a command comes or a mishap.
* previews – one commit, a push and a closing delivery, one caller, two incidents.
* backups – three backups, two points of one day and one of the next; the newest is kept, and the newest of each of
  two days; all but the last backup are made and verified before anything else happens. Retention is asked for by the
  dashboard and by a command. They are run twice: one upset and no command, then a command that may be
  interrupted anywhere and no upset.
* alerts – four samples, a rule that fires at the second failure and one that fires at the first, two deliveries in
  flight, one act of an operator, a command or a restart. Four samples let an alert fire,
  be silenced and fire again, lose its data and fire again, or resolve and fire again.

`loops_live` has three lanes, three jobs of which two come from other processes, a claim limit of two, and claims and ends that
fail in every lane; and a cap with a transport or one without, a dashboard and a `spend:work` loop, one record row, two troubles.

Why the bounds are enough for the questions: two lanes and one client are the smallest set in which
claim, end and recovery of the same operation overlap, and a second client lets a request overlap the recovery; two operations on one key exercise the lock,
two attempts the difference between the last attempt and an earlier one. A third release is what a
stale rollback needs; two slots are a run and one to be confused with it, three points one that is the newest,
one that is the newest of its day alone and one that may go, two loops the contention for a lease. A mishap interrupts each of the hazards above once; the proofs
cover any number. Every bound the model adds is named and commented where it is declared;
attempts of the queue are bounded by the code itself except in `queue_attempts`, which stops at the violation.
Deadlock checking is off in every run: the system stops when all work is done.

What the violations show is told under `findings` in `PROJECT.json`, with the text each contradicts.

The two sides of one property are deliberate. `HandlersExclusive` and `AttemptsBounded` hold in
`queue_recovery`, which assumes four things that the theorems assume too, and TLC finds a violation when one is dropped:

* every lane heartbeats in time (`Stalling = {}`; dropped in `queue_attempts`);
* no operation is executed by a dashboard request (`Tracked = {}`; dropped in `queue_tracked`);
* one process recovers at a time. No run is kept for this: with `Recoverers = {c1, c2}` TLC finds
  `HandlersExclusive` violated in the same instance;
* no retry by hand is disturbed (`RetriesUndisturbed`, the `CONSTRAINT` of the run). Nobody retries an operation
  while the process that ended it or put it back is between that write and its `release()`, which deletes
  by operation id: if the retried operation is claimed in that gap its new lock goes. And no client is
  carrying out a request to cancel when a retry clears it, or it ends what a lane has meanwhile started.
  Without the constraint, or with any part of it dropped, `ExecutionIsCovered` is violated in the same instance.

`ImplementsLifecycle` needs that no row is put back between the two steps of `clearCompleted`
(`HistoryUndisturbed`, the `CONSTRAINT` of `queue_stalled`), and the theorems about execution assume that too:
the deletion asks for nothing but the id, so that a row that was retried is lost while it waits or runs. Without the constraint
TLC finds `ImplementsLifecycle` violated. A retry that is complete before the selection, or comes after the deletion, is part of the run.

Spend control is alike: with a loop in `Slow` two cycles overlap, and with a process in `Unleased` a cycle
activates a record that another one is lifting (`ActiveIsInForce`).

### Fairness

* Queue: a live process finishes the call it is in, and a lane keeps looking for work (the worker's
  poll). A handler returns, throws, or is given up at its timeout, which every job has. Clocks advance.
  Some process runs `initializeDashboardControlPlane` again and again, since practically every CLI
  command and each start of the dashboard does; without that nothing recovers a crashed worker. Nothing is
  assumed about crashes, cancellations or users.
* Worker: promises that settled are resumed, handlers end, the timer fires, clocks advance. Strong fairness of
  a lane's claim says only that claims do not throw *every* time a lane tries. `StopSettles` says where each lane
  is in the end: a lane other than the coordinator that rejects after `stop()` goes to sleep without looking at
  `running` and nobody wakes it, so that `settled()` does not resolve (`runLane`'s catch path); all others end.
* Spend control: each loop ticks (its interval), a cycle that has begun goes on while its process lives,
  and the lease of a process that is gone runs out. Weak fairness is enough, because a loop that is
  refused the lease tries again at its next tick. Nothing is assumed about usage, operators or transports.
* Releases, jobs, previews, backups and alerts: only safety is checked.

## Theorems

Each module of proofs holds for every value of the constants that satisfies the assumption of the module
it is about. Nothing else is assumed unless the theorem says so.

**DurableQueue**, under `ConstantsAssumption`:

* `TypeCorrect` – `[]TypeOK`, inductive together with the facts that a call's operation is real
  while it is used (`TypeInv`). One lemma per group of actions, then the composition.
* `LeasesCorrect` – `[]LeasedIffRunning`. `LimitsHold` – `[]LimitsRespected`: counted over finite sets;
  only a claim adds a running operation, and it counts first, in the same transaction.
* `CancellationPreventsStart` – the action property `CancelledNeverStarts`.
* `LifecycleImplemented` – the refinement of `OperationLifecycle`, under `[]HistoryUndisturbed`.

The argument of the last four is one classification. `RowSteps` shows, action by action, that every step
leaves the table `row` alone or changes one operation in one of a few ways (`RowStep`: insertion, claim, a legal
transition, a lease or cancellation flag, deletion). Leases, limits, cancellations and the life cycle
are then each a short case analysis over `RowStep`, independent of who made the step and why.
These theorems restrict neither stalls nor crashes nor tracked operations. Nor does

* `RecoveryHeedsCancellation` – the action property `RecoveryKeepsCancellation`, from `WantedInv`: a recovery whose
  read of the row it is about to put back is still current knows that nobody has asked to cancel it,
  because a request bumps the version.

Three need `OrderlyUse` (no stalls, no tracked operations, one process that recovers), `[]RetriesUndisturbed` and
`[]HistoryUndisturbed`, each shown necessary above; a lane's own retry after a failed attempt needs none:

* `ExecutionCovered` – `[]ExecutionIsCovered`. `HandlersExclude` – `[]HandlersExclusive`. `AttemptsStayBounded` –
  `[]AttemptsBounded`. `OrderlyWithoutRetries` – all three, without the last two conditions, where no job allow-lists a retry class.

They follow from one invariant, `CoverInv`: what a lane and what a client knows of the tables at each place of its call
(`LaneKnows`, `ClientKnows`), that an operation has one holder, and that what waits has an attempt
left. A lane holds an operation also after it has put it back for a retry, until it has deleted the
lock: that lock keeps others from claiming it in between (the `INSERT` of `claim` throws). The properties alone are not inductive: a recovery must know that nobody executes what is on its list (`Lost`), a
cancelling client that its operation does not run and will not be claimed (`Withdrawn`), a retrying one that what
it read has ended with an attempt left while its version is current (`RetriesCounted`), and whoever
deletes locks that the operation has ended or is put back. The proof separates the two halves of such an argument. `CoverKept`
shows, once, that processes go on knowing what they know beside a step that `Spares` them (the rows
they hold, the locks they have, the ends they rely on); then each action is shown to spare
the others and to leave its own actor with what it must know.

**QueueWorker** – `WorkerTyped`: `TypeOK`, which includes that a lane has a job exactly while it
executes, is inductive as it stands.

**ReleaseActivation** – `ReleasesTyped`, `OneReleaseActive`, `SuccessIsNeverClaimed`, all from `ReleaseInv`.
`OneActive` alone is not inductive: marking a release active and superseding the one before
are two statements, and one must know that between them nobody else makes a release active: not a client, and not
another handler, since all are on one thread (`Together`). `Relies` follows a handler from the driver's answer to the end
of its operation, as long as it is the one the operation waits for and began alone; the rest of
`ReleaseInv` says that an operation that may start has an attempt left (`AttemptsCounted`), belongs to
a release that exists (`OperationsKnown`), and which way a handler goes (`Knows`, `Way`, `Front`).

**ScheduledJobs** – `JobsTypedAlways`, `DeadRunsStayDead`, `DueRunsAreQueued`, from `JobsInv`: a verdict is
given on an attempt its operation has counted, also by an executor that answers late; a row is
attached to an operation that exists, and operations are never deleted; and a call that is about to move `next_run_at` has queued its run.

**SpendEnforcement** – `SpendTyped` without condition; `LeaseExcludes` (`Slow = {}`): a loop that works holds a
valid lease. `ActiveMeansInForce` (`Slow = {}` and `Unleased = {}`): then one process writes at a
time, and a record is active only after its gate was opened, and, where there is a transport, between the cut and the mark
that precedes the restoration. The conditions are those without which TLC finds the property violated.

**Previews** – `PreviewsTyped`, `DestroyedPreviewsAreGone`, `AnsweredDeliveriesAreStored`, from
`PreviewInv`: one operation of a preview runs at a time (its lock), the handler that is about to write
has done what it will write, and a call knows the target of its delivery. Given-up handlers are left out of that: what they
do to the stack or the record is what `stack` and `lateRecord` remember.

**Alerts** – `AlertsTyped`, `IncidentsTold`, from `AlertInv`. The type alone bounds the attempts of a delivery, so it needs
an account of who pays for them (`TriesCounted`): an attempt beyond the third is paid for by an operator who asked,
or by the pause that ended the third without an answer. That an incident has one notice is a statement about keys
(`IncidentsKnown`): while the alert is raised its notices carry the alert's `firingAt`; an alert that has failed since it
was resolved has a `firingAt` no earlier incident used, because the sample is newer than every notice; and a key that
lasts is of one incident. A router that works on old evaluations neither makes nor loses a notice
(`RouterCarries`), which leaves `Evaluate` and `Silence`. With `consecutive = 1` a key does not last: that is the exception in the property.

**Backups** – `BackupsWellTyped`. `AvailablePointsExist` (`ObjectsInv`: a cleanup that is about to delete
an object has marked its point, and a point that no backup made is absent). `RetentionKeeps` (`OneThread` and
`MarksCandidates`: between the check and the mark the dashboard's thread does nothing else, so what the check found
still holds; the newer points and days are counted over finite sets). `ProtectionRespected`
(`OnlyDashboardRestores => ...`, from `ShellsNeverRestore` and `MarksUnprotected`): the condition is the one without which
TLC finds the property violated.

Only model-checked: liveness (`QueuedWorkMoves`, `RunningWorkEnds`,
`DueWorkStarts`, `StopSettles`, `OverspendIsAnswered`) stays with TLC: fairness is beyond the prover.

## Not modelled, and next

* Plans, site move and rename, drivers, certificates: shell commands and authorities whose behaviour
  is not in this code. AWS clients and CloudFormation: pure functions over large data, most of the repository's lines.
* Placement, fleet, maintenance, automation: records and handlers of the shape of
  `Previews` and `Backups`; the next to model, maintenance windows first.
* Identity, telemetry, configuration, rendering: reads and writes of single rows.
* Health reports of releases from the API, promotion beyond a creation, `drain()` of the worker, changing
  limits: actions the modules above could take up.
* Proofs left: `OverspendIsAnswered` and the other liveness properties are out of the prover's reach; what `alone` and the
  like assume of the queue in the service modules could be derived from `HandlersExclude` by composing them with it.
