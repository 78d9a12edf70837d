--------------------------- MODULE ScheduledJobs ---------------------------
(***************************************************************************)
(* The runs of one scheduled job: JobService, JobStore and the handler of  *)
(* job.execute (jobs/*.ts), over the durable queue.  Jobs share nothing but*)
(* the tick that visits them in turn.                                      *)
(*                                                                         *)
(* Slots are the occurrences of the schedule, numbered in order; the clock *)
(* says which have come.  A run is a slot, whatever triggers it, or the    *)
(* call that asks for one by hand; it is the idempotency key of its row in *)
(* job_executions, and the row that of its operation.                      *)
(*                                                                         *)
(* A step is one statement on the database: the process that dispatches    *)
(* runs may end between any two, and others run in between.                *)
(***************************************************************************)
EXTENDS Naturals, FiniteSets, Sequences

CONSTANTS
    LastSlot,        \* bound of the model: the clock stops there
    MaxRuns,         \* bound of the model: slots that come and runs asked for by hand
    Tickers,         \* processes that tick: dashboards
    Commands,        \* calls of jobs:run and jobs:dispatch, a process each
    Plans,           \* [overlap, missed] policies the job may have
    RunAttempts,     \* retryPolicy.maxAttempts
    CatchUpLimit,    \* runs one tick catches up on
    MaxMishaps,      \* bound of the model: edits, crashes, cancellations, timeouts and
                     \* retries by hand, together
    NoRun

Slots == 0..LastSlot
Runs == Slots \cup Commands
Dispatchers == Tickers \cup Commands

ASSUME JobsAssumption ==
    /\ {LastSlot, MaxRuns, MaxMishaps} \subseteq Nat /\ {RunAttempts, CatchUpLimit} \subseteq Nat \ {0}
    /\ Plans # {} /\ Plans \subseteq [overlap : {"allow", "forbid", "replace"}, missed : {"skip", "catch_up"}]
    /\ Commands \cap (Nat \cup Tickers) = {} /\ NoRun \notin Runs

VARIABLES
    clock,       \* the last slot that has come
    schedule,    \* the row of scheduled_jobs: policies, enabled, next_run_at
    execution,   \* job_executions: status, and whether its operation is attached
    history,     \* the executions in the order of their creation
    jobOp,       \* the operation of every run
    executor,    \* where the handler of a run is
    late,        \* attempts whose executor goes on though their operation has ended
    dispatcher,  \* the call of JobService.enqueue a process is in
    mishaps

jobsVars == <<clock, schedule, execution, history, jobOp, executor, late, dispatcher, mishaps>>

Dispatching == {"look", "skip", "create", "enqueue", "attach", "next"}
AtRest == [pc |-> "idle", via |-> "tick", run |-> NoRun, due |-> 0, at |-> 0,
           plan |-> CHOOSE p \in Plans : TRUE]

\* The rows, operations, handlers and calls are well typed.
JobsTypeOK ==
    /\ clock \in Slots /\ mishaps \in 0..MaxMishaps
    /\ schedule \in [plan : Plans, exists : BOOLEAN, enabled : BOOLEAN, next : 0..LastSlot + 1]
    /\ execution \in [Runs -> [status : {"absent", "queued", "running", "succeeded", "failed",
                                         "skipped", "dead"}, attached : BOOLEAN]]
    /\ history \in Seq(Runs)
    /\ jobOp \in [Runs -> [state : {"absent", "queued", "running", "succeeded", "failed",
                                    "cancelled", "timed_out"},
                           tries : 0..RunAttempts, cancel : BOOLEAN, alone : BOOLEAN]]
    /\ executor \in [Runs -> {"none", "executing", "succeeded", "failed", "retry"}]
    /\ late \in [Runs -> SUBSET (1..RunAttempts)]
    /\ dispatcher \in [Dispatchers -> [pc : {"idle", "gone"} \cup Dispatching,
                                       via : {"tick", "external", "manual"},
                                       run : Runs \cup {NoRun}, due : Slots, at : Slots,
                                       plan : Plans]]

JobsInit ==
    /\ clock = 0 /\ mishaps = 0
    /\ \E p \in Plans : schedule = [plan |-> p, exists |-> TRUE, enabled |-> TRUE, next |-> 1]
    /\ execution = [r \in Runs |-> [status |-> "absent", attached |-> FALSE]]
    /\ history = <<>>
    /\ jobOp = [r \in Runs |-> [state |-> "absent", tries |-> 0, cancel |-> FALSE, alone |-> FALSE]]
    /\ executor = [r \in Runs |-> "none"]
    /\ late = [r \in Runs |-> {}]
    /\ dispatcher = [d \in Dispatchers |-> AtRest]

Mishap == mishaps < MaxMishaps /\ mishaps' = mishaps + 1

-----------------------------------------------------------------------------
(* JobService.tick, jobs:run and jobs:dispatch.                            *)

Begin(d, via, run, due, at) ==
    dispatcher' = [dispatcher EXCEPT ![d] =
        [pc |-> "look", via |-> via, run |-> run, due |-> due, at |-> at, plan |-> schedule.plan]]
Goto(d, pc) == dispatcher' = [dispatcher EXCEPT ![d].pc = pc]
Rest(d) ==
    dispatcher' = [dispatcher EXCEPT
        ![d] = IF d \in Tickers THEN AtRest ELSE [AtRest EXCEPT !.pc = "gone", !.via = dispatcher[d].via]]
At(d, pc) == dispatcher[d].pc = pc

Due == schedule.exists /\ schedule.enabled /\ schedule.next <= clock

ByHand == {d \in Commands : dispatcher[d].via = "manual"}
AnotherRun == clock + Cardinality(ByHand) < MaxRuns

\* The job is read once: the tick goes on with what it has read.
TickReads(d) ==
    /\ d \in Tickers /\ At(d, "idle") /\ Due
    /\ Begin(d, "tick", schedule.next, schedule.next, clock)
    /\ UNCHANGED <<clock, schedule, execution, history, jobOp, executor, late, mishaps>>

\* jobs:dispatch: the provider's schedule triggers the slot that has just come, or one it
\* names.
DispatchSlot(d, slot) ==
    /\ d \in Commands /\ At(d, "idle") /\ schedule.exists /\ schedule.enabled
    /\ slot \in 1..clock
    /\ Begin(d, "external", slot, slot, slot)
    /\ UNCHANGED <<clock, schedule, execution, history, jobOp, executor, late, mishaps>>

RunByHand(d) ==
    /\ d \in Commands /\ At(d, "idle") /\ schedule.exists /\ AnotherRun
    /\ Begin(d, "manual", d, 0, 0)
    /\ UNCHANGED <<clock, schedule, execution, history, jobOp, executor, late, mishaps>>

IsActive(run) == execution[run].status \in {"queued", "running"}
ActiveExecution ==
    LET active == {i \in DOMAIN history : IsActive(history[i])} IN
    IF active = {} THEN NoRun
                   ELSE history[CHOOSE i \in active : \A j \in active : j <= i]

\* requestCancellation: a queued operation ends at once; one that has ended throws, which
\* the caller ignores.
CancelRequested(run) ==
    CASE jobOp[run].state = "queued"  -> [jobOp EXCEPT ![run].state = "cancelled"]
      [] jobOp[run].state = "running" -> [jobOp EXCEPT ![run].cancel = TRUE]
      [] OTHER                        -> jobOp

Look(d) ==
    LET active == ActiveExecution
        overlap == dispatcher[d].plan.overlap
    IN
    /\ At(d, "look")
    /\ Goto(d, IF active # NoRun /\ overlap = "forbid" THEN "skip" ELSE "create")
    /\ jobOp' = IF active # NoRun /\ overlap = "replace" /\ execution[active].attached
                  THEN CancelRequested(active) ELSE jobOp
    /\ UNCHANGED <<clock, schedule, execution, history, executor, late, mishaps>>

Mutant_HasOperation(run) == execution[run].status # "absent"
HasOperation(run) == execution[run].attached

\* createExecution finds the row of its key, whatever became of it; without the job it
\* throws, which ends the call.  A run that has its operation is not queued again.
CreateExecution(d) ==
    LET run == dispatcher[d].run
        old == execution[run].status # "absent"
    IN
    /\ \/ At(d, "create")
       \/ At(d, "skip")
    /\ IF ~schedule.exists THEN Rest(d)
                           ELSE Goto(d, IF HasOperation(run) \/ At(d, "skip")
                                          THEN "next" ELSE "enqueue")
    /\ IF old \/ ~schedule.exists
         THEN UNCHANGED <<execution, history>>
         ELSE /\ execution' = [execution EXCEPT ![run].status =
                                 IF At(d, "skip") THEN "skipped" ELSE "queued"]
              /\ history' = Append(history, run)
    /\ UNCHANGED <<clock, schedule, jobOp, executor, late, mishaps>>

EnqueueRun(d) ==
    LET run == dispatcher[d].run IN
    /\ At(d, "enqueue")
    /\ Goto(d, "attach")
    /\ jobOp' = IF jobOp[run].state # "absent" THEN jobOp
                ELSE [jobOp EXCEPT ![run].state = "queued",
                                   ![run].alone = dispatcher[d].plan.overlap # "allow"]
    /\ UNCHANGED <<clock, schedule, execution, history, executor, late, mishaps>>

AttachOperation(d) ==
    LET run == dispatcher[d].run IN
    /\ At(d, "attach")
    /\ Goto(d, "next")
    /\ execution' = [execution EXCEPT ![run].attached = execution[run].status # "absent"]
    /\ UNCHANGED <<clock, schedule, history, jobOp, executor, late, mishaps>>

\* A tick that catches up takes the following slot; else next_run_at moves past the time the
\* tick has read.  A manual run is done.
CatchesUp(d) ==
    LET me == dispatcher[d] IN
    /\ me.via = "tick" /\ me.plan.missed = "catch_up"
    /\ me.run < me.at /\ me.run + 1 < me.due + CatchUpLimit

NextRun(d) ==
    /\ At(d, "next")
    /\ CASE CatchesUp(d) ->
              /\ dispatcher' = [dispatcher EXCEPT ![d].pc = "look", ![d].run = @ + 1]
              /\ UNCHANGED schedule
         [] dispatcher[d].via = "manual" -> Rest(d) /\ UNCHANGED schedule
         [] OTHER ->
              /\ schedule' = IF schedule.exists
                               THEN [schedule EXCEPT !.next = dispatcher[d].at + 1] ELSE schedule
              /\ Rest(d)
    /\ UNCHANGED <<clock, execution, history, jobOp, executor, late, mishaps>>

\* The process ends, or a statement throws: the rest of the call is not made.
Abandon(d) ==
    /\ dispatcher[d].pc \in Dispatching /\ Mishap
    /\ Rest(d)
    /\ UNCHANGED <<clock, schedule, execution, history, jobOp, executor, late>>

DispatchStep(d) ==
    \/ Look(d)
    \/ CreateExecution(d)
    \/ EnqueueRun(d)
    \/ AttachOperation(d)
    \/ NextRun(d)

-----------------------------------------------------------------------------
(* Operators of the job, and time.                                         *)

TimePasses ==
    /\ clock < LastSlot /\ AnotherRun /\ clock' = clock + 1
    /\ UNCHANGED <<schedule, execution, history, jobOp, executor, late, dispatcher, mishaps>>

SetEnabled ==
    /\ schedule.exists /\ Mishap
    /\ schedule' = [schedule EXCEPT !.enabled = ~@]
    /\ UNCHANGED <<clock, execution, history, jobOp, executor, late, dispatcher>>

\* updateSchedule computes next_run_at afresh, from now.
UpdateSchedule ==
    /\ schedule.exists /\ Mishap
    /\ \E p \in Plans : schedule' = [schedule EXCEPT !.plan = p, !.next = clock + 1]
    /\ UNCHANGED <<clock, execution, history, jobOp, executor, late, dispatcher>>

\* remove takes the executions with it, and leaves the operations.
RemoveJob ==
    /\ schedule.exists /\ Mishap
    /\ schedule' = [schedule EXCEPT !.exists = FALSE]
    /\ execution' = [r \in Runs |-> [status |-> "absent", attached |-> FALSE]]
    /\ history' = <<>>
    /\ UNCHANGED <<clock, jobOp, executor, late, dispatcher>>

-----------------------------------------------------------------------------
(* The handler of job.execute, and what the queue does with its operation. *)

SetStatus(run, status) ==
    execution' = [execution EXCEPT ![run].status = IF @ = "absent" THEN @ ELSE status]
HandlerAt(run, pc) == executor' = [executor EXCEPT ![run] = pc]

\* The claim takes the lock, of the job or under "allow" of the execution alone, and the
\* handler's first statement follows: without its row, or the job, it throws.
ClaimRun(run) ==
    /\ jobOp[run].state = "queued"
    /\ jobOp[run].alone => \A r \in Runs : jobOp[r].alone => jobOp[r].state # "running"
    /\ jobOp' = [jobOp EXCEPT ![run].state = "running", ![run].tries = @ + 1]
    /\ HandlerAt(run, IF execution[run].status = "absent" THEN "failed" ELSE "executing")
    /\ SetStatus(run, "running")
    /\ UNCHANGED <<clock, schedule, history, late, dispatcher, mishaps>>

Mutant_AttemptLeft(run) == jobOp[run].tries <= RunAttempts
AttemptLeft(run) == jobOp[run].tries < RunAttempts

\* The executor's answer: the row is written before the queue ends the operation.
Mutant_Verdict(attempt) == IF attempt + 1 >= RunAttempts THEN "dead" ELSE "failed"
Verdict(attempt) == IF attempt >= RunAttempts THEN "dead" ELSE "failed"

ExecutorAnswers(run) ==
    /\ executor[run] = "executing"
    /\ \/ SetStatus(run, "succeeded") /\ HandlerAt(run, "succeeded")
       \/ /\ SetStatus(run, Verdict(jobOp[run].tries))
          /\ \E how \in {"failed"} \cup (IF AttemptLeft(run) THEN {"retry"} ELSE {}) :
               HandlerAt(run, how)
    /\ UNCHANGED <<clock, schedule, history, jobOp, late, dispatcher, mishaps>>

Outcome(run) ==
    CASE jobOp[run].cancel -> "cancelled"
      [] executor[run] = "succeeded" -> "succeeded"
      [] executor[run] = "retry" -> "queued"
      [] OTHER -> "failed"

EndOperation(run) ==
    /\ executor[run] \in {"succeeded", "failed", "retry"}
    /\ jobOp' = [jobOp EXCEPT ![run].state = Outcome(run)]
    /\ HandlerAt(run, "none")
    /\ UNCHANGED <<clock, schedule, execution, history, late, dispatcher, mishaps>>

\* The abort signal wins the race: the operation ends, its lock is freed, and the executor
\* goes on.
GiveUp(run) ==
    /\ executor[run] = "executing"
    /\ \/ jobOp[run].cancel /\ jobOp' = [jobOp EXCEPT ![run].state = "cancelled"] /\ UNCHANGED mishaps
       \/ Mishap /\ jobOp' = [jobOp EXCEPT ![run].state = "timed_out"]
    /\ late' = [late EXCEPT ![run] = @ \cup {jobOp[run].tries}]
    /\ HandlerAt(run, "none")
    /\ UNCHANGED <<clock, schedule, execution, history, dispatcher>>

\* What the handler writes when its executor answers at last.
AnswersLate(run, attempt) ==
    /\ attempt \in late[run]
    /\ \E status \in {"succeeded", Verdict(attempt)} : SetStatus(run, status)
    /\ late' = [late EXCEPT ![run] = @ \ {attempt}]
    /\ UNCHANGED <<clock, schedule, history, jobOp, executor, dispatcher, mishaps>>

UserCancels(run) ==
    /\ jobOp[run].state \in {"queued", "running"} /\ ~jobOp[run].cancel /\ Mishap
    /\ jobOp' = CancelRequested(run)
    /\ UNCHANGED <<clock, schedule, execution, history, executor, late, dispatcher>>

\* queue.retry by hand, of an operation with an attempt left.
RetryByHand(run) ==
    /\ jobOp[run].state \in {"failed", "cancelled", "timed_out"} /\ AttemptLeft(run) /\ Mishap
    /\ jobOp' = [jobOp EXCEPT ![run].state = "queued", ![run].cancel = FALSE]
    /\ UNCHANGED <<clock, schedule, execution, history, executor, late, dispatcher>>

WorkerCrashes ==
    /\ \E r \in Runs : executor[r] # "none" \/ late[r] # {}
    /\ Mishap
    /\ executor' = [r \in Runs |-> "none"]
    /\ late' = [r \in Runs |-> {}]
    /\ UNCHANGED <<clock, schedule, execution, history, jobOp, dispatcher>>

\* recoverExpired, with the resume policy "requeue".
Recover(run) ==
    /\ jobOp[run].state = "running" /\ executor[run] = "none"
    /\ jobOp' = [jobOp EXCEPT ![run].state =
                   CASE jobOp[run].cancel -> "cancelled"
                     [] AttemptLeft(run)  -> "queued"
                     [] OTHER             -> "failed"]
    /\ UNCHANGED <<clock, schedule, execution, history, executor, late, dispatcher, mishaps>>

-----------------------------------------------------------------------------
Dispatch ==
    \/ \E d \in Dispatchers : TickReads(d)
    \/ \E d \in Dispatchers, s \in Slots : DispatchSlot(d, s)
    \/ \E d \in Dispatchers : RunByHand(d)
    \/ \E d \in Dispatchers : DispatchStep(d)
    \/ \E d \in Dispatchers : Abandon(d)

Edit ==
    \/ TimePasses
    \/ SetEnabled
    \/ UpdateSchedule
    \/ RemoveJob

Execute ==
    \/ \E r \in Runs : ClaimRun(r)
    \/ \E r \in Runs : ExecutorAnswers(r)
    \/ \E r \in Runs : EndOperation(r)
    \/ \E r \in Runs : GiveUp(r)
    \/ \E r \in Runs : \E a \in late[r] : AnswersLate(r, a)
    \/ \E r \in Runs : UserCancels(r)
    \/ \E r \in Runs : RetryByHand(r)
    \/ WorkerCrashes
    \/ \E r \in Runs : Recover(r)

JobsNext == Dispatch \/ Edit \/ Execute

JobsSpec == JobsInit /\ [][JobsNext]_jobsVars

-----------------------------------------------------------------------------
(* Properties.                                                             *)

\* A run is settled when it has its operation, or was skipped because another one is active.
Settled(run) == jobOp[run].state # "absent" \/ execution[run].status = "skipped"

\* next_run_at moves on only after the run that was due is queued, however often a process
\* ended in the middle of its call (JobService.tick, JobService.enqueue).  Under "forbid"
\* the row that an abandoned call has left behind passes for an active run: there the due
\* run is lost.
MarkedRunsAreQueued ==
    \A d \in Dispatchers :
        /\ At(d, "next") /\ dispatcher[d].via # "manual"
        /\ dispatcher[d].plan.overlap # "forbid" /\ schedule.exists
        => Settled(dispatcher[d].run)

\* A run is dead only when its operation can never run again, by the queue's retry, by
\* recovery or by hand (createJobQueueHandlers, DurableOperationQueue.retry).
DeadIsFinal ==
    \A r \in Runs : execution[r].status = "dead" =>
        ~(jobOp[r].state = "queued" \/ jobOp[r].tries < RunAttempts)

\* To dispatch a slot again changes nothing about the operation it has: the provider's
\* trigger, a tick, and the tick after a crash may all dispatch the same slot
\* (JobService.enqueue).  It does not hold: under "replace" the slot's own run is the active
\* one, and is cancelled.
DispatchIsDeduplicated ==
    [][\A d \in Dispatchers :
          /\ At(d, "look") /\ dispatcher[d].run \in Slots
          /\ dispatcher'[d].pc \in {"skip", "create"}
          => jobOp'[dispatcher[d].run] = jobOp[dispatcher[d].run]]_jobsVars
=============================================================================
