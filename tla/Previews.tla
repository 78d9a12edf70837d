------------------------------ MODULE Previews ------------------------------
(***************************************************************************)
(* The life of one preview environment: webhook deliveries, requests and   *)
(* the hourly cleanup that queue deployments and teardowns of it           *)
(* (source/webhooks.ts, preview/*.ts), and the handler that carries them   *)
(* out (queue/deployment-handlers.ts), over the durable queue.             *)
(*                                                                         *)
(* An operation is named by its idempotency key: to enqueue a key again    *)
(* finds the old operation, whatever became of it.  All operations of a    *)
(* preview take its lock.                                                  *)
(*                                                                         *)
(* The provider's stack is external: all that is modelled of it is whether *)
(* it exists.  The statuses of a first deployment and an update are one,   *)
(* branch and pull-request previews differ in words only.                  *)
(***************************************************************************)
EXTENDS Naturals

CONSTANTS
    Commits,
    Pushes,       \* deliveries of a push, or of a pull request opened or synchronised
    Closings,     \* deliveries of a closed pull request or a deleted branch
    CommitOf,     \* the commit of every push
    Callers,      \* processes that take deliveries and requests
    MaxIncidents, \* bound of the model: crashes, failures, time-outs, cancellations,
                  \* retries by hand, requests and extensions, together
    NoCommit

Deliveries == Pushes \cup Closings
Requests == {"dashboard", "expired"}
DeployAttempts == 3

ASSUME PreviewAssumption ==
    /\ CommitOf \in [Pushes -> Commits] /\ Pushes \cap Closings = {}
    /\ NoCommit \notin Commits \cup Deliveries /\ MaxIncidents \in Nat

Targets == [kind : {"deploy", "rebuild"}, of : Commits]
             \cup [kind : {"destroy"}, of : Deliveries \cup Requests]
Deploy(c) == [kind |-> "deploy", of |-> c]
Rebuild(c) == [kind |-> "rebuild", of |-> c]
Destroy(why) == [kind |-> "destroy", of |-> why]

VARIABLES
    preview,    \* the row of preview_instances; expired: its expires_at has passed
    deployment, \* the operation of every idempotency key
    runner,     \* where the handler of an operation is
    overrun,    \* the handlers, and commands without one, whose operation has ended under them
    stack,      \* whether the provider has the preview's stack, and whose command made it last:
                \* that of a running operation (own), or of one in overrun (late)
    lateRecord, \* history: `destroyed` was last recorded by a handler in overrun
    delivery,   \* source_webhook_deliveries
    request,    \* what a process is in the middle of
    incidents

previewVars ==
    <<preview, deployment, runner, overrun, stack, lateRecord, delivery, request, incidents>>

NoRequest == [pc |-> "none", delivery |-> NoCommit, target |-> Destroy("expired")]

\* The rows, the operations, the handlers and the requests are well typed, and a handler
\* runs only for an operation that does (DurableOperationQueue.requestCancellation, runOne).
PreviewTypeOK ==
    /\ preview \in [status : {"none", "queued", "deploying", "active", "failed", "destroying",
                              "destroyed", "cleanup_failed"},
                    commit : Commits \cup {NoCommit}, expired : BOOLEAN]
    /\ deployment \in [Targets -> [state : {"absent", "queued", "running", "succeeded", "failed",
                                            "cancelled", "timed_out"},
                                   tries : 0..DeployAttempts]]
    /\ runner \in [Targets -> {"none", "start", "execute", "record", "refused", "finish", "fail"}]
    /\ overrun \subseteq [target : Targets, try : 0..DeployAttempts,
                          pc : {"execute", "record", "refused", "orphan"}]
    /\ stack \in {"none", "own", "late"} /\ lateRecord \in BOOLEAN
    /\ delivery \in [Deliveries -> {"unseen", "accepted", "enqueued", "ignored"}]
    /\ request \in [Callers -> [pc : {"none", "decide", "enqueue", "mark", "answer"},
                                delivery : Deliveries \cup {NoCommit}, target : Targets]]
    /\ incidents \in 0..MaxIncidents
    /\ \A t \in Targets : runner[t] # "none" => deployment[t].state = "running"

PreviewInit ==
    /\ preview = [status |-> "none", commit |-> NoCommit, expired |-> FALSE]
    /\ deployment = [t \in Targets |-> [state |-> "absent", tries |-> 0]]
    /\ runner = [t \in Targets |-> "none"] /\ overrun = {}
    /\ stack = "none" /\ lateRecord = FALSE
    /\ delivery = [d \in Deliveries |-> "unseen"]
    /\ request = [p \in Callers |-> NoRequest]
    /\ incidents = 0

Incident == incidents < MaxIncidents /\ incidents' = incidents + 1

-----------------------------------------------------------------------------
(* processSourceWebhook.  The provider may send a delivery again, and in   *)
(* any order; one that has been answered is not processed again.           *)

Asks(p, pc, d, t) == request' = [request EXCEPT ![p] = [pc |-> pc, delivery |-> d, target |-> t]]
Continue(p, pc) == request' = [request EXCEPT ![p].pc = pc]
HangUp(p) == request' = [request EXCEPT ![p] = NoRequest]

Receive(p, d) ==
    /\ request[p].pc = "none" /\ delivery[d] \in {"unseen", "accepted"}
    /\ delivery' = [delivery EXCEPT ![d] = "accepted"]
    /\ Asks(p, "decide", d, IF d \in Pushes THEN Deploy(CommitOf[d]) ELSE Destroy(d))
    /\ UNCHANGED <<preview, deployment, runner, overrun, stack, lateRecord, incidents>>

\* PreviewEnvironmentStore.upsert: a new commit, or one of a preview that was destroyed,
\* makes the row queued and sets its expiry.
Changed(c) == preview.commit # c \/ preview.status = "destroyed"
Upserted(c) ==
    IF Changed(c) THEN [status |-> "queued", commit |-> c, expired |-> FALSE] ELSE preview

\* A push that changes nothing is ignored, and so is the end of what does not exist.
DecideDelivery(p) ==
    LET d == request[p].delivery
        matters == IF d \in Pushes THEN Changed(CommitOf[d])
                                   ELSE preview.status \notin {"none", "destroyed"}
    IN
    /\ request[p].pc = "decide"
    /\ preview' = IF d \in Pushes THEN Upserted(CommitOf[d]) ELSE preview
    /\ IF matters THEN Continue(p, "enqueue") /\ UNCHANGED delivery
                  ELSE HangUp(p) /\ delivery' = [delivery EXCEPT ![d] = "ignored"]
    /\ UNCHANGED <<deployment, runner, overrun, stack, lateRecord, incidents>>

\* One operation for every key, not one for every preview.
Mutant_IsNew(t) == \A other \in Targets : deployment[other].state \notin {"queued", "running"}
IsNew(t) == deployment[t].state = "absent"

EnqueueTarget(p) ==
    LET t == request[p].target IN
    /\ request[p].pc = "enqueue"
    /\ deployment' = IF IsNew(t) THEN [deployment EXCEPT ![t].state = "queued"] ELSE deployment
    /\ Continue(p, "mark")
    /\ UNCHANGED <<preview, runner, overrun, stack, lateRecord, delivery, incidents>>

\* Then the row is marked, though the operation may have begun or ended by now.
MarkQueued(p) ==
    /\ request[p].pc = "mark"
    /\ preview' = [preview EXCEPT !.status = "queued"]
    /\ IF request[p].delivery = NoCommit THEN HangUp(p) ELSE Continue(p, "answer")
    /\ UNCHANGED <<deployment, runner, overrun, stack, lateRecord, delivery, incidents>>

Answer(p) ==
    /\ request[p].pc = "answer"
    /\ delivery' = [delivery EXCEPT ![request[p].delivery] = "enqueued"]
    /\ HangUp(p)
    /\ UNCHANGED <<preview, deployment, runner, overrun, stack, lateRecord, incidents>>

\* The process ends in the middle of a call.
CallerCrashes(p) ==
    /\ request[p].pc # "none" /\ Incident
    /\ HangUp(p)
    /\ UNCHANGED <<preview, deployment, runner, overrun, stack, lateRecord, delivery>>

-----------------------------------------------------------------------------
(* Requests of the dashboard and of env:preview, and the cleanup.          *)

\* The row is upserted, and the deployment enqueued whether or not that changed anything.
RequestDeploy(p, c) ==
    /\ request[p].pc = "none" /\ Incident
    /\ preview' = Upserted(c)
    /\ Asks(p, "enqueue", NoCommit, Deploy(c))
    /\ UNCHANGED <<deployment, runner, overrun, stack, lateRecord, delivery>>

\* The key of a rebuild is new.  Bound of the model: one for every commit.
RequestRebuild(p) ==
    /\ request[p].pc = "none" /\ preview.status # "none" /\ Incident
    /\ IsNew(Rebuild(preview.commit))
    /\ Asks(p, "enqueue", NoCommit, Rebuild(preview.commit))
    /\ UNCHANGED <<preview, deployment, runner, overrun, stack, lateRecord, delivery>>

RequestDestroy(p) ==
    /\ request[p].pc = "none" /\ preview.status \notin {"none", "destroyed"} /\ Incident
    /\ Asks(p, "enqueue", NoCommit, Destroy("dashboard"))
    /\ UNCHANGED <<preview, deployment, runner, overrun, stack, lateRecord, delivery>>

Cleanup(p) ==
    /\ request[p].pc = "none" /\ Incident
    /\ preview.expired /\ preview.status \notin {"none", "destroyed", "destroying"}
    /\ Asks(p, "enqueue", NoCommit, Destroy("expired"))
    /\ UNCHANGED <<preview, deployment, runner, overrun, stack, lateRecord, delivery>>

Expire ==
    /\ preview.status # "none" /\ ~preview.expired
    /\ preview' = [preview EXCEPT !.expired = TRUE]
    /\ UNCHANGED <<deployment, runner, overrun, stack, lateRecord, delivery, request, incidents>>

Extend ==
    /\ preview.expired /\ Incident
    /\ preview' = [preview EXCEPT !.expired = FALSE]
    /\ UNCHANGED <<deployment, runner, overrun, stack, lateRecord, delivery, request>>

-----------------------------------------------------------------------------
(* The handler of preview.create, preview.update and preview.destroy, and  *)
(* what the queue does with its operation.                                 *)

Becomes(status) == preview' = [preview EXCEPT !.status = status]
RunnerAt(t, pc) == runner' = [runner EXCEPT ![t] = pc]
OperationIs(t, state) == deployment' = [deployment EXCEPT ![t].state = state]

Mutant_LockFree == TRUE
LockFree == \A t \in Targets : deployment[t].state # "running"

ClaimDeployment(t) ==
    /\ deployment[t].state = "queued" /\ LockFree
    /\ deployment' = [deployment EXCEPT ![t].state = "running", ![t].tries = @ + 1]
    /\ RunnerAt(t, "start")
    /\ UNCHANGED <<preview, overrun, stack, lateRecord, delivery, request, incidents>>

IsDestroy(t) == t.kind = "destroy"

StartDeployment(t) ==
    /\ runner[t] = "start"
    /\ Becomes(IF IsDestroy(t) THEN "destroying" ELSE "deploying")
    /\ RunnerAt(t, "execute")
    /\ UNCHANGED <<deployment, overrun, stack, lateRecord, delivery, request, incidents>>

\* A command that fails, or is stopped, may have done its work.
Done(t, whose) == IF IsDestroy(t) THEN "none" ELSE whose
MayHaveRun(t, whose) == stack' \in {stack, Done(t, whose)}

RunCommand(t) ==
    /\ runner[t] = "execute"
    /\ \/ stack' = Done(t, "own") /\ RunnerAt(t, "record") /\ UNCHANGED incidents
       \/ Incident /\ MayHaveRun(t, "own") /\ RunnerAt(t, "refused")
       \* The checkout or the configuration of a deployment throws, before the command.
       \/ Incident /\ ~IsDestroy(t) /\ RunnerAt(t, "fail") /\ UNCHANGED stack
    /\ UNCHANGED <<preview, deployment, overrun, lateRecord, delivery, request>>

\* What a handler writes when its command has ended.
ResultAt(t, pc) ==
    IF pc = "record" THEN IF IsDestroy(t) THEN "destroyed" ELSE "active"
                     ELSE IF IsDestroy(t) THEN "cleanup_failed" ELSE "failed"

RecordResult(t) ==
    /\ runner[t] \in {"record", "refused"}
    /\ Becomes(ResultAt(t, runner[t]))
    /\ RunnerAt(t, IF runner[t] = "record" THEN "finish" ELSE "fail")
    /\ lateRecord' = (lateRecord /\ preview'.status # "destroyed")
    /\ UNCHANGED <<deployment, overrun, stack, delivery, request, incidents>>

TriesLeft(t) == deployment[t].tries < DeployAttempts

EndDeployment(t) ==
    /\ \/ runner[t] = "finish" /\ OperationIs(t, "succeeded")
       \/ runner[t] = "fail" /\ OperationIs(t, "failed")
       \/ runner[t] = "fail" /\ TriesLeft(t) /\ OperationIs(t, "queued")
    /\ RunnerAt(t, "none")
    /\ UNCHANGED <<preview, overrun, stack, lateRecord, delivery, request, incidents>>

Late(t, pc) == [target |-> t, try |-> deployment[t].tries, pc |-> pc]
LateAt(w, pc) == [target |-> w.target, try |-> w.try, pc |-> pc]

\* A time-out ends the operation where its handler awaits, and so does a cancellation: the
\* lock is freed, and the handler and its command go on.  The handler awaits the command, and
\* that of a deployment the provider's checkout before it and the commit status after it.
Overrun(t, state) ==
    /\ Incident
    /\ \/ runner[t] = "execute" /\ MayHaveRun(t, "own")
       \/ runner[t] \in {"record", "refused"} /\ ~IsDestroy(t) /\ UNCHANGED stack
    /\ OperationIs(t, state) /\ RunnerAt(t, "none")
    /\ overrun' = overrun \cup {Late(t, runner[t])}
    /\ UNCHANGED <<preview, lateRecord, delivery, request>>

GiveUpDeployment(t) == \E state \in {"cancelled", "timed_out"} : Overrun(t, state)

\* A handler that looks finds the cancellation before the command and after one that went
\* well; the queue finds it when the handler has returned.
StopDeployment(t) ==
    /\ runner[t] \in {"execute", "record", "finish", "fail"} /\ Incident
    /\ OperationIs(t, "cancelled") /\ RunnerAt(t, "none")
    /\ UNCHANGED <<preview, overrun, stack, lateRecord, delivery, request>>

\* A command that is stopped, or was started all the same, comes to its end.
LateCommand(w) ==
    /\ w \in overrun
    /\ \/ /\ w.pc = "execute" /\ stack' = Done(w.target, "late")
          /\ overrun' = (overrun \ {w}) \cup {LateAt(w, "record")}
       \/ /\ w.pc = "execute" /\ MayHaveRun(w.target, "late")
          /\ overrun' = (overrun \ {w}) \cup {LateAt(w, "refused")}
       \* The checkout throws.
       \/ /\ w.pc = "execute" /\ ~IsDestroy(w.target) /\ UNCHANGED stack
          /\ overrun' = overrun \ {w}
       \* Nobody waits for the command any more.
       \/ /\ w.pc = "orphan" /\ MayHaveRun(w.target, "late")
          /\ overrun' = overrun \ {w}
    /\ UNCHANGED <<preview, deployment, runner, lateRecord, delivery, request, incidents>>

\* The cancellation is found after a command that went well; a retry takes it back, and a
\* time-out leaves none.
MayRecord(w) == w.pc = "refused" \/ deployment[w.target].state # "cancelled"
FindsCancelled(w) ==
    w.pc = "record" /\ deployment[w.target].state \in {"cancelled", "timed_out", "running"}

LateRecord(w) ==
    /\ w \in overrun /\ w.pc \in {"record", "refused"}
    /\ \/ /\ MayRecord(w)
          /\ Becomes(ResultAt(w.target, w.pc))
          /\ lateRecord' = (lateRecord \/ preview'.status = "destroyed")
       \/ FindsCancelled(w) /\ UNCHANGED <<preview, lateRecord>>
    /\ overrun' = overrun \ {w}
    /\ UNCHANGED <<deployment, runner, stack, delivery, request, incidents>>

\* Only an operation that waits is ended by the request itself.
Mutant_Waits(t) == deployment[t].state \in {"queued", "running"}
Waits(t) == deployment[t].state = "queued"

CancelDeployment(t) ==
    /\ Waits(t) /\ Incident
    /\ OperationIs(t, "cancelled")
    /\ UNCHANGED <<preview, runner, overrun, stack, lateRecord, delivery, request>>

RetryDeployment(t) ==
    /\ deployment[t].state \in {"failed", "cancelled", "timed_out"} /\ TriesLeft(t) /\ Incident
    /\ OperationIs(t, "queued")
    /\ UNCHANGED <<preview, runner, overrun, stack, lateRecord, delivery, request>>

\* The process of the worker dies; the commands it ran may go on.  recoverExpired then fails
\* the operation, as its resume policy says.
WorkerDies ==
    /\ (\E t \in Targets : runner[t] # "none") \/ (\E w \in overrun : w.pc # "orphan")
    /\ Incident
    /\ runner' = [t \in Targets |-> "none"]
    /\ overrun' = {Late(t, "orphan") : t \in {u \in Targets : runner[u] = "execute"}}
                    \cup {LateAt(w, "orphan") : w \in {v \in overrun : v.pc \in {"execute", "orphan"}}}
    /\ UNCHANGED <<preview, deployment, stack, lateRecord, delivery, request>>

RecoverDeployment(t) ==
    /\ deployment[t].state = "running" /\ runner[t] = "none"
    /\ OperationIs(t, "failed")
    /\ UNCHANGED <<preview, runner, overrun, stack, lateRecord, delivery, request, incidents>>

-----------------------------------------------------------------------------
Call(p) ==
    \/ \E d \in Deliveries : Receive(p, d)
    \/ DecideDelivery(p)
    \/ EnqueueTarget(p)
    \/ MarkQueued(p)
    \/ Answer(p)
    \/ CallerCrashes(p)
    \/ \E c \in Commits : RequestDeploy(p, c)
    \/ RequestRebuild(p)
    \/ RequestDestroy(p)
    \/ Cleanup(p)

Work(t) ==
    \/ ClaimDeployment(t)
    \/ StartDeployment(t)
    \/ RunCommand(t)
    \/ RecordResult(t)
    \/ EndDeployment(t)
    \/ GiveUpDeployment(t)
    \/ StopDeployment(t)
    \/ CancelDeployment(t)
    \/ RetryDeployment(t)
    \/ RecoverDeployment(t)

PreviewNext ==
    \/ \E p \in Callers : Call(p)
    \/ Expire
    \/ Extend
    \/ \E t \in Targets : Work(t)
    \/ \E w \in overrun : LateCommand(w) \/ LateRecord(w)
    \/ WorkerDies

PreviewSpec == PreviewInit /\ [][PreviewNext]_previewVars

-----------------------------------------------------------------------------
(* Properties.                                                             *)

\* A preview that its teardown recorded as destroyed has no stack left at the provider,
\* whatever failed, was retried or ran late (createDeploymentQueueHandlers): nobody will look
\* for it again, and it would be paid for.  Excepted are what the queue lets go when it ends an
\* operation under its handler: a stack that such a command made, and a record of such a
\* handler (runOne frees the lock without waiting for either).
DestroyedMeansGone ==
    preview.status = "destroyed" /\ ~lateRecord => stack # "own"

\* A delivery is answered as enqueued only when its own operation is stored: the provider
\* will not send it again (processSourceWebhook).
AnsweredDeliveriesHaveWork ==
    \A d \in Deliveries : delivery[d] = "enqueued" =>
        deployment[IF d \in Pushes THEN Deploy(CommitOf[d]) ELSE Destroy(d)].state # "absent"
=============================================================================
