--------------------------- MODULE PreviewsProofs ---------------------------
(***************************************************************************)
(* Theorems about Previews, for any commits, deliveries, callers and number*)
(* of incidents.                                                           *)
(*                                                                         *)
(* PreviewInv, on which all of them rest, says what a step may count on    *)
(* that the tables alone do not show: a preview has a commit before        *)
(* anything is done for it; an operation that waits has an attempt left;   *)
(* one operation runs at a time; the handler that is about to write has    *)
(* done what it will write, but for what late handlers do beside it; and a *)
(* call knows the target of its delivery.                                  *)
(***************************************************************************)
EXTENDS Previews, TLAPS

HasCommit == preview.commit \in Commits

\* Whatever is done for a preview, it has its commit.
CommitKnown ==
    /\ preview.status # "none" => HasCommit
    /\ overrun # {} => HasCommit
    /\ \A t \in Targets : deployment[t].state # "absent" => HasCommit
    /\ \A p \in Callers : request[p].pc \in {"enqueue", "mark", "answer"} => HasCommit

WaitingHasAttempt ==
    \A t \in Targets : deployment[t].state \in {"absent", "queued"} =>
        deployment[t].tries < DeployAttempts

OneRuns ==
    \A t, u \in Targets :
        deployment[t].state = "running" /\ deployment[u].state = "running" => t = u

\* What a handler has yet to write is still true.
DoneAsRecorded ==
    \A t \in Targets :
        /\ runner[t] = "record" /\ IsDestroy(t) => stack # "own"
        /\ runner[t] = "execute" /\ ~IsDestroy(t) => preview.status # "destroyed" \/ lateRecord

TargetOf(d) == IF d \in Pushes THEN Deploy(CommitOf[d]) ELSE Destroy(d)

CallKnowsTarget ==
    \A p \in Callers :
        /\ request[p].pc \in {"decide", "answer"} => request[p].delivery \in Deliveries
        /\ request[p].pc # "none" /\ request[p].delivery \in Deliveries =>
             request[p].target = TargetOf(request[p].delivery)
        /\ request[p].pc \in {"mark", "answer"} => deployment[request[p].target].state # "absent"

PreviewInv ==
    /\ PreviewTypeOK /\ CommitKnown /\ WaitingHasAttempt /\ OneRuns
    /\ DoneAsRecorded /\ CallKnowsTarget /\ DestroyedMeansGone /\ AnsweredDeliveriesHaveWork

-----------------------------------------------------------------------------
(* The targets.                                                            *)

\* Every key the code makes is one of Targets, and deliveries are told from no delivery.
LEMMA TargetsTyped ==
    /\ \A c \in Commits : Deploy(c) \in Targets /\ Rebuild(c) \in Targets
    /\ \A d \in Deliveries \cup Requests : Destroy(d) \in Targets
    /\ \A d \in Deliveries : TargetOf(d) \in Targets
    /\ NoCommit \notin Deliveries /\ NoCommit \notin Commits
    /\ \A d \in Pushes : d \in Deliveries /\ CommitOf[d] \in Commits
BY PreviewAssumption
   DEF PreviewAssumption, Targets, Deploy, Rebuild, Destroy, TargetOf, Deliveries

\* The initial state satisfies the invariant (PreviewEnvironmentStore, before any upsert).
LEMMA PreviewInitInv == PreviewInit => PreviewInv
<1> SUFFICES ASSUME PreviewInit PROVE PreviewInv
    OBVIOUS
<1>1. NoRequest.target \in Targets /\ NoRequest.delivery = NoCommit /\ NoRequest.pc = "none"
    BY TargetsTyped DEF NoRequest, Requests
<1>2. PreviewTypeOK
  <2>1. NoRequest \in [pc : {"none"}, delivery : {NoCommit}, target : Targets]
      BY TargetsTyped DEF NoRequest, Requests
  <2>2. request \in [Callers -> [pc : {"none", "decide", "enqueue", "mark", "answer"},
                                 delivery : Deliveries \cup {NoCommit}, target : Targets]]
      BY <2>1 DEF PreviewInit
  <2>3. 0 \in 0..DeployAttempts /\ 0 \in 0..MaxIncidents
      BY PreviewAssumption DEF PreviewAssumption, DeployAttempts
  <2>4. deployment \in [Targets -> [state : {"absent"}, tries : 0..DeployAttempts]]
      BY <2>3 DEF PreviewInit
  <2> QED
      BY <2>2, <2>3, <2>4 DEF PreviewInit, PreviewTypeOK
<1>3. CommitKnown /\ WaitingHasAttempt /\ OneRuns /\ DoneAsRecorded
    BY <1>1 DEF PreviewInit, CommitKnown, WaitingHasAttempt, OneRuns, DoneAsRecorded, DeployAttempts
<1>4. CallKnowsTarget /\ DestroyedMeansGone /\ AnsweredDeliveriesHaveWork
    BY <1>1 DEF PreviewInit, CallKnowsTarget, DestroyedMeansGone, AnsweredDeliveriesHaveWork
<1> QED
    BY <1>2, <1>3, <1>4 DEF PreviewInv

-----------------------------------------------------------------------------
(* The tables stay well typed.                                             *)

Typed == PreviewTypeOK /\ CommitKnown /\ WaitingHasAttempt

Statuses == {"none", "queued", "deploying", "active", "failed", "destroying", "destroyed", "cleanup_failed"}
RunnerPlaces == {"none", "start", "execute", "record", "refused", "finish", "fail"}
LateHandlers == [target : Targets, try : 0..DeployAttempts, pc : {"execute", "record", "refused", "orphan"}]

\* A mishap is counted up to the bound of the model.
LEMMA IncidentTyped == ASSUME PreviewTypeOK, Incident PROVE incidents' \in 0..MaxIncidents
BY PreviewAssumption DEF PreviewTypeOK, Incident, PreviewAssumption

RequestType == [pc : {"none", "decide", "enqueue", "mark", "answer"},
                delivery : Deliveries \cup {NoCommit}, target : Targets]

\* A call that goes on keeps its delivery and its target.
LEMMA ContinueKeeps ==
    ASSUME PreviewTypeOK, NEW p \in Callers, NEW pc \in {"enqueue", "mark", "answer"}, Continue(p, pc)
    PROVE  /\ request' \in [Callers -> RequestType]
           /\ request'[p].pc = pc /\ request'[p].target = request[p].target
           /\ request'[p].delivery = request[p].delivery
           /\ \A q \in Callers \ {p} : request'[q] = request[q]
<1>1. request \in [Callers -> RequestType]
    BY DEF PreviewTypeOK, RequestType
<1>2. request' = [request EXCEPT ![p] = [request[p] EXCEPT !.pc = pc]]
    BY DEF Continue
<1>3. [request[p] EXCEPT !.pc = pc] \in RequestType
    BY <1>1 DEF RequestType
<1> QED
    BY <1>1, <1>2, <1>3 DEF RequestType

\* Calls: deliveries, requests of users and the cleanup, and the process that ends in one.
LEMMA CallTyped ==
    ASSUME Typed, CallKnowsTarget, NEW p \in Callers, Call(p)
    PROVE  Typed'
<1>0. NoRequest \in [pc : {"none"}, delivery : {NoCommit}, target : Targets]
    BY TargetsTyped DEF NoRequest, Requests
<1>1. CASE \E d \in Deliveries : Receive(p, d)
    BY <1>0, <1>1, TargetsTyped, PreviewAssumption
    DEF Typed, PreviewTypeOK, CommitKnown, WaitingHasAttempt, HasCommit,
        PreviewAssumption, Receive, Asks
<1>2. CASE DecideDelivery(p)
  <2> DEFINE d == request[p].delivery
  <2>1. d \in Deliveries /\ (d \in Pushes => CommitOf[d] \in Commits)
      BY <1>2, TargetsTyped DEF DecideDelivery, CallKnowsTarget
  <2>2. /\ preview' \in [status : {"none", "queued", "deploying", "active", "failed", "destroying",
                                   "destroyed", "cleanup_failed"},
                         commit : Commits \cup {NoCommit}, expired : BOOLEAN]
        /\ preview'.status # "none" => preview'.commit \in Commits
        /\ HasCommit => HasCommit'
      BY <1>2, <2>1 DEF DecideDelivery, Upserted, Changed, Typed, PreviewTypeOK, CommitKnown, HasCommit
  <2>3. CASE /\ request' = [request EXCEPT ![p].pc = "enqueue"] /\ UNCHANGED delivery
             /\ HasCommit'
    <3>1. UNCHANGED <<deployment, runner, overrun, stack, lateRecord, incidents>>
        BY <1>2 DEF DecideDelivery
    <3>2. request' \in [Callers -> RequestType]
        BY <2>3 DEF Typed, PreviewTypeOK, RequestType
    <3> QED
        BY <2>2, <2>3, <3>1, <3>2
        DEF Typed, PreviewTypeOK, CommitKnown, WaitingHasAttempt, HasCommit, RequestType
  <2>4. CASE HangUp(p) /\ delivery' = [delivery EXCEPT ![d] = "ignored"]
      BY <1>0, <1>2, <2>1, <2>2, <2>4
      DEF DecideDelivery, HangUp, Typed, PreviewTypeOK, CommitKnown, WaitingHasAttempt, HasCommit
  <2> QED
      BY <1>2, <2>1, <2>2, <2>3, <2>4
      DEF DecideDelivery, Upserted, Changed, Continue, Typed, PreviewTypeOK, CommitKnown, HasCommit
<1>3. CASE EnqueueTarget(p)
  <2> DEFINE t == request[p].target
  <2>1. t \in Targets /\ HasCommit
      BY <1>3 DEF EnqueueTarget, Typed, PreviewTypeOK, CommitKnown
  <2>2. CASE deployment' = [deployment EXCEPT ![t].state = "queued"] /\ IsNew(t)
      BY <1>3, <2>1, <2>2, ContinueKeeps
      DEF EnqueueTarget, IsNew, RequestType, Typed, PreviewTypeOK, CommitKnown, WaitingHasAttempt, HasCommit
  <2>3. CASE UNCHANGED deployment
      BY <1>3, <2>1, <2>3, ContinueKeeps
      DEF EnqueueTarget, RequestType, Typed, PreviewTypeOK, CommitKnown, WaitingHasAttempt, HasCommit
  <2> QED
      BY <1>3, <2>2, <2>3 DEF EnqueueTarget
<1>4. CASE MarkQueued(p)
  <2>1. HasCommit /\ preview' = [preview EXCEPT !.status = "queued"]
      BY <1>4 DEF MarkQueued, Typed, CommitKnown
  <2>2. CASE HangUp(p)
      BY <1>0, <1>4, <2>1, <2>2
      DEF MarkQueued, HangUp, Typed, PreviewTypeOK, CommitKnown, WaitingHasAttempt, HasCommit
  <2>3. CASE Continue(p, "answer")
      BY <1>4, <2>1, <2>3, ContinueKeeps
      DEF MarkQueued, RequestType, Typed, PreviewTypeOK, CommitKnown, WaitingHasAttempt, HasCommit
  <2> QED
      BY <1>4, <2>2, <2>3 DEF MarkQueued
<1>5. CASE Answer(p)
    BY <1>0, <1>5, TargetsTyped, PreviewAssumption
    DEF Typed, PreviewTypeOK, CommitKnown, WaitingHasAttempt, HasCommit,
        PreviewAssumption, Answer, HangUp
<1>6. CASE CallerCrashes(p)
    BY <1>0, <1>6, TargetsTyped, PreviewAssumption
    DEF Typed, PreviewTypeOK, CommitKnown, WaitingHasAttempt, HasCommit,
        PreviewAssumption, CallerCrashes, Incident, HangUp
<1>7. CASE \E c \in Commits : RequestDeploy(p, c)
    BY <1>0, <1>7, TargetsTyped, PreviewAssumption
    DEF Typed, PreviewTypeOK, CommitKnown, WaitingHasAttempt, HasCommit,
        PreviewAssumption, RequestDeploy, Incident, Upserted, Changed, Asks
<1>8. CASE RequestRebuild(p)
    BY <1>0, <1>8, TargetsTyped, PreviewAssumption
    DEF Typed, PreviewTypeOK, CommitKnown, WaitingHasAttempt, HasCommit,
        PreviewAssumption, RequestRebuild, Incident, Asks
<1>9. CASE RequestDestroy(p)
    BY <1>0, <1>9, TargetsTyped, PreviewAssumption
    DEF Typed, PreviewTypeOK, CommitKnown, WaitingHasAttempt, HasCommit,
        PreviewAssumption, RequestDestroy, Incident, Asks, Requests
<1>10. CASE Cleanup(p)
    BY <1>0, <1>10, TargetsTyped, PreviewAssumption
    DEF Typed, PreviewTypeOK, CommitKnown, WaitingHasAttempt, HasCommit,
        PreviewAssumption, Cleanup, Incident, Asks, Requests
<1> QED
    BY <1>1, <1>2, <1>3, <1>4, <1>5, <1>6, <1>7, <1>8, <1>9, <1>10 DEF Call

\* The handler, the queue, and users who cancel or retry.
LEMMA WorkTyped ==
    ASSUME Typed, NEW t \in Targets, Work(t)
    PROVE  Typed'
<1>1. CASE ClaimDeployment(t)
    BY <1>1, PreviewAssumption
    DEF Typed, PreviewTypeOK, CommitKnown, WaitingHasAttempt, HasCommit,
        PreviewAssumption, ClaimDeployment, RunnerAt, DeployAttempts
<1>2. CASE StartDeployment(t)
    BY ZenonT(30), <1>2, PreviewAssumption
    DEF Typed, PreviewTypeOK, CommitKnown, WaitingHasAttempt, HasCommit,
        PreviewAssumption, StartDeployment, Becomes, RunnerAt
<1>3. CASE RunCommand(t)
  <2>1. deployment[t].state = "running" /\ HasCommit
      BY <1>3 DEF RunCommand, Typed, PreviewTypeOK, CommitKnown
  <2>2. stack' \in {"none", "own", "late"} /\ incidents' \in 0..MaxIncidents
      BY <1>3, IncidentTyped DEF RunCommand, MayHaveRun, Done, Typed, PreviewTypeOK
  <2>3. \E pc \in {"record", "refused", "fail"} : runner' = [runner EXCEPT ![t] = pc]
      BY <1>3 DEF RunCommand, RunnerAt
  <2>4. UNCHANGED <<preview, deployment, overrun, lateRecord, delivery, request>>
      BY <1>3 DEF RunCommand
  <2>5. /\ runner' \in [Targets -> RunnerPlaces]
        /\ \A u \in Targets : runner'[u] # "none" => deployment[u].state = "running"
      BY <2>1, <2>3 DEF Typed, PreviewTypeOK, RunnerPlaces
  <2> QED
      BY <2>2, <2>4, <2>5 DEF Typed, PreviewTypeOK, CommitKnown, WaitingHasAttempt, HasCommit, RunnerPlaces
<1>4. CASE RecordResult(t)
  <2>1. \E status \in Statuses : preview' = [preview EXCEPT !.status = status]
      BY <1>4 DEF RecordResult, Becomes, ResultAt, Statuses
  <2>2. /\ preview' \in [status : Statuses, commit : Commits \cup {NoCommit}, expired : BOOLEAN]
        /\ preview'.commit = preview.commit
      BY <2>1 DEF Typed, PreviewTypeOK, Statuses
  <2>3. HasCommit /\ HasCommit'
      BY <1>4, <2>2 DEF RecordResult, Typed, PreviewTypeOK, CommitKnown, HasCommit
  <2>4. /\ runner' \in [Targets -> RunnerPlaces]
        /\ \A u \in Targets : runner'[u] # "none" => deployment[u].state = "running"
      BY <1>4 DEF RecordResult, RunnerAt, Typed, PreviewTypeOK, RunnerPlaces
  <2>5. lateRecord' \in BOOLEAN
      BY <1>4 DEF RecordResult
  <2>6. UNCHANGED <<deployment, overrun, stack, delivery, request, incidents>>
      BY <1>4 DEF RecordResult
  <2> QED
      BY <2>2, <2>3, <2>4, <2>5, <2>6
      DEF Typed, PreviewTypeOK, CommitKnown, WaitingHasAttempt, HasCommit, RunnerPlaces, Statuses
<1>5. CASE EndDeployment(t)
  <2>1. deployment[t].state = "running" /\ HasCommit
      BY <1>5 DEF EndDeployment, Typed, PreviewTypeOK, CommitKnown
  <2>2. PICK state \in {"succeeded", "failed", "queued"} :
          OperationIs(t, state) /\ (state = "queued" => TriesLeft(t))
      BY <1>5 DEF EndDeployment
  <2>3. /\ \A u \in Targets : deployment'[u].tries = deployment[u].tries
        /\ \A u \in Targets \ {t} : deployment'[u] = deployment[u]
        /\ deployment'[t].state = state
        /\ deployment' \in [Targets -> [state : {"absent", "queued", "running", "succeeded", "failed",
                                                "cancelled", "timed_out"},
                                       tries : 0..DeployAttempts]]
      BY <2>2 DEF OperationIs, Typed, PreviewTypeOK
  <2>4. /\ runner' \in [Targets -> RunnerPlaces]
        /\ runner'[t] = "none" /\ \A u \in Targets \ {t} : runner'[u] = runner[u]
      BY <1>5 DEF EndDeployment, RunnerAt, Typed, PreviewTypeOK, RunnerPlaces
  <2>5. UNCHANGED <<preview, overrun, stack, lateRecord, delivery, request, incidents>>
      BY <1>5 DEF EndDeployment
  <2>6. PreviewTypeOK'
      BY <2>3, <2>4, <2>5 DEF Typed, PreviewTypeOK, RunnerPlaces
  <2> QED
      BY <2>1, <2>2, <2>3, <2>5, <2>6
      DEF Typed, CommitKnown, WaitingHasAttempt, HasCommit, TriesLeft
<1>6. CASE GiveUpDeployment(t)
  <2>1. PICK state \in {"cancelled", "timed_out"} : Overrun(t, state)
      BY <1>6 DEF GiveUpDeployment
  <2>2. deployment[t].state = "running" /\ HasCommit
      BY <2>1 DEF Overrun, Typed, PreviewTypeOK, CommitKnown
  <2>3. stack' \in {"none", "own", "late"} /\ incidents' \in 0..MaxIncidents
      BY <2>1, IncidentTyped DEF Overrun, MayHaveRun, Done, Typed, PreviewTypeOK
  <2>4. Late(t, runner[t]) \in LateHandlers
      BY <2>1 DEF Overrun, Late, LateHandlers, Typed, PreviewTypeOK
  <2>5. overrun' \subseteq LateHandlers
      BY <2>1, <2>4 DEF Overrun, Typed, PreviewTypeOK, LateHandlers
  <2>6. OperationIs(t, state) /\ RunnerAt(t, "none") /\ UNCHANGED <<preview, lateRecord, delivery, request>>
      BY <2>1 DEF Overrun
  <2> QED
      BY <2>2, <2>3, <2>5, <2>6
      DEF Typed, PreviewTypeOK, CommitKnown, WaitingHasAttempt, HasCommit, OperationIs, RunnerAt, LateHandlers
<1>10. CASE StopDeployment(t)
  <2>1. deployment[t].state = "running" /\ HasCommit
      BY <1>10 DEF StopDeployment, Typed, PreviewTypeOK, CommitKnown
  <2>2. OperationIs(t, "cancelled") /\ RunnerAt(t, "none") /\ incidents' \in 0..MaxIncidents
      BY <1>10, IncidentTyped DEF StopDeployment, Typed
  <2>3. UNCHANGED <<preview, overrun, stack, lateRecord, delivery, request>>
      BY <1>10 DEF StopDeployment
  <2> QED
      BY <2>1, <2>2, <2>3
      DEF Typed, PreviewTypeOK, CommitKnown, WaitingHasAttempt, HasCommit, OperationIs, RunnerAt
<1>7. CASE CancelDeployment(t)
    BY <1>7, PreviewAssumption
    DEF Typed, PreviewTypeOK, CommitKnown, WaitingHasAttempt, HasCommit,
        PreviewAssumption, CancelDeployment, Waits, OperationIs, Incident
<1>8. CASE RetryDeployment(t)
    BY <1>8, PreviewAssumption
    DEF Typed, PreviewTypeOK, CommitKnown, WaitingHasAttempt, HasCommit,
        PreviewAssumption, RetryDeployment, TriesLeft, OperationIs, Incident
<1>9. CASE RecoverDeployment(t)
    BY <1>9, PreviewAssumption
    DEF Typed, PreviewTypeOK, CommitKnown, WaitingHasAttempt, HasCommit,
        PreviewAssumption, RecoverDeployment, OperationIs
<1> QED
    BY <1>1, <1>2, <1>3, <1>4, <1>5, <1>6, <1>7, <1>8, <1>9, <1>10 DEF Work

\* Time, extensions, late writes and the end of the worker.
LEMMA RestTyped ==
    ASSUME Typed, Expire \/ Extend \/ (\E w \in overrun : LateCommand(w) \/ LateRecord(w)) \/ WorkerDies
    PROVE  Typed'
<1>1. CASE Expire
    BY <1>1 DEF Typed, PreviewTypeOK, CommitKnown, WaitingHasAttempt, HasCommit, Expire
<1>2. CASE Extend
    BY <1>2, IncidentTyped DEF Typed, PreviewTypeOK, CommitKnown, WaitingHasAttempt, HasCommit, Extend
<1>3. CASE \E w \in overrun : LateCommand(w)
  <2>1. PICK w \in overrun : LateCommand(w)
      BY <1>3
  <2>2. LateAt(w, "record") \in LateHandlers /\ LateAt(w, "refused") \in LateHandlers
      BY DEF LateAt, LateHandlers, Typed, PreviewTypeOK
  <2>3. overrun' \subseteq LateHandlers
      BY <2>1, <2>2 DEF LateCommand, LateHandlers, Typed, PreviewTypeOK
  <2>4. stack' \in {"none", "own", "late"}
      BY <2>1 DEF LateCommand, MayHaveRun, Done, Typed, PreviewTypeOK
  <2>5. UNCHANGED <<preview, deployment, runner, lateRecord, delivery, request, incidents>>
      BY <2>1 DEF LateCommand
  <2> QED
      BY <2>3, <2>4, <2>5 DEF Typed, PreviewTypeOK, CommitKnown, WaitingHasAttempt, HasCommit, LateHandlers
<1>5. CASE \E w \in overrun : LateRecord(w)
  <2>1. PICK w \in overrun : LateRecord(w)
      BY <1>5
  <2>2. \/ UNCHANGED preview
        \/ \E status \in Statuses : preview' = [preview EXCEPT !.status = status]
      BY <2>1 DEF LateRecord, Becomes, ResultAt, Statuses
  <2>3. /\ preview' \in [status : Statuses, commit : Commits \cup {NoCommit}, expired : BOOLEAN]
        /\ preview'.commit = preview.commit
      BY <2>2 DEF Typed, PreviewTypeOK, Statuses
  <2>4. HasCommit /\ HasCommit'
      BY <2>1, <2>3 DEF Typed, CommitKnown, HasCommit
  <2>5. overrun' \subseteq LateHandlers /\ lateRecord' \in BOOLEAN
      BY <2>1 DEF LateRecord, LateHandlers, Typed, PreviewTypeOK
  <2>6. UNCHANGED <<deployment, runner, stack, delivery, request, incidents>>
      BY <2>1 DEF LateRecord
  <2> QED
      BY <2>3, <2>4, <2>5, <2>6
      DEF Typed, PreviewTypeOK, CommitKnown, WaitingHasAttempt, HasCommit, LateHandlers, Statuses
<1>4. CASE WorkerDies
  <2>1. \A t \in Targets : Late(t, "orphan") \in LateHandlers
      BY DEF Late, LateHandlers, Typed, PreviewTypeOK
  <2>2. \A w \in overrun : LateAt(w, "orphan") \in LateHandlers
      BY DEF LateAt, LateHandlers, Typed, PreviewTypeOK
  <2>3. overrun' \subseteq LateHandlers
      BY <1>4, <2>1, <2>2 DEF WorkerDies
  <2>4. HasCommit
      BY <1>4 DEF WorkerDies, Typed, PreviewTypeOK, CommitKnown
  <2> QED
      BY <1>4, <2>3, <2>4, IncidentTyped
      DEF Typed, PreviewTypeOK, CommitKnown, WaitingHasAttempt, HasCommit, WorkerDies, LateHandlers
<1> QED
    BY <1>1, <1>2, <1>3, <1>4, <1>5

-----------------------------------------------------------------------------
(* One handler at a time, and what it has done.                            *)

Locked == OneRuns /\ DoneAsRecorded /\ DestroyedMeansGone

\* No call makes an operation run, or a preview destroyed.
LEMMA CallLocked ==
    ASSUME Typed, Locked, CallKnowsTarget, NEW p \in Callers, Call(p)
    PROVE  Locked'
<1>1. \A t \in Targets : deployment'[t].state = "running" => deployment[t].state = "running"
    BY SMTT(30) DEF Call, Receive, DecideDelivery, EnqueueTarget, MarkQueued, Answer, CallerCrashes, RequestDeploy, RequestRebuild, RequestDestroy, Cleanup,
        IsNew, Typed, PreviewTypeOK
<1>2. preview'.status = "destroyed" => preview.status = "destroyed"
    BY DEF Call, Receive, DecideDelivery, EnqueueTarget, MarkQueued, Answer, CallerCrashes, RequestDeploy, RequestRebuild, RequestDestroy, Cleanup,
        Upserted, Changed, Typed, PreviewTypeOK
<1>3. UNCHANGED <<runner, stack, lateRecord>>
    BY DEF Call, Receive, DecideDelivery, EnqueueTarget, MarkQueued, Answer, CallerCrashes, RequestDeploy, RequestRebuild, RequestDestroy, Cleanup
<1> QED
    BY <1>1, <1>2, <1>3 DEF Locked, OneRuns, DoneAsRecorded, DestroyedMeansGone

\* The lock lets one handler in, which writes what it has done.
LEMMA WorkLocked ==
    ASSUME Typed, Locked, NEW t \in Targets, Work(t)
    PROVE  Locked'
<1>1. CASE ClaimDeployment(t)
    BY <1>1 DEF Typed, PreviewTypeOK, Locked, OneRuns, DoneAsRecorded, DestroyedMeansGone,
        ClaimDeployment, RunnerAt, LockFree
<1>2. CASE StartDeployment(t)
    BY <1>2 DEF Typed, PreviewTypeOK, Locked, OneRuns, DoneAsRecorded, DestroyedMeansGone,
        StartDeployment, Becomes, RunnerAt, IsDestroy
<1>3. CASE RunCommand(t)
  <2>1. \A u \in Targets \ {t} : runner[u] = "none"
      BY <1>3 DEF RunCommand, Typed, PreviewTypeOK, Locked, OneRuns
  <2>2. ~IsDestroy(t) => preview.status # "destroyed" \/ lateRecord
      BY <1>3 DEF RunCommand, Locked, DoneAsRecorded
  <2>3. /\ UNCHANGED <<preview, deployment, lateRecord>>
        /\ IsDestroy(t) => stack' \in {stack, "none"}
      BY <1>3 DEF RunCommand, MayHaveRun, Done
  <2>4. \/ runner' = [runner EXCEPT ![t] = "record"] /\ (IsDestroy(t) => stack' # "own")
        \/ runner' = [runner EXCEPT ![t] = "refused"]
        \/ runner' = [runner EXCEPT ![t] = "fail"]
      BY <1>3 DEF RunCommand, RunnerAt, Done
  <2>5. DoneAsRecorded'
      BY <2>1, <2>4 DEF DoneAsRecorded, Typed, PreviewTypeOK
  <2> QED
      BY <2>2, <2>3, <2>5 DEF Locked, OneRuns, DestroyedMeansGone
<1>4. CASE RecordResult(t)
  <2>1. \A u \in Targets \ {t} : runner[u] = "none"
      BY <1>4 DEF RecordResult, Typed, PreviewTypeOK, Locked, OneRuns
  <2>2. /\ runner'[t] \in {"finish", "fail"} /\ \A u \in Targets \ {t} : runner'[u] = runner[u]
        /\ UNCHANGED <<deployment, stack>>
      BY <1>4 DEF RecordResult, RunnerAt, Typed, PreviewTypeOK
  <2>3. preview'.status = ResultAt(t, runner[t])
      BY <1>4 DEF RecordResult, Becomes, Typed, PreviewTypeOK
  <2>4. preview'.status = "destroyed" => stack # "own"
      BY <2>3 DEF ResultAt, Locked, DoneAsRecorded
  <2> QED
      BY <2>1, <2>2, <2>4 DEF Locked, OneRuns, DoneAsRecorded, DestroyedMeansGone
<1>5. CASE EndDeployment(t)
    BY <1>5 DEF Typed, PreviewTypeOK, Locked, OneRuns, DoneAsRecorded, DestroyedMeansGone,
        EndDeployment, OperationIs, RunnerAt
<1>6. CASE GiveUpDeployment(t)
  <2>1. PICK state \in {"cancelled", "timed_out"} : Overrun(t, state)
      BY <1>6 DEF GiveUpDeployment
  <2>2. \A u \in Targets \ {t} : runner[u] = "none"
      BY <2>1 DEF Overrun, Typed, PreviewTypeOK, Locked, OneRuns
  <2>3. \A u \in Targets : runner'[u] = "none"
      BY <2>1, <2>2 DEF Overrun, RunnerAt, Typed, PreviewTypeOK
  <2>4. stack' = "own" => stack = "own" \/ (runner[t] = "execute" /\ ~IsDestroy(t))
      BY <2>1 DEF Overrun, MayHaveRun, Done
  <2>5. OneRuns'
      BY <2>1 DEF Overrun, OperationIs, Typed, PreviewTypeOK, Locked, OneRuns
  <2>6. UNCHANGED <<preview, lateRecord>>
      BY <2>1 DEF Overrun
  <2> QED
      BY <2>3, <2>4, <2>5, <2>6 DEF Locked, DoneAsRecorded, DestroyedMeansGone
<1>10. CASE StopDeployment(t)
    BY <1>10 DEF Typed, PreviewTypeOK, Locked, OneRuns, DoneAsRecorded, DestroyedMeansGone,
        StopDeployment, OperationIs, RunnerAt
<1>7. CASE CancelDeployment(t)
    BY <1>7 DEF Typed, PreviewTypeOK, Locked, OneRuns, DoneAsRecorded, DestroyedMeansGone,
        CancelDeployment, OperationIs
<1>8. CASE RetryDeployment(t)
    BY <1>8 DEF Typed, PreviewTypeOK, Locked, OneRuns, DoneAsRecorded, DestroyedMeansGone,
        RetryDeployment, OperationIs
<1>9. CASE RecoverDeployment(t)
    BY <1>9 DEF Typed, PreviewTypeOK, Locked, OneRuns, DoneAsRecorded, DestroyedMeansGone,
        RecoverDeployment, OperationIs
<1> QED
    BY <1>1, <1>2, <1>3, <1>4, <1>5, <1>6, <1>7, <1>8, <1>9, <1>10 DEF Work

\* Time, extensions, late writes and the end of the worker.
LEMMA RestLocked ==
    ASSUME Typed, Locked, Expire \/ Extend \/ (\E w \in overrun : LateCommand(w) \/ LateRecord(w)) \/ WorkerDies
    PROVE  Locked'
<1>1. CASE Expire
    BY <1>1 DEF Typed, PreviewTypeOK, Locked, OneRuns, DoneAsRecorded, DestroyedMeansGone, Expire
<1>2. CASE Extend
    BY <1>2 DEF Typed, PreviewTypeOK, Locked, OneRuns, DoneAsRecorded, DestroyedMeansGone, Extend
<1>3. CASE \E w \in overrun : LateCommand(w)
  <2>1. PICK w \in overrun : LateCommand(w)
      BY <1>3
  <2>2. stack' = "own" => stack = "own"
      BY <2>1 DEF LateCommand, MayHaveRun, Done
  <2>3. UNCHANGED <<preview, deployment, runner, lateRecord>>
      BY <2>1 DEF LateCommand
  <2> QED
      BY <2>2, <2>3 DEF Locked, OneRuns, DoneAsRecorded, DestroyedMeansGone
<1>5. CASE \E w \in overrun : LateRecord(w)
  <2>1. PICK w \in overrun : LateRecord(w)
      BY <1>5
  <2>2. UNCHANGED <<deployment, runner, stack>>
      BY <2>1 DEF LateRecord
  <2>3. \/ UNCHANGED <<preview, lateRecord>>
        \/ lateRecord' = (lateRecord \/ preview'.status = "destroyed")
      BY <2>1 DEF LateRecord
  <2>4. preview'.status = "destroyed" /\ ~lateRecord' => preview.status = "destroyed" /\ ~lateRecord
      BY <2>3
  <2> QED
      BY <2>2, <2>4 DEF Locked, OneRuns, DoneAsRecorded, DestroyedMeansGone
<1>4. CASE WorkerDies
    BY <1>4 DEF Typed, PreviewTypeOK, Locked, OneRuns, DoneAsRecorded, DestroyedMeansGone, WorkerDies
<1> QED
    BY <1>1, <1>2, <1>3, <1>4, <1>5

-----------------------------------------------------------------------------
(* Calls and deliveries.                                                   *)

Answered == CallKnowsTarget /\ AnsweredDeliveriesHaveWork

\* No step makes a stored operation absent.
Kept == \A t \in Targets : deployment[t].state # "absent" => deployment'[t].state # "absent"

\* A call stores the operation before it marks the row and answers the delivery.
LEMMA CallAnswered ==
    ASSUME Typed, Answered, NEW p \in Callers, Call(p)
    PROVE  Answered'
<1>1. CASE \E d \in Deliveries : Receive(p, d)
    BY <1>1, TargetsTyped, ContinueKeeps
    DEF Typed, PreviewTypeOK, Answered, CallKnowsTarget, AnsweredDeliveriesHaveWork,
        Receive, Asks, TargetOf
<1>2. CASE DecideDelivery(p)
  <2>1. UNCHANGED deployment /\ request[p].pc = "decide"
      BY <1>2 DEF DecideDelivery
  <2>2. CASE Continue(p, "enqueue") /\ UNCHANGED delivery
      BY <2>1, <2>2, ContinueKeeps
      DEF Typed, PreviewTypeOK, Answered, CallKnowsTarget, AnsweredDeliveriesHaveWork
  <2>3. CASE HangUp(p) /\ delivery' = [delivery EXCEPT ![request[p].delivery] = "ignored"]
      BY <2>1, <2>3, TargetsTyped
      DEF Typed, PreviewTypeOK, Answered, CallKnowsTarget, AnsweredDeliveriesHaveWork, HangUp, NoRequest
  <2> QED
      BY <1>2, <2>2, <2>3 DEF DecideDelivery
<1>3. CASE EnqueueTarget(p)
    BY <1>3, TargetsTyped, ContinueKeeps
    DEF Typed, PreviewTypeOK, Answered, CallKnowsTarget, AnsweredDeliveriesHaveWork,
        EnqueueTarget, IsNew
<1>4. CASE MarkQueued(p)
  <2>1. UNCHANGED <<deployment, delivery>> /\ request[p].pc = "mark"
      BY <1>4 DEF MarkQueued
  <2>2. CASE HangUp(p)
    <3>1. request'[p] = NoRequest /\ \A q \in Callers \ {p} : request'[q] = request[q]
        BY <2>2 DEF HangUp, Typed, PreviewTypeOK
    <3>2. NoRequest.pc = "none" /\ NoRequest.delivery \notin Deliveries
        BY TargetsTyped DEF NoRequest
    <3>3. CallKnowsTarget'
        BY <2>1, <3>1, <3>2 DEF Answered, CallKnowsTarget
    <3> QED
        BY <2>1, <3>3 DEF Answered, AnsweredDeliveriesHaveWork
  <2>3. CASE request[p].delivery # NoCommit /\ Continue(p, "answer")
    <3>1. request[p].delivery \in Deliveries
        BY <2>3 DEF Typed, PreviewTypeOK, RequestType
    <3>2. /\ request'[p].pc = "answer" /\ request'[p].target = request[p].target
          /\ request'[p].delivery = request[p].delivery
          /\ \A q \in Callers \ {p} : request'[q] = request[q]
        BY <2>3, ContinueKeeps DEF Typed
    <3>3. CallKnowsTarget'
        BY <2>1, <3>1, <3>2 DEF Answered, CallKnowsTarget, TargetOf
    <3> QED
        BY <2>1, <3>3 DEF Answered, AnsweredDeliveriesHaveWork
  <2> QED
      BY <1>4, <2>2, <2>3 DEF MarkQueued
<1>5. CASE Answer(p)
    BY <1>5, TargetsTyped, ContinueKeeps
    DEF Typed, PreviewTypeOK, Answered, CallKnowsTarget, AnsweredDeliveriesHaveWork,
        Answer, HangUp, NoRequest, TargetOf
<1>6. CASE CallerCrashes(p)
    BY <1>6, TargetsTyped, ContinueKeeps
    DEF Typed, PreviewTypeOK, Answered, CallKnowsTarget, AnsweredDeliveriesHaveWork,
        CallerCrashes, HangUp, NoRequest
<1>7. CASE \E c \in Commits : RequestDeploy(p, c)
    BY <1>7, TargetsTyped, ContinueKeeps
    DEF Typed, PreviewTypeOK, Answered, CallKnowsTarget, AnsweredDeliveriesHaveWork,
        RequestDeploy, Asks
<1>8. CASE RequestRebuild(p)
    BY <1>8, TargetsTyped, ContinueKeeps
    DEF Typed, PreviewTypeOK, Answered, CallKnowsTarget, AnsweredDeliveriesHaveWork,
        RequestRebuild, Asks
<1>9. CASE RequestDestroy(p)
    BY <1>9, TargetsTyped, ContinueKeeps
    DEF Typed, PreviewTypeOK, Answered, CallKnowsTarget, AnsweredDeliveriesHaveWork,
        RequestDestroy, Asks
<1>10. CASE Cleanup(p)
    BY <1>10, TargetsTyped, ContinueKeeps
    DEF Typed, PreviewTypeOK, Answered, CallKnowsTarget, AnsweredDeliveriesHaveWork,
        Cleanup, Asks
<1> QED
    BY <1>1, <1>2, <1>3, <1>4, <1>5, <1>6, <1>7, <1>8, <1>9, <1>10 DEF Call

\* Who takes part in no call leaves the calls' knowledge true.
LEMMA OthersAnswered ==
    ASSUME Typed, Answered, UNCHANGED <<request, delivery>>, Kept
    PROVE  Answered'
BY TargetsTyped DEF Kept, Typed, PreviewTypeOK, Answered, CallKnowsTarget, AnsweredDeliveriesHaveWork

\* Neither the handler nor the queue forgets an operation.
LEMMA WorkKeeps ==
    ASSUME Typed, NEW t \in Targets, Work(t)
    PROVE  Kept /\ UNCHANGED <<request, delivery>>
BY DEF Kept, Typed, PreviewTypeOK, Work, ClaimDeployment, StartDeployment, RunCommand, RecordResult,
       EndDeployment, GiveUpDeployment, Overrun, StopDeployment, CancelDeployment, RetryDeployment, RecoverDeployment, OperationIs

-----------------------------------------------------------------------------
(* The theorems.                                                           *)

\* Every step preserves the invariant.
LEMMA PreviewInvInductive == PreviewInv /\ [PreviewNext]_previewVars => PreviewInv'
<1> SUFFICES ASSUME PreviewInv, [PreviewNext]_previewVars PROVE PreviewInv'
    OBVIOUS
<1>0. PreviewInv <=> Typed /\ Locked /\ Answered
    BY DEF PreviewInv, Typed, Locked, Answered
<1>1. CASE \E p \in Callers : Call(p)
    BY <1>0, <1>1, CallTyped, CallLocked, CallAnswered DEF PreviewInv, Typed, Locked, Answered
<1>2. CASE \E t \in Targets : Work(t)
    BY <1>0, <1>2, WorkTyped, WorkLocked, WorkKeeps, OthersAnswered
    DEF PreviewInv, Typed, Locked, Answered
<1>3. CASE Expire \/ Extend \/ (\E w \in overrun : LateCommand(w) \/ LateRecord(w)) \/ WorkerDies
  <2>1. Kept /\ UNCHANGED <<request, delivery>>
      BY <1>3 DEF Kept, Expire, Extend, LateCommand, LateRecord, WorkerDies
  <2> QED
      BY <1>0, <1>3, <2>1, RestTyped, RestLocked, OthersAnswered
      DEF PreviewInv, Typed, Locked, Answered
<1>4. CASE UNCHANGED previewVars
    BY <1>4 DEF previewVars, PreviewInv, PreviewTypeOK, CommitKnown, HasCommit, WaitingHasAttempt,
        OneRuns, DoneAsRecorded, CallKnowsTarget, DestroyedMeansGone, AnsweredDeliveriesHaveWork
<1> QED
    BY <1>1, <1>2, <1>3, <1>4 DEF PreviewNext

\* The invariant holds in every reachable state.
THEOREM PreviewInvariant == PreviewSpec => []PreviewInv
BY PreviewInitInv, PreviewInvInductive, PTL DEF PreviewSpec

\* The rows, operations, handlers and calls are well typed, and a handler runs only for an
\* operation that does.
THEOREM PreviewsTyped == PreviewSpec => []PreviewTypeOK
<1>1. PreviewInv => PreviewTypeOK
    BY DEF PreviewInv
<1> QED
    BY <1>1, PreviewInvariant, PTL

\* A preview that its teardown recorded as destroyed has no stack left but one that a command
\* made whose operation had ended under it, for any number of time-outs, cancellations, crashes
\* and retries.
THEOREM DestroyedPreviewsAreGone == PreviewSpec => []DestroyedMeansGone
<1>1. PreviewInv => DestroyedMeansGone
    BY DEF PreviewInv
<1> QED
    BY <1>1, PreviewInvariant, PTL

\* A delivery answered as enqueued has its operation, in whatever order deliveries come,
\* and however often.
THEOREM AnsweredDeliveriesAreStored == PreviewSpec => []AnsweredDeliveriesHaveWork
<1>1. PreviewInv => AnsweredDeliveriesHaveWork
    BY DEF PreviewInv
<1> QED
    BY <1>1, PreviewInvariant, PTL
=============================================================================
