---------------------------- MODULE BackupsProofs ----------------------------
(***************************************************************************)
(* Theorems about Backups, for any points, days, retention, processes and  *)
(* number of upsets.                                                       *)
(*                                                                         *)
(* A cleanup marks its point before it deletes anything, and nothing makes *)
(* a marked point available again: hence AvailableIsStored.  The check and *)
(* the mark are two statements; between them the handler's thread does     *)
(* nothing else, so that what the check has found still holds: hence       *)
(* RetainedPointsRemain, whatever the commands do meanwhile.  That the     *)
(* point is not held or being restored still holds only if no command may  *)
(* ask for protection or a restore: hence the condition of                 *)
(* ProtectionRespected.                                                    *)
(***************************************************************************)
EXTENDS Backups, FiniteSetTheorems, TLAPS

\* What a point, a job, an operation, a handler and a call of the coordinator are.
PointType == [status : {"absent", "available", "deleting", "deleted"},
              checked : {"unverified", "verifying", "verified", "bad"},
              held : BOOLEAN, expired : BOOLEAN, stored : BOOLEAN]
JobType == [status : {"absent", "queued", "running", "succeeded", "failed", "cleanup_required"},
            attached : BOOLEAN]
TaskType == [state : {"absent", "queued", "running", "succeeded", "ended"}, tries : 0..3]
HandlerType == [task : Tasks, try : 1..3, pc : Synchronous \cup Awaiting]
CallType == [pc : {"none", "create", "enqueue", "attach"},
             job : BackupJobs, todo : SUBSET BackupJobs]

\* An operation that may be claimed has an attempt left.
WaitingHasTry ==
    \A t \in Tasks : task[t].state \in {"absent", "queued"} => task[t].tries < MaxTries(t.job.kind)

\* Where the handlers of a kind can be.
HandlersKnow ==
    \A h \in running :
        /\ h.pc \in {"check", "mark", "gone"} => h.task.job.kind = "cleanup"
        /\ h.pc \in {"stored", "chained"} => h.task.job.kind = "backup" /\ made # 0
        /\ h.pc = "apply" => h.task.job.kind = "restore"

\* The types, and what they rest on: the first inductive invariant.
BackupsTyped == BackupTypeOK /\ WaitingHasTry /\ HandlersKnow

-----------------------------------------------------------------------------
(* Kinds of jobs, and what the helpers of the steps keep.                  *)

\* Every key the coordinator makes is a job, and what is not a backup is about a point.
LEMMA JobsTyped ==
    /\ \A n \in 1..MaxBackups : JobFor("backup", n) \in BackupJobs
    /\ \A p \in Points, k \in {"verify", "restore", "cleanup"} : JobFor(k, p) \in BackupJobs
    /\ \A j \in BackupJobs : /\ j.kind \in {"backup", "verify", "restore", "cleanup"}
                             /\ j.kind # "backup" => j.of \in Points /\ j = JobFor(j.kind, j.of)
    /\ \A t \in Tasks : t.job \in BackupJobs
    /\ \A k, l, p, q : JobFor(k, p).kind = k /\ (JobFor(k, p) = JobFor(l, q) => k = l /\ p = q)
    /\ NoAsk \in CallType /\ NoAsk.pc = "none" /\ NoAsk.job.kind = "backup" /\ NoAsk.todo = {}
BY BackupsAssumption
   DEF BackupsAssumption, BackupJobs, JobFor, Tasks, NoAsk, CallType

\* An operation is tried at least once, and three times at most.
LEMMA TriesTyped ==
    \A k \in {"backup", "verify", "restore", "cleanup"} : MaxTries(k) \in 1..3
BY DEF MaxTries

\* The state that the steps below start from, in the names of this module.
LEMMA TypedState ==
    ASSUME BackupTypeOK
    PROVE  /\ point \in [Points -> PointType] /\ backupJob \in [BackupJobs -> JobType]
           /\ task \in [Tasks -> TaskType] /\ running \subseteq HandlerType
           /\ asking \in [Askers -> CallType]
           /\ made \in Nat /\ made <= MaxPoints /\ MaxPoints \in Nat /\ 1..made \subseteq Points
BY BackupsAssumption
   DEF BackupTypeOK, PointType, JobType, TaskType, HandlerType, CallType, BackupsAssumption, Points

\* A handler's job is a job; that of a cleanup, a verification or a restore is about a point.
LEMMA HandlerTyped ==
    ASSUME NEW h \in HandlerType
    PROVE  /\ h.task \in Tasks /\ h.task.job \in BackupJobs
           /\ h.task.job.kind # "backup" => Of(h) \in Points
BY JobsTyped DEF HandlerType, Of

\* An upset is counted up to the bound of the model.
LEMMA UpsetTyped == ASSUME BackupTypeOK, Upset PROVE upsets' \in 0..MaxUpsets
BY BackupsAssumption DEF BackupTypeOK, Upset, BackupsAssumption

\* A handler that goes on is the same but for its place.
LEMMA ToTyped ==
    ASSUME NEW h \in HandlerType, running \subseteq HandlerType,
           NEW pc \in Synchronous \cup Awaiting, To(h, pc)
    PROVE  /\ running' \subseteq HandlerType
           /\ \A g \in running' : \/ g \in running \ {h}
                                  \/ g = [h EXCEPT !.pc = pc] /\ g.pc = pc /\ g.task = h.task
BY DEF To, HandlerType

\* A handler writes the status of its own job.
LEMMA JobIsTyped ==
    ASSUME NEW h \in HandlerType, backupJob \in [BackupJobs -> JobType],
           NEW s \in {"running", "succeeded", "failed", "cleanup_required"}, JobIs(h, s)
    PROVE  /\ backupJob' \in [BackupJobs -> JobType]
           /\ \A j \in BackupJobs \ {h.task.job} : backupJob'[j] = backupJob[j]
BY HandlerTyped DEF JobIs, JobType

\* A verification writes its result, and nothing else of the point.
LEMMA CheckedTyped ==
    ASSUME point \in [Points -> PointType], NEW p \in Points,
           NEW r \in {"verifying", "verified", "bad"}, Checked(p, r)
    PROVE  /\ point' \in [Points -> PointType]
           /\ \A q \in Points : /\ point'[q].status = point[q].status
                                /\ point'[q].stored = point[q].stored
                                /\ point'[q].held = point[q].held
BY DEF Checked, PointType

\* Storing, expiring and protecting a point leave it a point.
LEMMA PointStaysTyped ==
    ASSUME point \in [Points -> PointType], NEW p \in Points
    PROVE  /\ point' = [point EXCEPT ![p].expired = TRUE] => point' \in [Points -> PointType]
           /\ point' = [point EXCEPT ![p].held = ~@] => point' \in [Points -> PointType]
           /\ point' = [point EXCEPT ![p].status = "available", ![p].stored = TRUE]
                => point' \in [Points -> PointType]
<1>1. point[p] \in PointType
    OBVIOUS
<1>2. CASE point' = [point EXCEPT ![p].expired = TRUE]
  <2>1. [point[p] EXCEPT !.expired = TRUE] \in PointType
      BY <1>1, ZenonT(30) DEF PointType
  <2> QED
      BY <1>2, <2>1
<1>3. CASE point' = [point EXCEPT ![p].held = ~@]
  <2>1. [point[p] EXCEPT !.held = ~@] \in PointType
      BY <1>1, ZenonT(30) DEF PointType
  <2> QED
      BY <1>3, <2>1
<1>4. CASE point' = [point EXCEPT ![p].status = "available", ![p].stored = TRUE]
  <2>1. [point[p] EXCEPT !.status = "available", !.stored = TRUE] \in PointType
      BY <1>1, ZenonT(30) DEF PointType
  <2>2. point' = [point EXCEPT ![p] = [point[p] EXCEPT !.status = "available", !.stored = TRUE]]
      BY <1>4
  <2> QED
      BY <2>1, <2>2
<1> QED
    BY <1>2, <1>3, <1>4

\* A call begins with one job of its list, and goes on with the next.
LEMMA TakesTyped ==
    ASSUME asking \in [Askers -> CallType], NEW a \in Askers, NEW j \in BackupJobs,
           NEW rest \in SUBSET BackupJobs, Takes(a, j, rest)
    PROVE  /\ asking' \in [Askers -> CallType]
           /\ asking'[a] = [pc |-> "create", job |-> j, todo |-> rest]
           /\ \A b \in Askers \ {a} : asking'[b] = asking[b]
BY DEF Takes, CallType

\* A call that has asked for one of its jobs is done or goes on with the next.
LEMMA ProceedsTyped ==
    ASSUME asking \in [Askers -> CallType], NEW a \in Askers, Proceeds(a)
    PROVE  /\ asking' \in [Askers -> CallType]
           /\ \A b \in Askers \ {a} : asking'[b] = asking[b]
           /\ \/ asking'[a] = NoAsk
              \/ asking'[a].job \in asking[a].todo /\ asking'[a].todo \subseteq asking[a].todo
<1> DEFINE Goal == /\ asking' \in [Askers -> CallType]
                   /\ \A b \in Askers \ {a} : asking'[b] = asking[b]
                   /\ \/ asking'[a] = NoAsk
                      \/ asking'[a].job \in asking[a].todo /\ asking'[a].todo \subseteq asking[a].todo
<1>1. asking[a] \in CallType
    BY DEF CallType
<1>2. CASE asking' = [asking EXCEPT ![a] = NoAsk]
    BY <1>2, JobsTyped
<1>3. ASSUME NEW j \in asking[a].todo, Takes(a, j, asking[a].todo \ {j}) PROVE Goal
  <2>1. j \in BackupJobs /\ asking[a].todo \ {j} \in SUBSET BackupJobs
      BY <1>1 DEF CallType
  <2>2. asking'[a] = [pc |-> "create", job |-> j, todo |-> asking[a].todo \ {j}]
      BY <1>3, <2>1, TakesTyped
  <2>3. /\ asking' \in [Askers -> CallType]
        /\ \A b \in Askers \ {a} : asking'[b] = asking[b]
      BY <1>3, <2>1, TakesTyped
  <2> QED
      BY <2>2, <2>3
<1> QED
    BY <1>2, <1>3 DEF Proceeds

-----------------------------------------------------------------------------
(* The tables stay well typed.                                             *)

\* What BackupsTyped is made of.
LEMMA TypedNext ==
    ASSUME point' \in [Points -> PointType], backupJob' \in [BackupJobs -> JobType],
           task' \in [Tasks -> TaskType], running' \subseteq HandlerType,
           asking' \in [Askers -> CallType],
           made' \in 0..MaxPoints, asked' \in 0..MaxBackups, upsets' \in 0..MaxUpsets,
           \A t \in Tasks : task'[t].tries <= MaxTries(t.job.kind),
           WaitingHasTry', HandlersKnow'
    PROVE  BackupsTyped'
BY DEF BackupsTyped, BackupTypeOK, PointType, JobType, TaskType, HandlerType, CallType

\* A call of the coordinator touches calls, jobs and new operations.
LEMMA AskTyped ==
    ASSUME BackupsTyped, NEW a \in Askers, AskStep(a)
    PROVE  BackupsTyped'
<1>1. /\ point \in [Points -> PointType] /\ backupJob \in [BackupJobs -> JobType]
      /\ task \in [Tasks -> TaskType] /\ running \subseteq HandlerType
      /\ asking \in [Askers -> CallType]
      /\ made \in 0..MaxPoints /\ asked \in 0..MaxBackups /\ upsets \in 0..MaxUpsets
      /\ 1..made \subseteq Points
      /\ \A t \in Tasks : task[t].tries <= MaxTries(t.job.kind)
    BY TypedState DEF BackupsTyped, BackupTypeOK
<1>2. WaitingHasTry /\ HandlersKnow /\ BackupTypeOK
    BY DEF BackupsTyped
<1>3. UNCHANGED <<task, running, made>> => WaitingHasTry' /\ HandlersKnow'
    BY <1>2 DEF WaitingHasTry, HandlersKnow
<1>4. asking[a] \in CallType /\ asking[a].job \in BackupJobs
    BY <1>1 DEF CallType
<1>5. CASE AskBackup(a)
  <2>1. asked' \in 1..MaxBackups /\ asked' = asked + 1
      BY <1>1, <1>5, BackupsAssumption DEF AskBackup, BackupsAssumption
  <2>2. asking' \in [Askers -> CallType]
    <3>1. JobFor("backup", asked + 1) \in BackupJobs
        BY <2>1, JobsTyped
    <3>2. Takes(a, JobFor("backup", asked + 1), {})
        BY <1>5 DEF AskBackup
    <3>3. {} \in SUBSET BackupJobs
        OBVIOUS
    <3> QED
        BY <1>1, <3>1, <3>2, <3>3, TakesTyped
  <2> QED
      BY <1>1, <1>3, <1>5, <2>1, <2>2, TypedNext DEF AskBackup
<1>6. CASE AskRetention(a)
  <2>1. Candidates \subseteq Points
      BY <1>1 DEF Candidates
  <2>2. PICK p \in Candidates :
          Takes(a, JobFor("cleanup", p), {JobFor("cleanup", q) : q \in Candidates \ {p}})
      BY <1>6 DEF AskRetention
  <2>3. /\ JobFor("cleanup", p) \in BackupJobs
        /\ {JobFor("cleanup", q) : q \in Candidates \ {p}} \in SUBSET BackupJobs
      BY <2>1, JobsTyped
  <2>4. asking' \in [Askers -> CallType]
      BY <1>1, <2>2, <2>3, TakesTyped
  <2> QED
      BY <1>1, <1>3, <1>6, <2>4, TypedNext DEF AskRetention
<1>7. ASSUME NEW p \in 1..made, AskVerification(a, p) \/ AskRestore(a, p) PROVE BackupsTyped'
  <2>1. asking' \in [Askers -> CallType]
    <3>1. PICK k \in {"verify", "restore"} : Takes(a, JobFor(k, p), {})
        BY <1>7, ZenonT(30) DEF AskVerification, AskRestore
    <3>2. JobFor(k, p) \in BackupJobs /\ {} \in SUBSET BackupJobs
        BY <1>1, JobsTyped
    <3> QED
        BY <1>1, <3>1, <3>2, TakesTyped
  <2>2. UNCHANGED <<point, made, backupJob, task, running, asked, upsets>>
      BY <1>7 DEF AskVerification, AskRestore
  <2> QED
      BY <1>1, <1>3, <2>1, <2>2, TypedNext
<1>8. ASSUME NEW p \in 1..made, Protect(a, p) PROVE BackupsTyped'
  <2>1. point' \in [Points -> PointType]
      BY <1>1, <1>8, PointStaysTyped DEF Protect
  <2> QED
      BY <1>1, <1>2, <1>3, <1>8, <2>1, UpsetTyped, TypedNext DEF Protect
<1>9. CASE CreateJob(a)
  <2>1. backupJob' \in [BackupJobs -> JobType]
      BY <1>1, <1>4, <1>9 DEF CreateJob, JobType
  <2>2. asking' \in [Askers -> CallType]
    <3>1. CASE Proceeds(a)
        BY <1>1, <3>1, ProceedsTyped
    <3>2. CASE asking' = [asking EXCEPT ![a].pc = "enqueue"]
        BY <1>1, <3>2 DEF CallType
    <3> QED
        BY <1>9, <3>1, <3>2 DEF CreateJob
  <2> QED
      BY <1>1, <1>3, <1>9, <2>1, <2>2, TypedNext DEF CreateJob
<1>10. CASE EnqueueTask(a)
  <2>1. asking' \in [Askers -> CallType]
      BY <1>1, <1>10 DEF EnqueueTask, CallType
  <2>2. PICK t \in Tasks : task[t].state = "absent" /\ task' = [task EXCEPT ![t].state = "queued"]
      BY <1>10 DEF EnqueueTask
  <2>3. /\ task' \in [Tasks -> TaskType]
        /\ \A u \in Tasks : /\ task'[u].tries = task[u].tries
                            /\ task'[u].state = task[u].state \/ u = t
      BY <1>1, <2>2 DEF TaskType
  <2>4. WaitingHasTry'
      BY <1>2, <2>2, <2>3 DEF WaitingHasTry
  <2>5. HandlersKnow'
      BY <1>2, <1>10 DEF EnqueueTask, HandlersKnow
  <2> QED
      BY <1>1, <1>10, <2>1, <2>3, <2>4, <2>5, TypedNext DEF EnqueueTask
<1>11. CASE AttachTask(a)
  <2>1. backupJob' \in [BackupJobs -> JobType]
      BY <1>1, <1>4, <1>11 DEF AttachTask, JobType
  <2>2. asking' \in [Askers -> CallType]
      BY <1>1, <1>11, ProceedsTyped DEF AttachTask
  <2> QED
      BY <1>1, <1>3, <1>11, <2>1, <2>2, TypedNext DEF AttachTask
<1>12. CASE ShellCrashes(a)
  <2>1. asking' \in [Askers -> CallType]
      BY <1>1, <1>12, JobsTyped DEF ShellCrashes
  <2> QED
      BY <1>1, <1>3, <1>12, <2>1, TypedNext DEF ShellCrashes
<1> QED
    BY <1>5, <1>6, <1>7, <1>8, <1>9, <1>10, <1>11, <1>12 DEF AskStep

\* A handler that goes on knows what its new place takes for granted.
LEMMA ToKnows ==
    ASSUME BackupsTyped, NEW h \in running, NEW pc \in Synchronous \cup Awaiting, To(h, pc),
           made # 0 => made' # 0,
           pc \in {"check", "mark", "gone"} => h.task.job.kind = "cleanup",
           pc \in {"stored", "chained"} => h.task.job.kind = "backup" /\ made' # 0,
           pc = "apply" => h.task.job.kind = "restore"
    PROVE  HandlersKnow' /\ running' \subseteq HandlerType
<1>1. HandlersKnow /\ running \subseteq HandlerType /\ h \in HandlerType
    BY TypedState DEF BackupsTyped
<1>2. \A g \in running' : g \in running \/ (g.pc = pc /\ g.task = h.task)
    BY <1>1, ToTyped
<1>3. running' \subseteq HandlerType
    BY <1>1, ToTyped
<1> QED
    BY <1>1, <1>2, <1>3 DEF HandlersKnow

\* A handler touches its point, its job and its place; a backup makes a point, and its call.
LEMMA HandlerStepTyped ==
    ASSUME BackupsTyped, NEW h \in running, HandlerStep(h)
    PROVE  BackupsTyped'
<1>1. /\ point \in [Points -> PointType] /\ backupJob \in [BackupJobs -> JobType]
      /\ task \in [Tasks -> TaskType] /\ running \subseteq HandlerType
      /\ asking \in [Askers -> CallType]
      /\ made \in 0..MaxPoints /\ asked \in 0..MaxBackups /\ upsets \in 0..MaxUpsets
      /\ 1..made \subseteq Points
      /\ \A t \in Tasks : task[t].tries <= MaxTries(t.job.kind)
    BY TypedState DEF BackupsTyped, BackupTypeOK
<1>2. WaitingHasTry /\ HandlersKnow /\ BackupTypeOK
    BY DEF BackupsTyped
<1>3. UNCHANGED task => WaitingHasTry'
    BY <1>2 DEF WaitingHasTry
<1>4. /\ h \in HandlerType /\ h.task \in Tasks /\ h.task.job \in BackupJobs
      /\ h.task.job.kind # "backup" => Of(h) \in Points
    BY <1>1, HandlerTyped
<1>5. \A pc \in {"check", "mark", "stored", "chained", "good", "bad", "work", "apply", "gone"} :
        pc \in Synchronous \cup Awaiting
    BY DEF Synchronous, Awaiting
<1>6. CASE BeginJob(h)
  <2>1. PICK pc \in {"check", "work"} : To(h, pc) /\ (pc = "check" => h.task.job.kind = "cleanup")
      BY <1>6 DEF BeginJob
  <2>2. HandlersKnow' /\ running' \subseteq HandlerType
      BY <1>5, <1>6, <2>1, ToKnows DEF BeginJob
  <2>3. point' \in [Points -> PointType]
      BY <1>1, <1>4, <1>6, CheckedTyped DEF BeginJob
  <2>4. backupJob' \in [BackupJobs -> JobType]
      BY <1>1, <1>4, <1>6, JobIsTyped DEF BeginJob
  <2> QED
      BY <1>1, <1>3, <1>6, <2>2, <2>3, <2>4, TypedNext DEF BeginJob
<1>7. CASE StorePoint(h)
  <2>1. made' \in 0..MaxPoints /\ made' # 0
      BY <1>1, <1>7, BackupsAssumption DEF StorePoint, BackupsAssumption
  <2>2. HandlersKnow' /\ running' \subseteq HandlerType
      BY <1>5, <1>7, <2>1, ToKnows DEF StorePoint, Is
  <2>3. point' \in [Points -> PointType]
    <3>1. made < MaxPoints
        BY <1>7, ZenonT(30) DEF StorePoint
    <3>2. made + 1 \in Points
        BY <1>1, <3>1, BackupsAssumption DEF BackupsAssumption, Points
    <3>3. point' = [point EXCEPT ![made + 1].status = "available", ![made + 1].stored = TRUE]
        BY <1>7, ZenonT(30) DEF StorePoint
    <3> QED
        BY <1>1, <3>2, <3>3, PointStaysTyped
  <2> QED
      BY <1>1, <1>3, <1>7, <2>1, <2>2, <2>3, TypedNext DEF StorePoint
<1>8. CASE ChainVerification(h)
  <2>1. h.task.job.kind = "backup" /\ made # 0 /\ made \in Points
      BY <1>1, <1>2, <1>8 DEF ChainVerification, HandlersKnow, Points
  <2>2. HandlersKnow' /\ running' \subseteq HandlerType
      BY <1>5, <1>8, <2>1, ToKnows DEF ChainVerification
  <2>3. backupJob' \in [BackupJobs -> JobType]
      BY <1>1, <1>4, <1>8, JobIsTyped DEF ChainVerification
  <2>4. asking' \in [Askers -> CallType]
    <3>1. JobFor("verify", made) \in BackupJobs /\ {} \in SUBSET BackupJobs
        BY <2>1, JobsTyped
    <3>2. Takes(Dashboard, JobFor("verify", made), {}) /\ Dashboard \in Askers
        BY <1>8 DEF ChainVerification, Askers
    <3> QED
        BY <1>1, <3>1, <3>2, TakesTyped
  <2> QED
      BY <1>1, <1>3, <1>8, <2>2, <2>3, <2>4, TypedNext DEF ChainVerification
<1>9. CASE VerificationChained(h)
  <2>1. HandlersKnow' /\ running' \subseteq HandlerType
      BY <1>5, <1>9, ToKnows DEF VerificationChained
  <2> QED
      BY <1>1, <1>3, <1>9, <2>1, TypedNext DEF VerificationChained
<1>10. CASE PassPoint(h)
  <2>1. HandlersKnow' /\ running' \subseteq HandlerType
      BY <1>5, <1>10, ToKnows DEF PassPoint
  <2>2. point' \in [Points -> PointType]
      BY <1>1, <1>4, <1>10, CheckedTyped DEF PassPoint, Is
  <2>3. backupJob' \in [BackupJobs -> JobType]
      BY <1>1, <1>4, <1>10, JobIsTyped DEF PassPoint
  <2> QED
      BY <1>1, <1>3, <1>10, <2>1, <2>2, <2>3, TypedNext DEF PassPoint
<1>11. CASE ReadForRestore(h)
  <2>1. HandlersKnow' /\ running' \subseteq HandlerType
      BY <1>5, <1>11, ToKnows DEF ReadForRestore, Is
  <2> QED
      BY <1>1, <1>3, <1>11, <2>1, TypedNext DEF ReadForRestore
<1>12. CASE Restored(h)
  <2>1. HandlersKnow' /\ running' \subseteq HandlerType
      BY <1>5, <1>12, ToKnows DEF Restored
  <2>2. backupJob' \in [BackupJobs -> JobType]
      BY <1>1, <1>4, <1>12, JobIsTyped DEF Restored
  <2> QED
      BY <1>1, <1>3, <1>12, <2>1, <2>2, TypedNext DEF Restored
<1>13. CASE CheckPoint(h)
  <2>1. h.task.job.kind = "cleanup"
      BY <1>2, <1>13 DEF CheckPoint, HandlersKnow
  <2>2. PICK pc \in {"mark", "bad"} : To(h, pc)
      BY <1>13 DEF CheckPoint
  <2>3. HandlersKnow' /\ running' \subseteq HandlerType
      BY <1>5, <1>13, <2>1, <2>2, ToKnows DEF CheckPoint
  <2>4. backupJob' \in [BackupJobs -> JobType]
      BY <1>1, <1>4, <1>13, JobIsTyped DEF CheckPoint
  <2> QED
      BY <1>1, <1>3, <1>13, <2>3, <2>4, TypedNext DEF CheckPoint
<1>14. CASE MarkPoint(h)
  <2>1. HandlersKnow' /\ running' \subseteq HandlerType
      BY <1>5, <1>14, ToKnows DEF MarkPoint
  <2>2. point' \in [Points -> PointType]
      BY <1>1, <1>14 DEF MarkPoint, PointType
  <2> QED
      BY <1>1, <1>3, <1>14, <2>1, <2>2, TypedNext DEF MarkPoint
<1>15. CASE ObjectIsDeleted(h)
  <2>1. HandlersKnow' /\ running' \subseteq HandlerType
      BY <1>5, <1>15, ToKnows DEF ObjectIsDeleted, Is
  <2>2. point' \in [Points -> PointType]
      BY <1>1, <1>15 DEF ObjectIsDeleted, PointType
  <2> QED
      BY <1>1, <1>3, <1>15, <2>1, <2>2, TypedNext DEF ObjectIsDeleted
<1>16. CASE RecordDeleted(h)
  <2>1. HandlersKnow' /\ running' \subseteq HandlerType
      BY <1>5, <1>16, ToKnows DEF RecordDeleted
  <2>2. point' \in [Points -> PointType]
      BY <1>1, <1>16 DEF RecordDeleted, PointType
  <2>3. backupJob' \in [BackupJobs -> JobType]
      BY <1>1, <1>4, <1>16, JobIsTyped DEF RecordDeleted
  <2> QED
      BY <1>1, <1>3, <1>16, <2>1, <2>2, <2>3, TypedNext DEF RecordDeleted
<1>17. CASE WorkFails(h)
  <2>1. HandlersKnow' /\ running' \subseteq HandlerType
      BY <1>5, <1>17, ToKnows DEF WorkFails
  <2>2. point' \in [Points -> PointType]
      BY <1>1, <1>4, <1>17, CheckedTyped DEF WorkFails
  <2>3. backupJob' \in [BackupJobs -> JobType]
      BY <1>1, <1>4, <1>17, JobIsTyped DEF WorkFails
  <2>4. upsets' \in 0..MaxUpsets
      BY <1>1, <1>2, <1>17, UpsetTyped DEF WorkFails
  <2> QED
      BY <1>1, <1>3, <1>17, <2>1, <2>2, <2>3, <2>4, TypedNext DEF WorkFails
<1>18. CASE EndTask(h) \/ GiveUpTask(h)
  <2>1. running' \subseteq running /\ UNCHANGED <<point, made, backupJob, asking, asked>>
      BY <1>18 DEF EndTask, GiveUpTask
  <2>2. HandlersKnow' /\ running' \subseteq HandlerType
      BY <1>1, <1>2, <2>1 DEF HandlersKnow
  <2>3. \/ UNCHANGED task
        \/ \E s \in {"succeeded", "ended"} : TaskIs(h.task, s)
      BY <1>18 DEF EndTask, GiveUpTask
  <2>4. /\ task' \in [Tasks -> TaskType]
        /\ \A u \in Tasks : /\ task'[u].tries = task[u].tries
                            /\ task'[u].state = task[u].state \/ task'[u].state \in {"succeeded", "ended"}
      BY <1>1, <1>4, <2>3, SMTT(30) DEF TaskIs, TaskType
  <2>5. WaitingHasTry'
      BY <1>2, <2>4 DEF WaitingHasTry
  <2>6. upsets' \in 0..MaxUpsets
      BY <1>1, <1>2, <1>18, UpsetTyped DEF EndTask, GiveUpTask
  <2> QED
      BY <1>1, <2>1, <2>2, <2>4, <2>5, <2>6, TypedNext
<1> QED
    BY <1>6, <1>7, <1>8, <1>9, <1>10, <1>11, <1>12, <1>13, <1>14, <1>15, <1>16, <1>17, <1>18
    DEF HandlerStep

\* What the queue does to an operation.
LEMMA TaskStepTyped ==
    ASSUME BackupsTyped, NEW t \in Tasks, TaskStep(t)
    PROVE  BackupsTyped'
<1>1. /\ point \in [Points -> PointType] /\ backupJob \in [BackupJobs -> JobType]
      /\ task \in [Tasks -> TaskType] /\ running \subseteq HandlerType
      /\ asking \in [Askers -> CallType]
      /\ made \in 0..MaxPoints /\ asked \in 0..MaxBackups /\ upsets \in 0..MaxUpsets
      /\ \A u \in Tasks : task[u].tries <= MaxTries(u.job.kind)
    BY TypedState DEF BackupsTyped, BackupTypeOK
<1>2. WaitingHasTry /\ HandlersKnow /\ BackupTypeOK
    BY DEF BackupsTyped
<1>3. MaxTries(t.job.kind) \in 1..3 /\ task[t] \in TaskType /\ task[t].tries \in 0..3
    BY <1>1, JobsTyped, TriesTyped DEF TaskType
<1>4. CASE ClaimTask(t)
  <2>1. task[t].state = "queued" /\ task[t].tries < MaxTries(t.job.kind)
      BY <1>2, <1>4 DEF ClaimTask, Claimable, WaitingHasTry
  <2>2. task[t].tries + 1 \in 1..3 /\ task[t].tries + 1 <= MaxTries(t.job.kind)
      BY <1>3, <2>1
  <2>3. task' = [task EXCEPT ![t] = [state |-> "running", tries |-> task[t].tries + 1]]
      BY <1>1, <1>4 DEF ClaimTask, TaskType
  <2>4. /\ task' \in [Tasks -> TaskType]
        /\ task'[t].state = "running" /\ task'[t].tries = task[t].tries + 1
        /\ \A u \in Tasks \ {t} : task'[u] = task[u]
      BY <1>1, <2>2, <2>3 DEF TaskType
  <2>5. WaitingHasTry'
      BY <1>2, <2>4 DEF WaitingHasTry
  <2>6. \A u \in Tasks : task'[u].tries <= MaxTries(u.job.kind)
      BY <1>1, <2>2, <2>4
  <2>7. [task |-> t, try |-> task[t].tries + 1, pc |-> "begin"] \in HandlerType
      BY <2>2 DEF HandlerType, Synchronous
  <2>8. running' = running \cup {[task |-> t, try |-> task[t].tries + 1, pc |-> "begin"]}
      BY <1>4 DEF ClaimTask
  <2>9. HandlersKnow' /\ running' \subseteq HandlerType
      BY <1>1, <1>2, <1>4, <2>7, <2>8 DEF HandlersKnow, ClaimTask
  <2> QED
      BY <1>1, <1>4, <2>4, <2>5, <2>6, <2>9, TypedNext DEF ClaimTask
<1>5. CASE CancelTask(t) \/ RetryTask(t) \/ RecoverTask(t)
  <2>1. UNCHANGED <<point, made, backupJob, running, asking, asked>>
      BY <1>5 DEF CancelTask, RetryTask, RecoverTask
  <2>2. PICK s \in {"queued", "ended"} : TaskIs(t, s) /\ (s = "queued" => MayRepeat(t))
      BY <1>5 DEF CancelTask, RetryTask, RecoverTask
  <2>3. /\ task' \in [Tasks -> TaskType]
        /\ task'[t].state = s /\ task'[t].tries = task[t].tries
        /\ \A u \in Tasks \ {t} : task'[u] = task[u]
      BY <1>1, <2>2 DEF TaskIs, TaskType
  <2>4. WaitingHasTry'
      BY <1>2, <2>2, <2>3 DEF WaitingHasTry, MayRepeat
  <2>5. \A u \in Tasks : task'[u].tries <= MaxTries(u.job.kind)
      BY <1>1, <2>3
  <2>6. HandlersKnow'
      BY <1>2, <2>1 DEF HandlersKnow
  <2>7. upsets' \in 0..MaxUpsets
      BY <1>1, <1>2, <1>5, UpsetTyped DEF CancelTask, RetryTask, RecoverTask
  <2> QED
      BY <1>1, <2>1, <2>3, <2>4, <2>5, <2>6, <2>7, TypedNext
<1> QED
    BY <1>4, <1>5 DEF TaskStep

\* BackupsTyped holds initially, and every step keeps it.
LEMMA BackupsTypedInductive ==
    /\ BackupInit => BackupsTyped
    /\ BackupsTyped /\ [BackupNext]_backupVars => BackupsTyped'
<1>1. ASSUME BackupInit PROVE BackupsTyped
  <2>1. /\ point \in [Points -> PointType] /\ backupJob \in [BackupJobs -> JobType]
        /\ running = {}
      BY <1>1 DEF BackupInit, PointType, JobType
  <2>2. /\ task \in [Tasks -> TaskType]
        /\ \A t \in Tasks : task[t].tries = 0
      BY <1>1 DEF BackupInit, TaskType
  <2>3. asking \in [Askers -> CallType]
      BY <1>1, JobsTyped DEF BackupInit
  <2>4. 0 \in 0..MaxPoints /\ 0 \in 0..MaxBackups /\ 0 \in 0..MaxUpsets
      BY BackupsAssumption DEF BackupsAssumption
  <2>5. \A t \in Tasks : 0 < MaxTries(t.job.kind) /\ task[t].tries <= MaxTries(t.job.kind)
    <3>1. \A t \in Tasks : MaxTries(t.job.kind) \in 1..3
        BY JobsTyped, TriesTyped
    <3> QED
        BY <2>2, <3>1
  <2>6. made = 0 /\ asked = 0 /\ upsets = 0
      BY <1>1 DEF BackupInit
  <2>7. BackupTypeOK
      BY <2>1, <2>2, <2>3, <2>4, <2>5, <2>6
      DEF BackupTypeOK, PointType, JobType, TaskType, HandlerType, CallType
  <2> QED
      BY <2>1, <2>2, <2>5, <2>7 DEF BackupsTyped, WaitingHasTry, HandlersKnow
<1>2. ASSUME BackupsTyped, BackupNext PROVE BackupsTyped'
  <2>1. /\ point \in [Points -> PointType] /\ backupJob \in [BackupJobs -> JobType]
        /\ task \in [Tasks -> TaskType] /\ running \subseteq HandlerType
        /\ asking \in [Askers -> CallType]
        /\ made \in 0..MaxPoints /\ asked \in 0..MaxBackups /\ upsets \in 0..MaxUpsets
        /\ \A u \in Tasks : task[u].tries <= MaxTries(u.job.kind)
        /\ WaitingHasTry /\ HandlersKnow /\ BackupTypeOK
      BY <1>2, TypedState DEF BackupsTyped, BackupTypeOK
  <2>2. ASSUME NEW p \in Points, ExpirePoint(p) PROVE BackupsTyped'
    <3>1. point' \in [Points -> PointType]
        BY <2>1, <2>2, TypedState, PointStaysTyped DEF ExpirePoint, BackupsTyped
    <3>2. WaitingHasTry' /\ HandlersKnow'
        BY <2>1, <2>2 DEF ExpirePoint, WaitingHasTry, HandlersKnow
    <3> QED
        BY <2>1, <2>2, <3>1, <3>2, TypedNext DEF ExpirePoint
  <2>3. ASSUME DashboardCrashes PROVE BackupsTyped'
    <3>1. asking' \in [Askers -> CallType]
        BY <2>1, <2>3, JobsTyped DEF DashboardCrashes
    <3>2. WaitingHasTry' /\ HandlersKnow' /\ running' \subseteq HandlerType
        BY <2>1, <2>3 DEF DashboardCrashes, WaitingHasTry, HandlersKnow
    <3>3. upsets' \in 0..MaxUpsets
        BY <2>1, <2>3, UpsetTyped DEF DashboardCrashes
    <3> QED
        BY <2>1, <2>3, <3>1, <3>2, <3>3, TypedNext DEF DashboardCrashes
  <2> QED
      BY <1>2, <2>2, <2>3, AskTyped, HandlerStepTyped, TaskStepTyped DEF BackupNext
<1>3. ASSUME BackupsTyped, UNCHANGED backupVars PROVE BackupsTyped'
    BY <1>3 DEF backupVars, BackupsTyped, BackupTypeOK, WaitingHasTry, HandlersKnow
<1> QED
    BY <1>1, <1>2, <1>3

\* The rows, operations, handlers and calls are well typed, and no operation is started more
\* often than its kind allows; in particular a restore is never repeated (BackupCoordinator).
THEOREM BackupsWellTyped == BackupSpec => []BackupTypeOK
<1>1. BackupsTyped => BackupTypeOK
    BY DEF BackupsTyped
<1> QED
    BY <1>1, BackupsTypedInductive, PTL DEF BackupSpec

-----------------------------------------------------------------------------
(* The dashboard's thread.                                                 *)

\* One handler runs between two awaits, and while it does the dashboard is in no other call.
OneThread ==
    /\ \A h, k \in running : h.pc \in Synchronous /\ k.pc \in Synchronous => h = k
    /\ \A h \in running : h.pc \in Synchronous \ {"chained"} => asking[Dashboard].pc = "none"

\* A call touches itself, no handler, and neither the statuses nor the objects of points.
LEMMA AskIsOwn ==
    ASSUME BackupsTyped, NEW a \in Askers, AskStep(a)
    PROVE  /\ UNCHANGED <<made, running>>
           /\ \A p \in Points : /\ point'[p].status = point[p].status
                                /\ point'[p].stored = point[p].stored
           /\ \A b \in Askers \ {a} : asking'[b] = asking[b]
           /\ a = Dashboard /\ asking[a].pc = "none" => ThreadFree
<1>1. asking \in [Askers -> CallType] /\ point \in [Points -> PointType] /\ 1..made \subseteq Points
    BY TypedState DEF BackupsTyped
<1>2. UNCHANGED <<made, running>>
    BY DEF AskStep, AskBackup, AskRetention, AskVerification, AskRestore, Protect, CreateJob,
           EnqueueTask, AttachTask, ShellCrashes
<1>3. UNCHANGED point \/ \E p \in 1..made : Protect(a, p)
    BY DEF AskStep, AskBackup, AskRetention, AskVerification, AskRestore, CreateJob,
           EnqueueTask, AttachTask, ShellCrashes
<1>4. \A p \in Points : /\ point'[p].status = point[p].status
                        /\ point'[p].stored = point[p].stored
    BY <1>1, <1>3 DEF Protect, PointType
<1>5. \/ UNCHANGED asking
      \/ \E c : asking' = [asking EXCEPT ![a] = c]
      \/ asking' = [asking EXCEPT ![a].pc = "enqueue"]
      \/ asking' = [asking EXCEPT ![a].pc = "attach"]
    BY DEF AskStep, AskBackup, AskRetention, AskVerification, AskRestore, Protect, CreateJob,
           EnqueueTask, AttachTask, ShellCrashes, Takes, Proceeds
<1>6. \A b \in Askers \ {a} : asking'[b] = asking[b]
    BY <1>1, <1>5
<1>7. \/ asking[a].pc # "none"
      \/ a = Dashboard => ThreadFree
    BY DEF AskStep, AskBackup, AskRetention, AskVerification, AskRestore, Protect, CreateJob,
           EnqueueTask, AttachTask, ShellCrashes, MayAsk
<1> QED
    BY <1>2, <1>4, <1>6, <1>7

\* A handler comes to a synchronous place from another one, or when the thread is free.
LEMMA ToOneThread ==
    ASSUME BackupsTyped, OneThread, NEW h \in running, NEW pc \in Synchronous \cup Awaiting, To(h, pc),
           pc \in Synchronous => h.pc \in Synchronous \/ ThreadFree,
           \/ UNCHANGED asking /\ (h.pc = "chained" => asking[Dashboard].pc = "none")
           \/ h.pc \in Synchronous /\ pc = "chained"
    PROVE  OneThread'
<1>1. running \subseteq HandlerType /\ h \in HandlerType
    BY TypedState DEF BackupsTyped
<1>2. PICK new : new = [h EXCEPT !.pc = pc]
    OBVIOUS
<1>3. new.pc = pc
    BY <1>1, <1>2 DEF HandlerType
<1>4. running' = (running \ {h}) \cup {new}
    BY <1>2 DEF To
<1>5. pc \in Synchronous => \A k \in running \ {h} : k.pc \notin Synchronous
    BY DEF OneThread, ThreadFree
<1>6. \A g, k \in running' : g.pc \in Synchronous /\ k.pc \in Synchronous => g = k
    BY <1>3, <1>4, <1>5 DEF OneThread
<1>7. CASE UNCHANGED asking /\ (h.pc = "chained" => asking[Dashboard].pc = "none")
  <2>1. pc \in Synchronous => asking[Dashboard].pc = "none"
      BY <1>7 DEF OneThread, ThreadFree
  <2> QED
      BY <1>3, <1>4, <1>6, <1>7, <2>1 DEF OneThread
<1>8. CASE h.pc \in Synchronous /\ pc = "chained"
  <2>1. \A g \in running' : g.pc \in Synchronous => g.pc = "chained"
      BY <1>3, <1>4, <1>8 DEF OneThread
  <2> QED
      BY <1>6, <2>1 DEF OneThread
<1> QED
    BY <1>7, <1>8

\* OneThread holds initially, and every step keeps it.
LEMMA OneThreadInductive ==
    /\ BackupInit => OneThread
    /\ BackupsTyped /\ OneThread /\ [BackupNext]_backupVars => OneThread'
<1>1. BackupInit => OneThread
    BY DEF BackupInit, OneThread
<1>2. ASSUME BackupsTyped, OneThread, NEW a \in Askers, AskStep(a) PROVE OneThread'
  <2>1. UNCHANGED running /\ (a # Dashboard => asking'[Dashboard] = asking[Dashboard])
      BY <1>2, AskIsOwn DEF Askers
  <2>2. a = Dashboard => \A h \in running : h.pc \notin Synchronous \ {"chained"}
      BY <1>2, AskIsOwn DEF OneThread, ThreadFree
  <2> QED
      BY <1>2, <2>1, <2>2 DEF OneThread
<1>3. ASSUME BackupsTyped, OneThread, NEW h \in running, HandlerStep(h) PROVE OneThread'
  <2>1. \A pc \in {"check", "mark", "stored", "chained", "good", "bad", "begin"} : pc \in Synchronous
      BY DEF Synchronous
  <2>2. \A pc \in {"work", "apply", "gone"} : pc \in Awaiting /\ pc \notin Synchronous
      BY DEF Synchronous, Awaiting
  <2>3. CASE BeginJob(h)
    <3>1. PICK pc \in {"check", "work"} : To(h, pc)
        BY <2>3 DEF BeginJob
    <3> QED
        BY <1>3, <2>1, <2>2, <2>3, <3>1, ToOneThread DEF BeginJob
  <2>4. CASE ChainVerification(h)
      BY <1>3, <2>1, <2>4, ToOneThread DEF ChainVerification
  <2>5. CASE VerificationChained(h)
      BY <1>3, <2>1, <2>5, ToOneThread DEF VerificationChained
  <2>6. CASE StorePoint(h) \/ PassPoint(h) \/ Restored(h) \/ RecordDeleted(h) \/ WorkFails(h)
    <3>1. /\ UNCHANGED asking /\ ThreadFree
          /\ \E pc \in {"stored", "good", "bad"} : To(h, pc)
        BY <2>6 DEF StorePoint, PassPoint, Restored, RecordDeleted, WorkFails
    <3>2. h.pc # "chained"
        BY <2>1, <3>1 DEF ThreadFree
    <3> QED
        BY <1>3, <2>1, <3>1, <3>2, ToOneThread
  <2>7. CASE ReadForRestore(h) \/ ObjectIsDeleted(h) \/ MarkPoint(h)
    <3>1. /\ UNCHANGED asking /\ h.pc # "chained"
          /\ \E pc \in {"apply", "gone", "work"} : To(h, pc)
        BY <2>7 DEF ReadForRestore, ObjectIsDeleted, MarkPoint, Is
    <3> QED
        BY <1>3, <2>2, <3>1, ToOneThread
  <2>8. CASE CheckPoint(h)
    <3>1. /\ UNCHANGED asking /\ h.pc = "check"
          /\ \E pc \in {"mark", "bad"} : To(h, pc)
        BY <2>8 DEF CheckPoint
    <3> QED
        BY <1>3, <2>1, <3>1, ToOneThread
  <2>9. CASE EndTask(h) \/ GiveUpTask(h)
    <3>1. running' \subseteq running /\ UNCHANGED asking
        BY <2>9 DEF EndTask, GiveUpTask
    <3> QED
        BY <1>3, <3>1 DEF OneThread
  <2> QED
      BY <1>3, <2>3, <2>4, <2>5, <2>6, <2>7, <2>8, <2>9 DEF HandlerStep
<1>4. ASSUME BackupsTyped, OneThread, NEW t \in Tasks, TaskStep(t) PROVE OneThread'
  <2>1. CASE ClaimTask(t)
    <3>1. PICK new : running' = running \cup {new}
        BY <2>1 DEF ClaimTask
    <3>2. ThreadFree /\ UNCHANGED asking
        BY <2>1 DEF ClaimTask
    <3> QED
        BY <3>1, <3>2 DEF OneThread, ThreadFree
  <2>2. CASE CancelTask(t) \/ RetryTask(t) \/ RecoverTask(t)
      BY <1>4, <2>2 DEF CancelTask, RetryTask, RecoverTask, OneThread
  <2> QED
      BY <1>4, <2>1, <2>2 DEF TaskStep
<1>5. ASSUME BackupsTyped, OneThread, NEW p \in Points, ExpirePoint(p) PROVE OneThread'
    BY <1>5 DEF ExpirePoint, OneThread
<1>6. ASSUME DashboardCrashes PROVE OneThread'
    BY <1>6 DEF DashboardCrashes, OneThread
<1>7. ASSUME OneThread, UNCHANGED backupVars PROVE OneThread'
    BY <1>7 DEF backupVars, OneThread
<1> QED
    BY <1>1, <1>2, <1>3, <1>4, <1>5, <1>6, <1>7 DEF BackupNext

-----------------------------------------------------------------------------
(* Points and their objects.                                               *)

\* What there is of points does not change, nor whether they are available or stored.
PointsKeep ==
    /\ made' = made
    /\ \A p \in Points : point'[p].status = point[p].status /\ point'[p].stored = point[p].stored

\* The four steps of handlers that do more than that.
LEMMA HandlerPoints ==
    ASSUME BackupsTyped, NEW h \in running, HandlerStep(h)
    PROVE  PointsKeep \/ StorePoint(h) \/ MarkPoint(h) \/ ObjectIsDeleted(h) \/ RecordDeleted(h)
<1>1. point \in [Points -> PointType] /\ h \in HandlerType
    BY TypedState DEF BackupsTyped
<1>2. h.task.job.kind # "backup" => Of(h) \in Points
    BY <1>1, HandlerTyped
<1>3. CASE BeginJob(h) \/ PassPoint(h) \/ WorkFails(h)
  <2>1. made' = made
      BY <1>3 DEF BeginJob, PassPoint, WorkFails
  <2>2. \/ UNCHANGED point
        \/ /\ h.task.job.kind = "verify"
           /\ \E r \in {"verifying", "verified", "bad"} : Checked(Of(h), r)
      BY <1>3 DEF BeginJob, PassPoint, WorkFails, Is
  <2> QED
      BY <1>1, <1>2, <2>1, <2>2, CheckedTyped DEF PointsKeep
<1>4. CASE ChainVerification(h) \/ VerificationChained(h) \/ ReadForRestore(h) \/ Restored(h)
             \/ CheckPoint(h) \/ EndTask(h) \/ GiveUpTask(h)
  <2>1. UNCHANGED <<made, point>>
      BY <1>4 DEF ChainVerification, VerificationChained, ReadForRestore, Restored, CheckPoint,
                  EndTask, GiveUpTask
  <2> QED
      BY <2>1 DEF PointsKeep
<1> QED
    BY <1>3, <1>4 DEF HandlerStep

\* Nobody but handlers does.
LEMMA OtherPoints ==
    ASSUME BackupsTyped, [BackupNext]_backupVars
    PROVE  PointsKeep \/ \E h \in running : HandlerStep(h)
<1>1. point \in [Points -> PointType]
    BY TypedState DEF BackupsTyped
<1>2. ASSUME NEW a \in Askers, AskStep(a) PROVE PointsKeep
    BY <1>2, AskIsOwn DEF PointsKeep
<1>3. ASSUME NEW t \in Tasks, TaskStep(t) PROVE PointsKeep
    BY <1>3 DEF TaskStep, ClaimTask, CancelTask, RetryTask, RecoverTask, PointsKeep
<1>4. ASSUME NEW p \in Points, ExpirePoint(p) PROVE PointsKeep
    BY <1>1, <1>4 DEF ExpirePoint, PointType, PointsKeep
<1>5. ASSUME DashboardCrashes \/ UNCHANGED backupVars PROVE PointsKeep
    BY <1>5 DEF DashboardCrashes, backupVars, PointsKeep
<1> QED
    BY <1>2, <1>3, <1>4, <1>5 DEF BackupNext

\* What the four steps write.
LEMMA PointWrites ==
    ASSUME BackupsTyped, NEW h \in running
    PROVE  /\ StorePoint(h) =>
                /\ made' = made + 1 /\ made' \in Points
                /\ point'[made'].status = "available" /\ point'[made'].stored
                /\ \A p \in Points \ {made'} : point'[p] = point[p]
           /\ MarkPoint(h) =>
                /\ made' = made /\ Of(h) \in Points /\ h.task.job.kind = "cleanup"
                /\ point'[Of(h)].status = "deleting"
                /\ \A p \in Points \ {Of(h)} : point'[p] = point[p]
           /\ ObjectIsDeleted(h) =>
                /\ made' = made /\ Of(h) \in Points /\ h.task.job.kind = "cleanup" /\ h.pc = "work"
                /\ point'[Of(h)].status = point[Of(h)].status
                /\ \A p \in Points \ {Of(h)} : point'[p] = point[p]
           /\ RecordDeleted(h) =>
                /\ made' = made /\ Of(h) \in Points /\ h.task.job.kind = "cleanup" /\ h.pc = "gone"
                /\ point'[Of(h)].status = "deleted"
                /\ \A p \in Points \ {Of(h)} : point'[p] = point[p]
<1>1. /\ point \in [Points -> PointType] /\ h \in HandlerType /\ HandlersKnow
      /\ made \in Nat /\ MaxPoints \in Nat
    BY TypedState DEF BackupsTyped
<1>2. h.task.job.kind # "backup" => Of(h) \in Points
    BY <1>1, HandlerTyped
<1>3. CASE StorePoint(h)
  <2>1. made' = made + 1 /\ made' \in Points
      BY <1>1, <1>3 DEF StorePoint, Points
  <2> QED
      BY <1>1, <1>3, <2>1 DEF StorePoint, PointType, MarkPoint, ObjectIsDeleted, RecordDeleted, Is,
                              HandlersKnow
<1>4. CASE MarkPoint(h)
  <2>1. h.task.job.kind = "cleanup" /\ Of(h) \in Points
      BY <1>1, <1>2, <1>4 DEF MarkPoint, HandlersKnow
  <2> QED
      BY <1>1, <1>4, <2>1 DEF MarkPoint, StorePoint, ObjectIsDeleted, RecordDeleted, Is, PointType
<1>5. CASE ObjectIsDeleted(h)
  <2>1. h.task.job.kind = "cleanup" /\ Of(h) \in Points
      BY <1>2, <1>5 DEF ObjectIsDeleted, Is
  <2> QED
      BY <1>1, <1>5, <2>1 DEF MarkPoint, StorePoint, ObjectIsDeleted, RecordDeleted, Is, PointType
<1>6. CASE RecordDeleted(h)
  <2>1. h.task.job.kind = "cleanup" /\ Of(h) \in Points
      BY <1>1, <1>2, <1>6 DEF RecordDeleted, HandlersKnow
  <2> QED
      BY <1>1, <1>6, <2>1 DEF MarkPoint, StorePoint, ObjectIsDeleted, RecordDeleted, Is, PointType
<1> QED
    BY <1>3, <1>4, <1>5, <1>6

\* Where a handler's step brings it, as far as cleanups are concerned.
LEMMA HandlerPlaces ==
    ASSUME BackupsTyped, NEW h \in running, HandlerStep(h), NEW g \in running', g \notin running
    PROVE  /\ g.task = h.task
           /\ g.task.job.kind = "cleanup" /\ g.pc \in {"work", "gone"} => MarkPoint(h) \/ h.pc = "work"
           /\ g.pc = "mark" => StillCandidate(Of(h)) /\ UNCHANGED <<point, made, backupJob>>
<1>1. running \subseteq HandlerType /\ h \in HandlerType
    BY TypedState DEF BackupsTyped
<1>2. ASSUME NEW pc \in Synchronous \cup Awaiting, To(h, pc) PROVE g.pc = pc /\ g.task = h.task
    BY <1>1, <1>2, ToTyped
<1>3. \A pc \in {"check", "mark", "stored", "chained", "good", "bad", "work", "apply", "gone"} :
        pc \in Synchronous \cup Awaiting
    BY DEF Synchronous, Awaiting
<1>4. CASE BeginJob(h)
    BY <1>2, <1>3, <1>4 DEF BeginJob
<1>5. CASE StorePoint(h) \/ PassPoint(h) \/ Restored(h) \/ RecordDeleted(h) \/ WorkFails(h)
             \/ ChainVerification(h) \/ VerificationChained(h) \/ ReadForRestore(h)
  <2>1. \E pc \in {"stored", "chained", "good", "bad", "apply"} : To(h, pc)
      BY <1>5 DEF StorePoint, PassPoint, Restored, RecordDeleted, WorkFails, ChainVerification,
                  VerificationChained, ReadForRestore
  <2> QED
      BY <1>2, <1>3, <2>1
<1>6. CASE CheckPoint(h)
    BY <1>2, <1>3, <1>6 DEF CheckPoint
<1>7. CASE MarkPoint(h)
    BY <1>2, <1>3, <1>7 DEF MarkPoint
<1>8. CASE ObjectIsDeleted(h)
    BY <1>2, <1>3, <1>8 DEF ObjectIsDeleted, Is
<1>9. CASE EndTask(h) \/ GiveUpTask(h)
    BY <1>9 DEF EndTask, GiveUpTask
<1> QED
    BY <1>4, <1>5, <1>6, <1>7, <1>8, <1>9 DEF HandlerStep

\* A step that is no handler's starts a handler at most.
LEMMA OtherPlaces ==
    ASSUME BackupsTyped, [BackupNext]_backupVars
    PROVE  \/ \E h \in running : HandlerStep(h)
           \/ \A g \in running' : g \in running \/ g.pc = "begin"
<1>1. ASSUME NEW a \in Askers, AskStep(a) PROVE running' = running
    BY <1>1, AskIsOwn
<1>2. ASSUME NEW t \in Tasks, TaskStep(t)
      PROVE  \A g \in running' : g \in running \/ g.pc = "begin"
    BY <1>2 DEF TaskStep, ClaimTask, CancelTask, RetryTask, RecoverTask
<1>3. ASSUME (\E p \in Points : ExpirePoint(p)) \/ DashboardCrashes \/ UNCHANGED backupVars
      PROVE  running' \subseteq running
    BY <1>3 DEF ExpirePoint, DashboardCrashes, backupVars
<1> QED
    BY <1>1, <1>2, <1>3 DEF BackupNext

\* A point that no backup has made yet is absent.
Unmade == \A p \in Points : p > made => point[p].status = "absent"

\* A cleanup that is about to delete an object, or has, has marked its point.
DeletesMarked ==
    \A h \in running : h.task.job.kind = "cleanup" /\ h.pc \in {"work", "gone"} =>
        point[Of(h)].status \in {"deleting", "deleted"}

\* A cleanup that is about to mark has seen its point.
MarksMade == \A h \in running : h.pc = "mark" => Of(h) \in 1..made

\* AvailableIsStored, and what it rests on: the second inductive invariant.
ObjectsInv == Unmade /\ DeletesMarked /\ MarksMade /\ AvailableIsStored

\* ObjectsInv holds initially, and every step keeps it.
LEMMA ObjectsInductive ==
    /\ BackupInit => ObjectsInv
    /\ BackupsTyped /\ ObjectsInv /\ [BackupNext]_backupVars => ObjectsInv'
<1>1. ASSUME BackupInit PROVE ObjectsInv
  <2>1. made = 0 /\ running = {} /\ \A p \in Points : point[p].status = "absent"
      BY <1>1 DEF BackupInit
  <2> QED
      BY <2>1 DEF ObjectsInv, Unmade, DeletesMarked, MarksMade, AvailableIsStored, Available
<1>2. ASSUME BackupsTyped, ObjectsInv, [BackupNext]_backupVars PROVE ObjectsInv'
  <2>1. /\ made \in Nat /\ 1..made \subseteq Points /\ Points \subseteq Nat /\ running \subseteq HandlerType
        /\ BackupTypeOK
      BY <1>2, TypedState, BackupsAssumption DEF BackupsTyped, BackupsAssumption, Points
  <2>2. \A h \in running : h.task.job.kind = "cleanup" => Of(h) \in Points
      BY <2>1, HandlerTyped
  <2>3. Unmade /\ DeletesMarked /\ MarksMade /\ AvailableIsStored
      BY <1>2 DEF ObjectsInv
  <2>5. ASSUME \A h \in running : ~HandlerStep(h) PROVE ObjectsInv'
    <3>1. PointsKeep
        BY <1>2, <2>5, OtherPoints
    <3>2. 1..made' \subseteq Points
        BY <2>1, <3>1 DEF PointsKeep
    <3>3. Unmade'
        BY <2>3, <3>1 DEF Unmade, PointsKeep
    <3>4. AvailableIsStored'
        BY <2>1, <2>3, <3>1 DEF AvailableIsStored, Available, PointsKeep
    <3>5. \A g \in running' : g \in running \/ g.pc = "begin"
        BY <1>2, <2>5, OtherPlaces
    <3>6. DeletesMarked'
        BY <2>2, <2>3, <3>1, <3>5 DEF DeletesMarked, PointsKeep, Of
    <3>7. MarksMade'
        BY <2>3, <3>1, <3>5 DEF MarksMade, PointsKeep, Of
    <3> QED
        BY <3>3, <3>4, <3>6, <3>7 DEF ObjectsInv
  <2>6. ASSUME NEW h \in running, HandlerStep(h) PROVE ObjectsInv'
    <3>1. ASSUME NEW g \in running', g \notin running
          PROVE  /\ g.task = h.task /\ Of(g) = Of(h)
                 /\ g.task.job.kind = "cleanup" /\ g.pc \in {"work", "gone"} => MarkPoint(h) \/ h.pc = "work"
                 /\ g.pc = "mark" => Of(g) \in 1..made
        BY <1>2, <2>6, <3>1, HandlerPlaces DEF Of, StillCandidate, Candidates
    <3>2. /\ Unmade' /\ AvailableIsStored' /\ made' \in Nat /\ made <= made'
          /\ \A p \in Points : point[p].status \in {"deleting", "deleted"} =>
                point'[p].status \in {"deleting", "deleted"}
      <4>1. CASE PointsKeep
        <5>1. made' = made /\ made' \in Nat /\ made <= made'
            BY <2>1, <4>1 DEF PointsKeep
        <5>2. Unmade' /\ AvailableIsStored'
            BY <2>1, <2>3, <4>1 DEF PointsKeep, Unmade, AvailableIsStored, Available
        <5> QED
            BY <4>1, <5>1, <5>2 DEF PointsKeep
      <4>2. CASE StorePoint(h)
        <5>1. /\ made' = made + 1 /\ made' \in Points
              /\ point'[made'].status = "available" /\ point'[made'].stored
              /\ \A p \in Points \ {made'} : point'[p] = point[p]
            BY <1>2, <4>2, PointWrites
        <5>2. point[made'].status = "absent"
            BY <2>1, <2>3, <5>1 DEF Unmade
        <5>3. Unmade'
            BY <2>1, <2>3, <5>1 DEF Unmade
        <5>4. AvailableIsStored'
            BY <2>1, <2>3, <5>1 DEF AvailableIsStored, Available
        <5>5. made' \in Nat /\ made <= made'
            BY <2>1, <5>1
        <5> QED
            BY <5>1, <5>2, <5>3, <5>4, <5>5
      <4>3. CASE MarkPoint(h) \/ RecordDeleted(h)
        <5>1. /\ made' = made /\ Of(h) \in Points /\ h.task.job.kind = "cleanup"
              /\ point'[Of(h)].status \in {"deleting", "deleted"}
              /\ \A p \in Points \ {Of(h)} : point'[p] = point[p]
            BY <1>2, <4>3, PointWrites
        <5>2. Of(h) <= made
          <6>1. CASE MarkPoint(h)
              BY <2>1, <2>3, <6>1 DEF MarkPoint, MarksMade
          <6>2. CASE RecordDeleted(h)
            <7>1. h.pc = "gone"
                BY <6>2 DEF RecordDeleted
            <7>2. point[Of(h)].status # "absent"
                BY <2>3, <5>1, <7>1 DEF DeletesMarked
            <7>3. ~(Of(h) > made)
                BY <2>3, <5>1, <7>2 DEF Unmade
            <7>4. Of(h) \in Nat
                BY <2>1, <5>1
            <7> QED
                BY <2>1, <7>3, <7>4
          <6> QED
              BY <4>3, <6>1, <6>2
        <5>3. Unmade'
            BY <2>1, <2>3, <5>1, <5>2 DEF Unmade
        <5>4. AvailableIsStored'
            BY <2>1, <2>3, <5>1 DEF AvailableIsStored, Available
        <5> QED
            BY <2>1, <5>1, <5>3, <5>4
      <4>4. CASE ObjectIsDeleted(h)
        <5>1. /\ made' = made /\ Of(h) \in Points /\ h.task.job.kind = "cleanup" /\ h.pc = "work"
              /\ point'[Of(h)].status = point[Of(h)].status
              /\ \A p \in Points \ {Of(h)} : point'[p] = point[p]
            BY <1>2, <4>4, PointWrites
        <5>2. point[Of(h)].status \in {"deleting", "deleted"}
            BY <2>3, <5>1 DEF DeletesMarked
        <5>3. Unmade'
            BY <2>1, <2>3, <5>1 DEF Unmade
        <5>4. AvailableIsStored'
            BY <2>1, <2>3, <5>1, <5>2 DEF AvailableIsStored, Available
        <5> QED
            BY <2>1, <5>1, <5>2, <5>3, <5>4
      <4> QED
          BY <1>2, <2>6, <4>1, <4>2, <4>3, <4>4, HandlerPoints
    <3>3. MarkPoint(h) => point'[Of(h)].status = "deleting"
        BY <1>2, PointWrites
    <3>4. DeletesMarked'
        BY <2>2, <2>3, <3>1, <3>2, <3>3 DEF DeletesMarked
    <3>5. MarksMade'
        BY <2>1, <2>3, <3>1, <3>2 DEF MarksMade
    <3> QED
        BY <3>2, <3>4, <3>5 DEF ObjectsInv
  <2> QED
      BY <2>5, <2>6
<1> QED
    BY <1>1, <1>2

\* A point that is called available has its object: it is marked before the object goes,
\* and nothing makes it available again (BackupCoordinator's handler of retention).
THEOREM AvailablePointsExist == BackupSpec => []AvailableIsStored
<1>1. ObjectsInv => AvailableIsStored
    BY DEF ObjectsInv
<1> QED
    BY <1>1, BackupsTypedInductive, ObjectsInductive, PTL DEF BackupSpec

-----------------------------------------------------------------------------
(* Retention.                                                              *)

\* What the check has found still holds at the mark.
MarksCandidates ==
    \A h \in running : h.pc = "mark" =>
        Available(Of(h)) /\ ~OneOfTheNewest(Of(h)) /\ ~NewestOfItsDay(Of(h))

\* A step makes no point available, and lets none cease to be.
AvailabilityKeeps ==
    /\ made' = made
    /\ \A p \in Points : (point'[p].status = "available") <=> (point[p].status = "available")

\* Points become available when they are made, and cease to be when they are marked.
LEMMA AvailabilitySteps ==
    ASSUME BackupsTyped, ObjectsInv, [BackupNext]_backupVars
    PROVE  AvailabilityKeeps \/ \E h \in running : StorePoint(h) \/ MarkPoint(h)
<1>1. CASE PointsKeep
    BY <1>1 DEF PointsKeep, AvailabilityKeeps
<1>2. ASSUME NEW h \in running, ObjectIsDeleted(h) PROVE AvailabilityKeeps
    BY <1>2, PointWrites DEF AvailabilityKeeps
<1>3. ASSUME NEW h \in running, RecordDeleted(h) PROVE AvailabilityKeeps
  <2>1. /\ made' = made /\ Of(h) \in Points /\ h.task.job.kind = "cleanup" /\ h.pc = "gone"
        /\ point'[Of(h)].status = "deleted"
        /\ \A p \in Points \ {Of(h)} : point'[p] = point[p]
      BY <1>3, PointWrites
  <2>2. point[Of(h)].status # "available"
      BY <2>1 DEF ObjectsInv, DeletesMarked
  <2> QED
      BY <2>1, <2>2 DEF AvailabilityKeeps
<1> QED
    BY <1>1, <1>2, <1>3, OtherPoints, HandlerPoints

\* Then the newer points of a point are the same, and so is what retention says of it.
LEMMA KeepsNewer ==
    ASSUME BackupsTyped, AvailabilityKeeps
    PROVE  \A p : /\ Available(p)' <=> Available(p)
                  /\ Newer(p)' = Newer(p)
                  /\ OneOfTheNewest(p)' <=> OneOfTheNewest(p)
                  /\ NewestOfItsDay(p)' <=> NewestOfItsDay(p)
<1>1. 1..made \subseteq Points
    BY TypedState DEF BackupsTyped
<1>2. \A p : Available(p)' <=> Available(p)
    BY <1>1 DEF AvailabilityKeeps, Available
<1>3. \A p : Newer(p)' = Newer(p)
    BY <1>1, <1>2 DEF AvailabilityKeeps, Newer
<1> QED
    BY <1>2, <1>3 DEF OneOfTheNewest, NewestOfItsDay

\* MarksCandidates holds initially, and every step keeps it.
LEMMA MarksInductive ==
    /\ BackupInit => MarksCandidates
    /\ BackupsTyped /\ OneThread /\ ObjectsInv /\ MarksCandidates /\ [BackupNext]_backupVars => MarksCandidates'
<1>1. BackupInit => MarksCandidates
    BY DEF BackupInit, MarksCandidates
<1>2. ASSUME BackupsTyped, OneThread, ObjectsInv, MarksCandidates, [BackupNext]_backupVars
      PROVE  MarksCandidates'
  <2>1. SUFFICES ASSUME NEW g \in running', g.pc = "mark"
                 PROVE  (Available(Of(g)) /\ ~OneOfTheNewest(Of(g)) /\ ~NewestOfItsDay(Of(g)))'
      BY DEF MarksCandidates
  <2>2. "mark" \in Synchronous
      BY DEF Synchronous
  <2>3. CASE g \in running
    <3>1. ASSUME NEW h \in running, StorePoint(h) \/ MarkPoint(h) PROVE FALSE
      <4>1. CASE StorePoint(h)
          BY <2>1, <2>2, <2>3, <4>1 DEF StorePoint, ThreadFree
      <4>2. CASE MarkPoint(h)
        <5>1. h = g
            BY <1>2, <2>1, <2>2, <2>3, <4>2 DEF MarkPoint, OneThread
        <5>2. \A k \in running' : k \in running \ {h} \/ k.pc = "work"
          <6>1. running \subseteq HandlerType /\ "work" \in Synchronous \cup Awaiting
              BY <1>2, TypedState DEF BackupsTyped, Awaiting
          <6> QED
              BY <4>2, <6>1, ToTyped DEF MarkPoint
        <5> QED
            BY <2>1, <5>1, <5>2
      <4> QED
          BY <3>1, <4>1, <4>2
    <3>2. AvailabilityKeeps
        BY <1>2, <3>1, AvailabilitySteps
    <3> QED
        BY <1>2, <2>1, <2>3, <3>2, KeepsNewer DEF MarksCandidates
  <2>4. CASE g \notin running
    <3>1. PICK h \in running : HandlerStep(h)
        BY <1>2, <2>1, <2>4, OtherPlaces
    <3>2. g.task = h.task /\ StillCandidate(Of(h)) /\ UNCHANGED <<point, made>>
        BY <1>2, <2>1, <2>4, <3>1, HandlerPlaces
    <3>3. Available(Of(g)) /\ ~OneOfTheNewest(Of(g)) /\ ~NewestOfItsDay(Of(g))
        BY <3>2 DEF StillCandidate, Candidates, Of
    <3>4. AvailabilityKeeps
        BY <3>2 DEF AvailabilityKeeps
    <3> QED
        BY <1>2, <3>3, <3>4, KeepsNewer
  <2> QED
      BY <2>3, <2>4
<1> QED
    BY <1>1, <1>2

\* The points that are newer are counted: there are no more of them than were made since.
LEMMA NewerCounted ==
    ASSUME BackupsTyped, NEW p \in 1..made
    PROVE  /\ IsFiniteSet(Newer(p)) /\ Cardinality(Newer(p)) \in Nat
           /\ Cardinality(Newer(p)) <= made - p
<1>1. made \in Nat
    BY TypedState DEF BackupsTyped
<1>2. Newer(p) \in SUBSET ((p + 1)..made)
    BY <1>1 DEF Newer
<1>3. IsFiniteSet((p + 1)..made) /\ Cardinality((p + 1)..made) = made - p
  <2>1. p + 1 \in Int /\ made \in Int
      BY <1>1
  <2>2. /\ IsFiniteSet((p + 1)..made)
        /\ Cardinality((p + 1)..made) = IF p + 1 > made THEN 0 ELSE made - (p + 1) + 1
      BY <2>1, FS_Interval
  <2> QED
      BY <1>1, <2>2
<1>4. IsFiniteSet(Newer(p)) /\ Cardinality(Newer(p)) <= Cardinality((p + 1)..made)
    BY <1>2, <1>3, FS_Subset
<1> QED
    BY <1>3, <1>4, FS_CardinalityType

\* So are the days of points.
LEMMA DaysCounted ==
    ASSUME NEW m \in Nat, 1..m \subseteq Points,
           NEW T \in SUBSET {DayOf[q] : q \in 1..m}, NEW S \in SUBSET T
    PROVE  /\ Cardinality(S) \in Nat /\ Cardinality(T) \in Nat
           /\ Cardinality(S) <= Cardinality(T)
<1>1. DayOf \in [Points -> Nat] /\ \A p, q \in Points : p < q => DayOf[p] <= DayOf[q]
    BY BackupsAssumption DEF BackupsAssumption
<1>2. IsFiniteSet(T)
  <2>1. CASE m = 0
    <3>1. T = {}
        BY <2>1
    <3> QED
        BY <3>1, FS_EmptySet
  <2>2. CASE m # 0
    <3>1. m \in 1..m /\ DayOf[m] \in Nat
        BY <1>1, <2>2
    <3>2. \A q \in 1..m : DayOf[q] \in Nat /\ DayOf[q] <= DayOf[m]
        BY <1>1, <3>1
    <3>3. T \in SUBSET Nat /\ \A e \in T : e <= DayOf[m]
        BY <3>2
    <3> QED
        BY <3>1, <3>3, FS_BoundedSetOfNaturals
  <2> QED
      BY <2>1, <2>2
<1>3. IsFiniteSet(S) /\ Cardinality(S) <= Cardinality(T)
    BY <1>2, FS_Subset
<1> QED
    BY <1>2, <1>3, FS_CardinalityType

\* Retention may mark what has enough newer points, of its day or of enough later days.
LEMMA MarkRetains ==
    ASSUME BackupsTyped, MarksCandidates, RetainedPointsRemain, NEW h \in running, MarkPoint(h)
    PROVE  RetainedPointsRemain'
<1> DEFINE x == Of(h)
<1>1. made \in Nat /\ 1..made \subseteq Points /\ Points \subseteq Nat /\ KeepLast \in Nat /\ KeepDays \in Nat
    BY TypedState, BackupsAssumption DEF BackupsTyped, BackupsAssumption, Points
<1>2. DayOf \in [Points -> Nat] /\ \A p, q \in Points : p < q => DayOf[p] <= DayOf[q]
    BY BackupsAssumption DEF BackupsAssumption
<1>3. Available(x) /\ ~OneOfTheNewest(x) /\ ~NewestOfItsDay(x) /\ x \in 1..made
    BY DEF MarksCandidates, MarkPoint, Available
<1>4. made' = made /\ \A p \in 1..made : p # x => (Available(p)' <=> Available(p))
  <2>1. made' = made /\ \A p \in Points \ {x} : point'[p] = point[p]
      BY PointWrites
  <2> QED
      BY <1>1, <2>1 DEF Available
<1>5. ASSUME NEW p \in 1..made, made < p + KeepLast PROVE Available(p)'
  <2>1. Available(p)
      BY <1>5 DEF RetainedPointsRemain
  <2>2. p # x
    <3>1. ~(Cardinality(Newer(x)) < KeepLast)
        BY <1>3 DEF OneOfTheNewest
    <3>2. Cardinality(Newer(x)) \in Nat /\ Cardinality(Newer(x)) <= made - x
        BY <1>3, NewerCounted
    <3> QED
        BY <1>1, <1>3, <1>5, <3>1, <3>2
  <2> QED
      BY <1>4, <2>1, <2>2
<1>6. ASSUME NEW p \in 1..made, Cardinality(DaysSince(DayOf[p])) < KeepDays
      PROVE  \E q \in 1..made : DayOf[q] = DayOf[p] /\ Available(q)'
  <2>1. PICK q \in 1..made : DayOf[q] = DayOf[p] /\ Available(q)
      BY <1>6 DEF RetainedPointsRemain
  <2>2. CASE q # x
      BY <1>4, <2>1, <2>2
  <2>3. CASE q = x
    <3>1. CASE \E r \in Newer(x) : DayOf[r] = DayOf[x]
      <4>1. PICK r \in Newer(x) : DayOf[r] = DayOf[x]
          BY <3>1
      <4>2. r \in 1..made /\ r # x /\ Available(r)
          BY <1>1, <1>3, <4>1 DEF Newer
      <4> QED
          BY <1>4, <2>1, <2>3, <4>1, <4>2
    <3>2. CASE \A r \in Newer(x) : DayOf[r] # DayOf[x]
      <4> DEFINE S == {DayOf[r] : r \in Newer(x)}
      <4>1. ~(Cardinality(S) < KeepDays)
          BY <1>3, <3>2 DEF NewestOfItsDay
      <4>2. \A r \in Newer(x) : r \in 1..made /\ DayOf[r] > DayOf[x]
        <5>1. \A r \in Newer(x) : r \in 1..made /\ r > x
            BY DEF Newer
        <5>2. \A r \in Newer(x) : DayOf[r] \in Nat /\ DayOf[x] \in Nat /\ DayOf[x] <= DayOf[r]
            BY <1>1, <1>2, <1>3, <5>1
        <5> QED
            BY <3>2, <5>1, <5>2
      <4>3. S \in SUBSET DaysSince(DayOf[x])
          BY <4>2 DEF DaysSince
      <4>4. Cardinality(S) \in Nat /\ Cardinality(DaysSince(DayOf[x])) \in Nat
            /\ Cardinality(S) <= Cardinality(DaysSince(DayOf[x]))
        <5>1. DaysSince(DayOf[x]) \in SUBSET {DayOf[r] : r \in 1..made}
            BY DEF DaysSince
        <5> QED
            BY <1>1, <4>3, <5>1, DaysCounted
      <4>5. Cardinality(DaysSince(DayOf[x])) < KeepDays
          BY <1>6, <2>1, <2>3
      <4> HIDE DEF S
      <4> QED
          BY <1>1, <4>1, <4>4, <4>5
    <3> QED
        BY <3>1, <3>2
  <2> QED
      BY <2>2, <2>3
<1>7. \A p : DaysSince(DayOf[p])' = DaysSince(DayOf[p])
    BY <1>4 DEF DaysSince
<1> QED
    BY <1>4, <1>5, <1>6, <1>7 DEF RetainedPointsRemain

\* A new point takes the place of an older one, in the days and among the newest.
LEMMA StoreRetains ==
    ASSUME BackupsTyped, RetainedPointsRemain, NEW h \in running, StorePoint(h)
    PROVE  RetainedPointsRemain'
<1>1. made \in Nat /\ 1..made \subseteq Points /\ Points \subseteq Nat /\ KeepLast \in Nat /\ KeepDays \in Nat
    BY TypedState, BackupsAssumption DEF BackupsTyped, BackupsAssumption, Points
<1>2. PICK new \in Points : new = made'
    BY PointWrites
<1>3. /\ made' = made + 1 /\ new = made + 1
      /\ point'[new].status = "available"
      /\ \A p \in Points \ {new} : point'[p] = point[p]
    BY <1>2, PointWrites
<1>4. Available(new)' /\ \A p \in 1..made : Available(p)' <=> Available(p)
    BY <1>1, <1>2, <1>3 DEF Available
<1>5. ASSUME NEW p \in 1..made', made' < p + KeepLast PROVE Available(p)'
  <2>1. CASE p = new
      BY <1>4, <2>1
  <2>2. CASE p # new
    <3>1. p \in 1..made /\ made < p + KeepLast
        BY <1>1, <1>3, <1>5, <2>2
    <3> QED
        BY <1>4, <3>1 DEF RetainedPointsRemain
  <2> QED
      BY <2>1, <2>2
<1>6. ASSUME NEW p \in 1..made', Cardinality(DaysSince(DayOf[p])') < KeepDays
      PROVE  \E q \in 1..made' : DayOf[q] = DayOf[p] /\ Available(q)'
  <2>1. CASE p = new
      BY <1>4, <2>1
  <2>2. CASE p # new
    <3>1. p \in 1..made
        BY <1>1, <1>3, <2>2
    <3>2. /\ DaysSince(DayOf[p]) \in SUBSET (DaysSince(DayOf[p])')
          /\ DaysSince(DayOf[p])' \in SUBSET {DayOf[q] : q \in 1..made'}
        BY <1>1, <1>3 DEF DaysSince
    <3>3. made' \in Nat /\ 1..made' \subseteq Points
        BY <1>1, <1>2, <1>3
    <3>4. /\ Cardinality(DaysSince(DayOf[p])) \in Nat /\ Cardinality(DaysSince(DayOf[p])') \in Nat
          /\ Cardinality(DaysSince(DayOf[p])) <= Cardinality(DaysSince(DayOf[p])')
        BY <3>2, <3>3, DaysCounted
    <3>5. Cardinality(DaysSince(DayOf[p])) < KeepDays
        BY <1>1, <1>6, <3>4
    <3>6. PICK q \in 1..made : DayOf[q] = DayOf[p] /\ Available(q)
        BY <3>1, <3>5 DEF RetainedPointsRemain
    <3> QED
        BY <1>1, <1>3, <1>4, <3>6
  <2> QED
      BY <2>1, <2>2
<1> QED
    BY <1>5, <1>6 DEF RetainedPointsRemain

\* Retention leaves the newest points and one point of each of the newest days, whatever
\* backups, failed cleanups and late handlers do meanwhile (retentionCandidates).
THEOREM RetentionKeeps == BackupSpec => []RetainedPointsRemain
<1> DEFINE Inv == BackupsTyped /\ OneThread /\ ObjectsInv /\ MarksCandidates /\ RetainedPointsRemain
<1>1. BackupInit => Inv
  <2>1. BackupInit => RetainedPointsRemain
      BY DEF BackupInit, RetainedPointsRemain
  <2> QED
      BY <2>1, BackupsTypedInductive, OneThreadInductive, ObjectsInductive, MarksInductive
<1>2. Inv /\ [BackupNext]_backupVars => Inv'
  <2> SUFFICES ASSUME Inv, [BackupNext]_backupVars PROVE RetainedPointsRemain'
      BY BackupsTypedInductive, OneThreadInductive, ObjectsInductive, MarksInductive
  <2>1. CASE AvailabilityKeeps
    <3>1. \A p : Available(p)' <=> Available(p)
        BY <2>1, KeepsNewer
    <3> QED
        BY <2>1, <3>1 DEF RetainedPointsRemain, DaysSince, AvailabilityKeeps
  <2>2. ASSUME NEW h \in running, StorePoint(h) PROVE RetainedPointsRemain'
      BY <2>2, StoreRetains
  <2>3. ASSUME NEW h \in running, MarkPoint(h) PROVE RetainedPointsRemain'
      BY <2>3, MarkRetains
  <2> QED
      BY <2>1, <2>2, <2>3, AvailabilitySteps
<1> QED
    BY <1>1, <1>2, PTL DEF BackupSpec

-----------------------------------------------------------------------------
(* Protection.                                                             *)

\* Commands of a shell neither ask for restores nor protect points.
OnlyDashboardRestores == "restore" \notin ShellAsks

\* Then a command makes no job of a restore.
ShellsNeverRestore ==
    \A a \in Shells : /\ asking[a].job.kind # "restore"
                      /\ \A j \in asking[a].todo : j.kind # "restore"

\* And what the check has found of a point's protection still holds at the mark.
MarksUnprotected ==
    \A h \in running : h.pc = "mark" => ~point[Of(h)].held /\ ~BeingRestored(Of(h))

\* ShellsNeverRestore holds initially, and every step keeps it.
LEMMA ShellsInductive ==
    ASSUME OnlyDashboardRestores
    PROVE  /\ BackupInit => ShellsNeverRestore
           /\ BackupsTyped /\ ShellsNeverRestore /\ [BackupNext]_backupVars => ShellsNeverRestore'
<1>1. BackupInit => ShellsNeverRestore
    BY JobsTyped DEF BackupInit, ShellsNeverRestore, Askers
<1>2. ASSUME BackupsTyped, ShellsNeverRestore, [BackupNext]_backupVars PROVE ShellsNeverRestore'
  <2>1. asking \in [Askers -> CallType] /\ 1..made \subseteq Points /\ running \subseteq HandlerType
      BY <1>2, TypedState DEF BackupsTyped
  <2>2. Shells \subseteq Askers /\ Dashboard \in Askers /\ Dashboard \notin Shells
      BY BackupsAssumption DEF Askers, BackupsAssumption
  <2>3. ASSUME \A a \in Shells : asking'[a] = asking[a] PROVE ShellsNeverRestore'
      BY <1>2, <2>3 DEF ShellsNeverRestore
  <2>4. ASSUME NEW a \in Askers, AskStep(a) PROVE ShellsNeverRestore'
    <3>1. \A b \in Shells \ {a} : asking'[b] = asking[b]
        BY <1>2, <2>2, <2>4, AskIsOwn
    <3>2. SUFFICES ASSUME a \in Shells
                   PROVE  /\ asking'[a].job.kind # "restore"
                          /\ \A j \in asking'[a].todo : j.kind # "restore"
        BY <1>2, <2>2, <2>3, <3>1 DEF ShellsNeverRestore
    <3>3. /\ asking[a].job.kind # "restore" /\ \A j \in asking[a].todo : j.kind # "restore"
          /\ asking[a] \in CallType /\ a # Dashboard
        BY <1>2, <2>1, <2>2, <3>2 DEF ShellsNeverRestore
    <3>4. ASSUME NEW k \in {"backup", "verify", "cleanup"}, NEW n,
                 NEW rest, \A j \in rest : j.kind # "restore", Takes(a, JobFor(k, n), rest)
          PROVE  /\ asking'[a].job.kind # "restore"
                 /\ \A j \in asking'[a].todo : j.kind # "restore"
      <4>1. asking'[a] = [pc |-> "create", job |-> JobFor(k, n), todo |-> rest]
          BY <2>1, <3>4 DEF Takes
      <4> QED
          BY <3>4, <4>1, JobsTyped
    <3>5. CASE AskBackup(a) \/ \E p \in 1..made : AskVerification(a, p)
        BY <3>4, <3>5 DEF AskBackup, AskVerification
    <3>6. CASE AskRetention(a)
      <4>1. PICK p \in Candidates :
              Takes(a, JobFor("cleanup", p), {JobFor("cleanup", q) : q \in Candidates \ {p}})
          BY <3>6 DEF AskRetention
      <4>2. \A j \in {JobFor("cleanup", q) : q \in Candidates \ {p}} : j.kind # "restore"
          BY JobsTyped
      <4> QED
          BY <3>4, <4>1, <4>2
    <3>7. CASE \E p \in 1..made : AskRestore(a, p)
        BY <3>3, <3>7 DEF AskRestore, MayAsk, OnlyDashboardRestores
    <3>8. ASSUME Proceeds(a) PROVE /\ asking'[a].job.kind # "restore"
                                   /\ \A j \in asking'[a].todo : j.kind # "restore"
      <4>1. \/ asking'[a] = NoAsk
            \/ asking'[a].job \in asking[a].todo /\ asking'[a].todo \subseteq asking[a].todo
          BY <2>1, <3>8, ProceedsTyped
      <4> QED
          BY <3>3, <4>1, JobsTyped
    <3>9. CASE CreateJob(a) \/ EnqueueTask(a) \/ AttachTask(a)
      <4>1. \/ Proceeds(a)
            \/ \E pc \in {"enqueue", "attach"} : asking' = [asking EXCEPT ![a].pc = pc]
          BY <3>9 DEF CreateJob, EnqueueTask, AttachTask
      <4>2. ASSUME NEW pc \in {"enqueue", "attach"}, asking' = [asking EXCEPT ![a].pc = pc]
            PROVE  asking'[a].job = asking[a].job /\ asking'[a].todo = asking[a].todo
          BY <2>1, <4>2 DEF CallType
      <4> QED
          BY <3>3, <3>8, <4>1, <4>2
    <3>10. CASE ShellCrashes(a)
      <4>1. asking'[a] = NoAsk
          BY <2>1, <3>10 DEF ShellCrashes
      <4> QED
          BY <4>1, JobsTyped
    <3>11. CASE \E p \in 1..made : Protect(a, p)
        BY <3>3, <3>11 DEF Protect
    <3> QED
        BY <2>4, <3>5, <3>6, <3>7, <3>9, <3>10, <3>11 DEF AskStep
  <2>5. ASSUME NEW h \in running, HandlerStep(h) PROVE ShellsNeverRestore'
    <3>1. UNCHANGED asking \/ \E c : asking' = [asking EXCEPT ![Dashboard] = c]
        BY <2>5 DEF HandlerStep, BeginJob, StorePoint, ChainVerification, VerificationChained,
                    PassPoint, ReadForRestore, Restored, CheckPoint, MarkPoint, ObjectIsDeleted,
                    RecordDeleted, WorkFails, EndTask, GiveUpTask, Takes
    <3> QED
        BY <2>1, <2>2, <2>3, <3>1
  <2>6. ASSUME NEW t \in Tasks, TaskStep(t) PROVE ShellsNeverRestore'
      BY <2>3, <2>6 DEF TaskStep, ClaimTask, CancelTask, RetryTask, RecoverTask
  <2>7. ASSUME (\E p \in Points : ExpirePoint(p)) \/ DashboardCrashes \/ UNCHANGED backupVars
        PROVE  ShellsNeverRestore'
      BY <2>1, <2>2, <2>3, <2>7 DEF ExpirePoint, DashboardCrashes, backupVars
  <2> QED
      BY <1>2, <2>4, <2>5, <2>6, <2>7 DEF BackupNext
<1> QED
    BY <1>1, <1>2

\* Between the check and the mark of a cleanup no other handler does more than learn that an
\* object is gone.
LEMMA MarkAlone ==
    ASSUME BackupsTyped, OneThread, NEW g \in running, g.pc = "mark", g \in running',
           NEW h \in running, HandlerStep(h)
    PROVE  ObjectIsDeleted(h)
<1>1. "mark" \in Synchronous /\ ~ThreadFree
    BY DEF Synchronous, ThreadFree
<1>2. h.pc \in Synchronous => h = g
    BY <1>1 DEF OneThread
<1>3. ~MarkPoint(h)
  <2>1. MarkPoint(h) => \A k \in running' : k \in running \ {h} \/ k.pc = "work"
    <3>1. running \subseteq HandlerType /\ "work" \in Synchronous \cup Awaiting
        BY TypedState DEF BackupsTyped, Awaiting
    <3> QED
        BY <3>1, ToTyped DEF MarkPoint
  <2> QED
      BY <1>1, <1>2, <2>1 DEF MarkPoint
<1>4. ~(StorePoint(h) \/ PassPoint(h) \/ Restored(h) \/ RecordDeleted(h) \/ WorkFails(h)
        \/ ReadForRestore(h) \/ GiveUpTask(h))
    BY <1>1 DEF StorePoint, PassPoint, Restored, RecordDeleted, WorkFails, ReadForRestore, GiveUpTask
<1>5. ~(BeginJob(h) \/ ChainVerification(h) \/ VerificationChained(h) \/ CheckPoint(h) \/ EndTask(h))
  <2>1. BeginJob(h) \/ ChainVerification(h) \/ VerificationChained(h) \/ CheckPoint(h) \/ EndTask(h)
          => h.pc \in Synchronous /\ h.pc # "mark"
      BY DEF BeginJob, ChainVerification, VerificationChained, CheckPoint, EndTask, Synchronous
  <2> QED
      BY <1>2, <2>1
<1> QED
    BY <1>3, <1>4, <1>5 DEF HandlerStep

\* MarksUnprotected holds initially, and every step keeps it.
LEMMA MarksUnprotectedInductive ==
    ASSUME OnlyDashboardRestores, BackupsTyped, OneThread, ShellsNeverRestore, MarksUnprotected,
           [BackupNext]_backupVars
    PROVE  MarksUnprotected'
<1>1. /\ point \in [Points -> PointType] /\ backupJob \in [BackupJobs -> JobType]
      /\ asking \in [Askers -> CallType] /\ running \subseteq HandlerType
    BY TypedState DEF BackupsTyped
<1>2. SUFFICES ASSUME NEW g \in running', g.pc = "mark"
               PROVE  ~point'[Of(g)].held /\ ~BeingRestored(Of(g))'
    BY DEF MarksUnprotected
<1>3. CASE g \notin running
  <2>1. PICK h \in running : HandlerStep(h)
      BY <1>2, <1>3, OtherPlaces
  <2>2. g.task = h.task /\ StillCandidate(Of(h)) /\ UNCHANGED <<point, made, backupJob>>
      BY <1>2, <1>3, <2>1, HandlerPlaces
  <2> QED
      BY <2>2 DEF StillCandidate, Candidates, Of, BeingRestored
<1>4. CASE g \in running
  <2>1. /\ ~point[Of(g)].held /\ ~BeingRestored(Of(g))
        /\ "mark" \in Synchronous /\ ~ThreadFree /\ asking[Dashboard].pc = "none"
      BY <1>2, <1>4 DEF MarksUnprotected, Synchronous, ThreadFree, OneThread
  <2>2. Of(g) \in Points /\ JobFor("restore", Of(g)) \in BackupJobs
    <3>1. g.task.job.kind = "cleanup"
        BY <1>2, <1>4 DEF BackupsTyped, HandlersKnow
    <3> QED
        BY <1>1, <1>4, <3>1, HandlerTyped, JobsTyped
  <2>3. SUFFICES /\ point'[Of(g)].held = point[Of(g)].held
                 /\ backupJob'[JobFor("restore", Of(g))].status = backupJob[JobFor("restore", Of(g))].status
      BY <2>1 DEF BeingRestored
  <2> DEFINE Same == /\ point'[Of(g)].held = point[Of(g)].held
                     /\ backupJob'[JobFor("restore", Of(g))].status = backupJob[JobFor("restore", Of(g))].status
  <2>4. ASSUME NEW a \in Askers, AskStep(a) PROVE Same
    <3>1. ~\E p \in 1..made : Protect(a, p)
        BY <2>1 DEF Protect, MayAsk, OnlyDashboardRestores
    <3>2. UNCHANGED point
        BY <2>4, <3>1 DEF AskStep, AskBackup, AskRetention, AskVerification, AskRestore, CreateJob,
                          EnqueueTask, AttachTask, ShellCrashes
    <3>3. \/ UNCHANGED backupJob
          \/ CreateJob(a)
          \/ AttachTask(a)
        BY <2>4 DEF AskStep, AskBackup, AskRetention, AskVerification, AskRestore, Protect,
                    EnqueueTask, ShellCrashes
    <3>4. CASE CreateJob(a)
      <4>1. a \in Shells /\ asking[a].job.kind # "restore"
          BY <2>1, <3>4 DEF CreateJob, Askers, ShellsNeverRestore
      <4>2. asking[a].job # JobFor("restore", Of(g))
          BY <4>1, JobsTyped
      <4>3. \/ UNCHANGED backupJob
            \/ backupJob' = [backupJob EXCEPT ![asking[a].job].status = "queued"]
          BY <3>4 DEF CreateJob
      <4> QED
          BY <1>1, <2>2, <3>2, <4>2, <4>3
    <3>5. CASE AttachTask(a)
      <4>1. backupJob' = [backupJob EXCEPT ![asking[a].job].attached = TRUE]
          BY <3>5 DEF AttachTask
      <4> QED
          BY <1>1, <2>2, <3>2, <4>1 DEF JobType
    <3> QED
        BY <3>2, <3>3, <3>4, <3>5
  <2>5. ASSUME NEW h \in running, HandlerStep(h) PROVE Same
    <3>1. ObjectIsDeleted(h)
        BY <1>2, <1>4, <2>5, MarkAlone
    <3> QED
        BY <1>1, <2>2, <3>1 DEF ObjectIsDeleted, PointType
  <2>6. ASSUME NEW t \in Tasks, TaskStep(t) PROVE Same
      BY <2>6 DEF TaskStep, ClaimTask, CancelTask, RetryTask, RecoverTask
  <2>7. ASSUME NEW p \in Points, ExpirePoint(p) PROVE Same
      BY <1>1, <2>2, <2>7 DEF ExpirePoint, PointType
  <2>8. ASSUME DashboardCrashes \/ UNCHANGED backupVars PROVE Same
      BY <2>8 DEF DashboardCrashes, backupVars
  <2> QED
      BY <2>4, <2>5, <2>6, <2>7, <2>8 DEF BackupNext
<1> QED
    BY <1>3, <1>4

\* If restores and protection are asked for in the dashboard only, no point is marked for
\* deletion while it is held or a restore of it is asked for, though retention chose it before
\* that (retentionCandidates, read again by the handler).
THEOREM ProtectionRespected == OnlyDashboardRestores => (BackupSpec => ProtectionHolds)
<1> SUFFICES ASSUME OnlyDashboardRestores PROVE BackupSpec => ProtectionHolds
    OBVIOUS
<1> DEFINE Inv == /\ BackupsTyped /\ OneThread /\ ObjectsInv
                  /\ ShellsNeverRestore /\ MarksUnprotected
           Spared == \A p \in Points :
                        Available(p) /\ ~Available(p)' => ~point[p].held /\ ~BeingRestored(p)
<1>1. BackupInit => Inv
  <2>1. BackupInit => MarksUnprotected
      BY DEF BackupInit, MarksUnprotected
  <2> QED
      BY <2>1, BackupsTypedInductive, OneThreadInductive, ObjectsInductive, ShellsInductive
<1>2. Inv /\ [BackupNext]_backupVars => Inv'
    BY BackupsTypedInductive, OneThreadInductive, ObjectsInductive, ShellsInductive,
       MarksUnprotectedInductive
<1>3. Inv /\ [BackupNext]_backupVars => [Spared]_backupVars
  <2> SUFFICES ASSUME Inv, [BackupNext]_backupVars, NEW p \in Points, Available(p), ~Available(p)'
               PROVE  ~point[p].held /\ ~BeingRestored(p)
      OBVIOUS
  <2>1. ~AvailabilityKeeps
      BY KeepsNewer
  <2>2. ASSUME NEW h \in running, StorePoint(h) PROVE FALSE
    <3>1. /\ made' = made + 1 /\ point'[made'].status = "available"
          /\ \A q \in Points \ {made'} : point'[q] = point[q]
        BY <2>2, PointWrites
    <3>2. made \in Nat
        BY TypedState DEF BackupsTyped
    <3> QED
        BY <3>1, <3>2 DEF Available
  <2>3. ASSUME NEW h \in running, MarkPoint(h) PROVE ~point[p].held /\ ~BeingRestored(p)
    <3>1. made' = made /\ \A q \in Points \ {Of(h)} : point'[q] = point[q]
        BY <2>3, PointWrites
    <3>2. p = Of(h)
        BY <3>1 DEF Available
    <3> QED
        BY <2>3, <3>2 DEF MarkPoint, MarksUnprotected
  <2> QED
      BY <2>1, <2>2, <2>3, AvailabilitySteps
<1> QED
    BY <1>1, <1>2, <1>3, PTL DEF BackupSpec, ProtectionHolds
=============================================================================
