------------------------------ MODULE Backups ------------------------------
(***************************************************************************)
(* The recovery points of one backup policy (backups/service.ts,           *)
(* backups/store.ts): backups, their verification, restores and the        *)
(* retention that deletes points, over the durable queue.                  *)
(*                                                                         *)
(* The dashboard runs the handlers, sweeps and answers requests in one     *)
(* thread: between two awaits nothing else of it runs.  The commands       *)
(* recovery:run, verify, restore and retention are processes of their own, *)
(* which run at any time.  recovery:protect is left out: it reads the row  *)
(* of a point and later writes all of it back, status included, so that    *)
(* nothing of what is said here of points holds beside it.                 *)
(*                                                                         *)
(* A job of backup_jobs is named by its idempotency key.  The queue's      *)
(* states failed, cancelled and timed_out are one here, "ended".  What is  *)
(* kept at the destination is external: a point's object is there or not.  *)
(***************************************************************************)
EXTENDS Naturals, FiniteSets

CONSTANTS
    MaxBackups,  \* bound of the model: backups asked for, by schedule or by hand
    MaxPoints,   \* bound of the model: recovery points
    KeepLast,    \* retention.keepLast
    KeepDays,    \* retention.daily; the other tiers differ in the length of a day only
    DayOf,       \* the day of every point
    Restorable,  \* the points somebody may want restored
    Dashboard,
    Shells,      \* calls of recovery:* commands, a process each
    ShellAsks,   \* what those ask for
    MaxUpsets    \* bound of the model: failures, crashes, time-outs, cancellations,
                 \* retries by hand and changes of protection, together

Points == 1..MaxPoints
Askers == Shells \cup {Dashboard}

ASSUME BackupsAssumption ==
    /\ MaxBackups \in Nat \ {0} /\ MaxPoints \in Nat /\ MaxUpsets \in Nat
    /\ KeepLast \in Nat /\ KeepDays \in Nat
    /\ DayOf \in [Points -> Nat] /\ \A p, q \in Points : p < q => DayOf[p] <= DayOf[q]
    /\ Restorable \subseteq Points /\ Dashboard \notin Shells
    /\ ShellAsks \subseteq {"backup", "verify", "restore", "cleanup"}

BackupJobs == [kind : {"backup"}, of : 1..MaxBackups]
                \cup [kind : {"verify", "restore", "cleanup"}, of : Points]
JobFor(kind, n) == [kind |-> kind, of |-> n]

\* Bound of the model: a job that has lost its operation once is given one more.
Tasks == [job : BackupJobs, copy : 1..2]

VARIABLES
    point,      \* recovery_points, in the order of their creation
    made,       \* how many there are
    backupJob,  \* backup_jobs
    task,       \* the operations of the jobs
    running,    \* the handlers that run, with the attempt each was started for
    asking,     \* the call a process is in: the job it is about, those still to do
    asked,      \* backups asked for
    upsets

backupVars == <<point, made, backupJob, task, running, asking, asked, upsets>>

\* Where a handler is between two statements of one synchronous block, or its promise has
\* settled and runOne goes on at once; and where it awaits the source or the destination.
Synchronous == {"begin", "check", "mark", "stored", "chained", "good", "bad"}
Awaiting == {"work", "apply", "gone"}

MaxTries(kind) == CASE kind = "backup" -> 3 [] kind = "verify" -> 2
                    [] kind = "restore" -> 1 [] kind = "cleanup" -> 3

NoAsk == [pc |-> "none", job |-> JobFor("backup", 1), todo |-> {}]

\* The rows are well typed, and no operation is started more often than its kind allows
\* (maxAttempts of BackupCoordinator; a restore is never repeated by the queue).
BackupTypeOK ==
    /\ made \in 0..MaxPoints /\ asked \in 0..MaxBackups /\ upsets \in 0..MaxUpsets
    /\ point \in [Points -> [status : {"absent", "available", "deleting", "deleted"},
                             checked : {"unverified", "verifying", "verified", "bad"},
                             held : BOOLEAN, expired : BOOLEAN, stored : BOOLEAN]]
    /\ backupJob \in [BackupJobs -> [status : {"absent", "queued", "running", "succeeded",
                                               "failed", "cleanup_required"},
                                     attached : BOOLEAN]]
    /\ task \in [Tasks -> [state : {"absent", "queued", "running", "succeeded", "ended"},
                           tries : 0..3]]
    /\ running \subseteq [task : Tasks, try : 1..3, pc : Synchronous \cup Awaiting]
    /\ asking \in [Askers -> [pc : {"none", "create", "enqueue", "attach"},
                              job : BackupJobs, todo : SUBSET BackupJobs]]
    /\ \A t \in Tasks : task[t].tries <= MaxTries(t.job.kind)

BackupInit ==
    /\ point = [p \in Points |-> [status |-> "absent", checked |-> "unverified",
                                  held |-> FALSE, expired |-> FALSE, stored |-> FALSE]]
    /\ made = 0 /\ asked = 0 /\ upsets = 0
    /\ backupJob = [j \in BackupJobs |-> [status |-> "absent", attached |-> FALSE]]
    /\ task = [t \in Tasks |-> [state |-> "absent", tries |-> 0]]
    /\ running = {}
    /\ asking = [a \in Askers |-> NoAsk]

Upset == upsets < MaxUpsets /\ upsets' = upsets + 1

Available(p) == p \in 1..made /\ point[p].status = "available"
BeingRestored(p) == backupJob[JobFor("restore", p)].status \in {"queued", "running", "cleanup_required"}

-----------------------------------------------------------------------------
(* BackupStore.retentionCandidates.                                        *)

Newer(p) == {q \in 1..made : q > p /\ Available(q)}
OneOfTheNewest(p) == Cardinality(Newer(p)) < KeepLast
Mutant_NewestOfItsDay(p) == FALSE
NewestOfItsDay(p) ==
    /\ \A q \in Newer(p) : DayOf[q] # DayOf[p]
    /\ Cardinality({DayOf[q] : q \in Newer(p)}) < KeepDays

Candidates ==
    {p \in 1..made : /\ Available(p) /\ point[p].expired /\ ~point[p].held
                     /\ ~BeingRestored(p)
                     /\ ~OneOfTheNewest(p) /\ ~NewestOfItsDay(p)}

-----------------------------------------------------------------------------
(* BackupCoordinator: look, create the job unless its key exists, enqueue  *)
(* an operation unless the job has one, attach it.                         *)

ThreadFree == asking[Dashboard].pc = "none" /\ \A h \in running : h.pc \notin Synchronous

MayAsk(a, what) ==
    /\ asking[a].pc = "none"
    /\ IF a = Dashboard THEN ThreadFree ELSE what \in ShellAsks

Takes(a, j, rest) == asking' = [asking EXCEPT ![a] = [pc |-> "create", job |-> j, todo |-> rest]]

\* The next job of the call, or its end.
Proceeds(a) ==
    IF asking[a].todo = {}
    THEN asking' = [asking EXCEPT ![a] = NoAsk]
    ELSE \E j \in asking[a].todo : Takes(a, j, asking[a].todo \ {j})

\* enqueueBackup, for enqueueDue as well: the policy is advanced before anything else, so
\* that a call that is cut off has lost its backup either way.
AskBackup(a) ==
    /\ MayAsk(a, "backup") /\ asked < MaxBackups
    /\ asked' = asked + 1
    /\ Takes(a, JobFor("backup", asked + 1), {})
    /\ UNCHANGED <<point, made, backupJob, task, running, upsets>>

\* Whatever the point is like.
AskVerification(a, p) ==
    /\ MayAsk(a, "verify")
    /\ Takes(a, JobFor("verify", p), {})
    /\ UNCHANGED <<point, made, backupJob, task, running, asked, upsets>>

\* planRestore.
AskRestore(a, p) ==
    /\ p \in Restorable /\ MayAsk(a, "restore") /\ Available(p) /\ point[p].checked = "verified"
    /\ Takes(a, JobFor("restore", p), {})
    /\ UNCHANGED <<point, made, backupJob, task, running, asked, upsets>>

\* enqueueRetention: the candidates are read once.
AskRetention(a) ==
    /\ MayAsk(a, "cleanup")
    /\ \E p \in Candidates :
         Takes(a, JobFor("cleanup", p), {JobFor("cleanup", q) : q \in Candidates \ {p}})
    /\ UNCHANGED <<point, made, backupJob, task, running, asked, upsets>>

CreateJob(a) ==
    LET j == asking[a].job IN
    /\ asking[a].pc = "create"
    /\ backupJob' = IF backupJob[j].status = "absent"
                    THEN [backupJob EXCEPT ![j].status = "queued"] ELSE backupJob
    /\ IF backupJob[j].attached THEN Proceeds(a)
                                ELSE asking' = [asking EXCEPT ![a].pc = "enqueue"]
    /\ UNCHANGED <<point, made, task, running, asked, upsets>>

EnqueueTask(a) ==
    /\ asking[a].pc = "enqueue"
    /\ \E t \in Tasks :
         /\ t.job = asking[a].job /\ task[t].state = "absent"
         /\ t.copy = 2 => task[[t EXCEPT !.copy = 1]].state # "absent"
         /\ task' = [task EXCEPT ![t].state = "queued"]
    /\ asking' = [asking EXCEPT ![a].pc = "attach"]
    /\ UNCHANGED <<point, made, backupJob, running, asked, upsets>>

AttachTask(a) ==
    /\ asking[a].pc = "attach"
    /\ backupJob' = [backupJob EXCEPT ![asking[a].job].attached = TRUE]
    /\ Proceeds(a)
    /\ UNCHANGED <<point, made, task, running, asked, upsets>>

-----------------------------------------------------------------------------
(* The handlers, one step for what is run between two awaits or, where     *)
(* another process may interfere, between two statements.                  *)

Of(h) == h.task.job.of
Is(h, kind, pc) == h \in running /\ h.task.job.kind = kind /\ h.pc = pc
To(h, pc) == running' = (running \ {h}) \cup {[h EXCEPT !.pc = pc]}
JobIs(h, status) == backupJob' = [backupJob EXCEPT ![h.task.job].status = status]
Checked(p, result) == point' = [point EXCEPT ![p].checked = result]

LocksOf(j) == IF j.kind \in {"backup", "restore"} THEN 0 ELSE j.of
Claimable(t) ==
    /\ task[t].state = "queued"
    /\ \A u \in Tasks : task[u].state = "running" => LocksOf(u.job) # LocksOf(t.job)

ClaimTask(t) ==
    /\ Claimable(t) /\ ThreadFree
    /\ task' = [task EXCEPT ![t].state = "running", ![t].tries = @ + 1]
    /\ running' = running \cup {[task |-> t, try |-> task[t].tries + 1, pc |-> "begin"]}
    /\ UNCHANGED <<point, made, backupJob, asking, asked, upsets>>

\* claimedJob, whatever the job's status was.
BeginJob(h) ==
    /\ h \in running /\ h.pc = "begin"
    /\ JobIs(h, "running")
    /\ To(h, IF h.task.job.kind = "cleanup" THEN "check" ELSE "work")
    /\ IF h.task.job.kind = "verify" THEN Checked(Of(h), "verifying") ELSE UNCHANGED point
    /\ UNCHANGED <<made, task, asking, asked, upsets>>

\* The source and the upload have succeeded: createRecoveryPoint.
StorePoint(h) ==
    /\ Is(h, "backup", "work") /\ ThreadFree /\ made < MaxPoints
    /\ made' = made + 1
    /\ point' = [point EXCEPT ![made + 1].status = "available", ![made + 1].stored = TRUE]
    /\ To(h, "stored")
    /\ UNCHANGED <<backupJob, task, asking, asked, upsets>>

\* The handler asks for the verification itself.
ChainVerification(h) ==
    /\ h \in running /\ h.pc = "stored"
    /\ JobIs(h, "succeeded")
    /\ Takes(Dashboard, JobFor("verify", made), {})
    /\ To(h, "chained")
    /\ UNCHANGED <<point, made, task, asked, upsets>>

VerificationChained(h) ==
    /\ h \in running /\ h.pc = "chained" /\ asking[Dashboard].pc = "none"
    /\ To(h, "good")
    /\ UNCHANGED <<point, made, backupJob, task, asking, asked, upsets>>

PassPoint(h) ==
    /\ Is(h, "verify", "work") /\ ThreadFree /\ point[Of(h)].stored
    /\ Checked(Of(h), "verified")
    /\ JobIs(h, "succeeded") /\ To(h, "good")
    /\ UNCHANGED <<made, task, asking, asked, upsets>>

ReadForRestore(h) ==
    /\ Is(h, "restore", "work") /\ ThreadFree /\ point[Of(h)].stored
    /\ To(h, "apply")
    /\ UNCHANGED <<point, made, backupJob, task, asking, asked, upsets>>

Restored(h) ==
    /\ h \in running /\ h.pc = "apply" /\ ThreadFree
    /\ JobIs(h, "succeeded") /\ To(h, "good")
    /\ UNCHANGED <<point, made, task, asking, asked, upsets>>

\* Is the point still a candidate?
Mutant_StillCandidate(p) == Available(p)
StillCandidate(p) == p \in Candidates

CheckPoint(h) ==
    /\ h \in running /\ h.pc = "check"
    /\ IF StillCandidate(Of(h))
       THEN To(h, "mark") /\ UNCHANGED backupJob
       ELSE To(h, "bad") /\ JobIs(h, "failed")
    /\ UNCHANGED <<point, made, task, asking, asked, upsets>>

Mutant_MarkPoint(h) ==
    /\ h \in running /\ h.pc = "mark"
    /\ To(h, "work")
    /\ UNCHANGED <<point, made, backupJob, task, asking, asked, upsets>>
MarkPoint(h) ==
    /\ h \in running /\ h.pc = "mark"
    /\ point' = [point EXCEPT ![Of(h)].status = "deleting"]
    /\ To(h, "work")
    /\ UNCHANGED <<made, backupJob, task, asking, asked, upsets>>

ObjectIsDeleted(h) ==
    /\ Is(h, "cleanup", "work")
    /\ point' = [point EXCEPT ![Of(h)].stored = FALSE]
    /\ To(h, "gone")
    /\ UNCHANGED <<made, backupJob, task, asking, asked, upsets>>

RecordDeleted(h) ==
    /\ h \in running /\ h.pc = "gone" /\ ThreadFree
    /\ point' = [point EXCEPT ![Of(h)].status = "deleted"]
    /\ JobIs(h, "succeeded") /\ To(h, "good")
    /\ UNCHANGED <<made, task, asking, asked, upsets>>

\* What was awaited throws: of itself, or because there is nothing to read.
NothingToRead(h) == h.task.job.kind \in {"verify", "restore"} /\ h.pc = "work" /\ ~point[Of(h)].stored

WorkFails(h) ==
    /\ h \in running /\ h.pc \in Awaiting /\ ThreadFree
    /\ \/ Upset
       \/ NothingToRead(h) /\ UNCHANGED upsets
    /\ \/ JobIs(h, "failed")
       \* A partial upload or the target of a drill is left behind.
       \/ h.task.job.kind \in {"backup", "restore"} /\ JobIs(h, "cleanup_required")
    /\ IF h.task.job.kind = "verify" THEN Checked(Of(h), "bad") ELSE UNCHANGED point
    /\ To(h, "bad")
    /\ UNCHANGED <<made, task, asking, asked>>

-----------------------------------------------------------------------------
(* The queue and its operations.                                           *)

Live(h) == task[h.task].state = "running" /\ task[h.task].tries = h.try
TaskIs(t, state) == task' = [task EXCEPT ![t].state = state]

\* runOne writes how it ended, unless it has given the handler up; a request to cancel that
\* has come meanwhile turns success into an end.
EndTask(h) ==
    /\ h \in running /\ h.pc \in {"good", "bad"}
    /\ running' = running \ {h}
    /\ \/ Live(h) /\ h.pc = "good" /\ TaskIs(h.task, "succeeded") /\ UNCHANGED upsets
       \/ Live(h) /\ h.pc = "good" /\ TaskIs(h.task, "ended") /\ Upset
       \/ Live(h) /\ h.pc = "bad" /\ TaskIs(h.task, "ended") /\ UNCHANGED upsets
       \/ ~Live(h) /\ UNCHANGED <<task, upsets>>
    /\ UNCHANGED <<point, made, backupJob, asking, asked>>

\* A time-out or a cancellation: the operation ends, its handler goes on.
GiveUpTask(h) ==
    /\ h \in running /\ h.pc \in Awaiting /\ Live(h) /\ ThreadFree /\ Upset
    /\ TaskIs(h.task, "ended")
    /\ UNCHANGED <<point, made, backupJob, running, asking, asked>>

CancelTask(t) ==
    /\ task[t].state = "queued" /\ Upset
    /\ TaskIs(t, "ended")
    /\ UNCHANGED <<point, made, backupJob, running, asking, asked>>

\* By hand; a restore has no class of errors that may be retried.
Mutant_MayRepeat(t) == TRUE
MayRepeat(t) == t.job.kind # "restore" /\ task[t].tries < MaxTries(t.job.kind)

RetryTask(t) ==
    /\ task[t].state = "ended" /\ MayRepeat(t) /\ Upset
    /\ TaskIs(t, "queued")
    /\ UNCHANGED <<point, made, backupJob, running, asking, asked>>

RecoverTask(t) ==
    /\ task[t].state = "running" /\ \A h \in running : h.task # t
    /\ TaskIs(t, IF MayRepeat(t) THEN "queued" ELSE "ended")
    /\ UNCHANGED <<point, made, backupJob, running, asking, asked, upsets>>

\* The dashboard ends, with its handlers and whatever it was asking; or a shell.
DashboardCrashes ==
    /\ running # {} \/ asking[Dashboard].pc # "none"
    /\ Upset
    /\ running' = {} /\ asking' = [asking EXCEPT ![Dashboard] = NoAsk]
    /\ UNCHANGED <<point, made, backupJob, task, asked>>

ShellCrashes(a) ==
    /\ a \in Shells /\ asking[a].pc # "none"
    /\ asking' = [asking EXCEPT ![a] = NoAsk]
    /\ UNCHANGED <<point, made, backupJob, task, running, asked, upsets>>

-----------------------------------------------------------------------------
(* Time and protection.                                                    *)

\* All points of a policy live as long, and there is no way to edit one.
ExpirePoint(p) ==
    /\ p \in 1..made /\ ~point[p].expired
    /\ \A q \in 1..made : q < p => point[q].expired
    /\ point' = [point EXCEPT ![p].expired = TRUE]
    /\ UNCHANGED <<made, backupJob, task, running, asking, asked, upsets>>

\* held stands for a hold, a pin and an object lock; in the dashboard, whose thread reads and
\* writes the row without a pause.
Protect(a, p) ==
    /\ a = Dashboard /\ MayAsk(a, "protect") /\ p \in 1..made /\ Upset
    /\ point' = [point EXCEPT ![p].held = ~@]
    /\ UNCHANGED <<made, backupJob, task, running, asking, asked>>

-----------------------------------------------------------------------------
AskStep(a) ==
    \/ AskBackup(a) \/ AskRetention(a)
    \/ \E p \in 1..made : AskVerification(a, p) \/ AskRestore(a, p) \/ Protect(a, p)
    \/ CreateJob(a) \/ EnqueueTask(a) \/ AttachTask(a)
    \/ ShellCrashes(a)

HandlerStep(h) ==
    \/ BeginJob(h)
    \/ StorePoint(h) \/ ChainVerification(h) \/ VerificationChained(h)
    \/ PassPoint(h)
    \/ ReadForRestore(h) \/ Restored(h)
    \/ CheckPoint(h) \/ MarkPoint(h) \/ ObjectIsDeleted(h) \/ RecordDeleted(h)
    \/ WorkFails(h) \/ EndTask(h) \/ GiveUpTask(h)

TaskStep(t) == ClaimTask(t) \/ CancelTask(t) \/ RetryTask(t) \/ RecoverTask(t)

BackupNext ==
    \/ \E a \in Askers : AskStep(a)
    \/ \E h \in running : HandlerStep(h)
    \/ \E t \in Tasks : TaskStep(t)
    \/ \E p \in Points : ExpirePoint(p)
    \/ DashboardCrashes

BackupSpec == BackupInit /\ [][BackupNext]_backupVars

-----------------------------------------------------------------------------
(* Properties.                                                             *)

\* Retention leaves the newest points and one point of each of the newest days, whatever
\* backups, failed cleanups and late handlers do meanwhile (retentionCandidates).
DaysSince(d) == {e \in {DayOf[q] : q \in 1..made} : e > d}
RetainedPointsRemain ==
    /\ \A p \in 1..made : made < p + KeepLast => Available(p)
    /\ \A p \in 1..made : Cardinality(DaysSince(DayOf[p])) < KeepDays =>
          \E q \in 1..made : DayOf[q] = DayOf[p] /\ Available(q)

\* A point that is called available has its object: it is marked before the object goes,
\* and no failure, retry or late answer makes it available again.
AvailableIsStored == \A p \in 1..made : Available(p) => point[p].stored

\* No point is marked for deletion while it is held or a restore of it is asked for, though
\* retention chose it before that.
ProtectionHolds ==
    [][\A p \in Points : Available(p) /\ ~Available(p)' => ~point[p].held /\ ~BeingRestored(p)]_backupVars
=============================================================================
