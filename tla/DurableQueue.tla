---------------------------- MODULE DurableQueue ----------------------------
(***************************************************************************)
(* The durable operation queue of the control plane: the rows of the       *)
(* tables operations, operation_jobs and operation_locks (one SQLite file  *)
(* that dashboards, CLI commands and the API share), and the processes     *)
(* that read and write them through control-plane/store.ts and             *)
(* queue/queue.ts.                                                         *)
(*                                                                         *)
(* A step of the model is one SQL transaction or one SQL statement: a      *)
(* process runs its own JavaScript without interruption, but between two   *)
(* statements any other process may run.  A SELECT whose result no other   *)
(* process can invalidate before the next statement is part of that        *)
(* statement's step.                                                       *)
(*                                                                         *)
(* Time is abstracted to what the code asks of it: whether lease_expires_at*)
(* and available_at are past.  The version column is abstracted to what    *)
(* optimistic concurrency asks of it: whether it is still the one a        *)
(* process has read (variable holds).                                      *)
(*                                                                         *)
(* The operators named Mutant_... are wrong versions of the operators after*)
(* them; nothing uses them but the runs that show that a property notices. *)
(***************************************************************************)
EXTENDS Naturals, FiniteSets

CONSTANTS
    Ops,          \* operation ids
    Lanes,        \* executors: worker lanes, and requests that run a tracked operation
    Clients,      \* processes that enqueue, cancel, retry, recover or clear history
    Recoverers,   \* clients that initialise the control plane, which recovers
    Workers,      \* worker ids ("dashboard:<pid>", "cli:<pid>")
    WorkerOf,     \* the worker id of a lane; the lanes of one process share it
    Keys,         \* resource lock keys
    LockKey,      \* an operation's lock key, or NoKey
    Scopes,       \* what running operations are counted by
    ScopesOf,     \* the scopes (project, environment, provider, build) of an operation
    Limit,        \* how many operations of a scope may run at once
    MaxAttempts,  \* operation_jobs.max_attempts
    Rank,         \* position in ORDER BY priority DESC, created_at, rowid
    Window,       \* LIMIT of the claim query
    Requeue,      \* operations with resume_policy = 'requeue'
    Retryable,    \* operations whose jobs allow-list a retry class
    Keyed,        \* operations created with an idempotency key
    Cancellable,  \* operations that somebody asks to cancel
    Delayed,      \* operations enqueued or retried with an availability in the future
    Clearable,    \* operations whose retention deadline passes
    Tracked,      \* operations run by trackDashboardOperation, not by a worker lane
    Stalling,     \* lanes that may be suspended for longer than a lease
    Crashing,     \* workers and clients that may crash
    NoOp, NoKey, NoWorker

Procs == Lanes \cup Clients

Terminal == {"succeeded", "failed", "cancelled", "timed_out"}
States == {"absent", "queued", "running", "deleted"} \cup Terminal
Pcs == {"idle", "insertJob", "scan", "run", "finish", "write", "release",
        "requeue", "requeueWrite", "requeueDelay", "retryWrite", "retryClear",
        "recover", "recoverRequeue", "reconcile", "clear"}
Modes == {"none", "try", "catch", "call", "recover"}

\* Every operation has a rank of its own, at least one attempt, and scopes that
\* admit at least one operation (positive() in queue.ts clamps both to 1 and more).
ASSUME ConstantsAssumption ==
    /\ IsFiniteSet(Ops) /\ NoOp \notin Ops
    /\ NoWorker \notin Workers /\ NoKey \notin Keys
    /\ Lanes \cap Clients = {} /\ Recoverers \subseteq Clients
    /\ WorkerOf \in [Lanes -> Workers]
    /\ LockKey \in [Ops -> Keys \cup {NoKey}]
    /\ ScopesOf \in [Ops -> SUBSET Scopes]
    /\ Limit \in [Scopes -> Nat \ {0}]
    /\ MaxAttempts \in [Ops -> Nat \ {0}]
    /\ Rank \in [Ops -> Nat]
    /\ \A a, b \in Ops : Rank[a] = Rank[b] => a = b
    /\ Window \in Nat \ {0}
    /\ Requeue \subseteq Ops /\ Retryable \subseteq Ops /\ Keyed \subseteq Ops
    /\ Cancellable \subseteq Ops /\ Delayed \subseteq Ops /\ Clearable \subseteq Ops
    /\ Tracked \subseteq Ops
    /\ Stalling \subseteq Lanes /\ Crashing \subseteq Workers \cup Clients
    \* trackDashboardOperation: maxAttempts 1, no retry class, resume policy 'fail'.
    /\ Tracked \cap (Requeue \cup Retryable \cup Keyed \cup Delayed) = {}
    /\ \A o \in Tracked : MaxAttempts[o] = 1

VARIABLES
    row,        \* operations: [Ops -> [state, attempt, owner, leased, cancel]]
    job,        \* operation_jobs: no row, not available yet, or due
    lock,       \* operation_locks: [Keys -> [op, live]]
    proc,       \* what each process is doing
    holds,      \* rows whose version, as a process has read it, is still current
    abandoned   \* <<lane, operation>>: handlers that run on after runOne gave them up

vars == <<row, job, lock, proc, holds, abandoned>>

NoRow == [state |-> "absent", attempt |-> 0, owner |-> NoWorker,
          leased |-> FALSE, cancel |-> FALSE]
Free == [op |-> NoOp, live |-> FALSE]
Idle == [pc |-> "idle", op |-> NoOp, goal |-> "failed", mode |-> "none",
         try |-> 0, todo |-> {}]

Rows == [state : States, attempt : Nat, owner : Workers \cup {NoWorker},
         leased : BOOLEAN, cancel : BOOLEAN]
Locks == [op : Ops \cup {NoOp}, live : BOOLEAN]
Calls == [pc : Pcs, op : Ops \cup {NoOp}, goal : Terminal, mode : Modes,
          try : Nat, todo : SUBSET Ops]

\* The queue's tables are well typed, and so is what each process remembers.
TypeOK ==
    /\ row \in [Ops -> Rows]
    /\ job \in [Ops -> {"none", "later", "due"}]
    /\ lock \in [Keys -> Locks]
    /\ proc \in [Procs -> Calls]
    /\ holds \in [Procs -> SUBSET Ops]
    /\ abandoned \subseteq Lanes \X Ops

Init ==
    /\ row = [o \in Ops |-> NoRow]
    /\ job = [o \in Ops |-> "none"]
    /\ lock = [k \in Keys |-> Free]
    /\ proc = [p \in Procs |-> Idle]
    /\ holds = [p \in Procs |-> {}]
    /\ abandoned = {}

-----------------------------------------------------------------------------
(* Rows, versions and transitions (control-plane/store.ts).                *)

Mutant_LooseTransitions ==
    [s \in States |-> IF s \in Terminal THEN {"queued"} ELSE {"queued", "running"} \cup Terminal]
Transitions ==
    [s \in States |->
        CASE s = "queued"  -> {"running", "cancelled", "timed_out"}
          [] s = "running" -> {"queued"} \cup Terminal
          [] s \in {"failed", "cancelled", "timed_out"} -> {"queued"}
          [] OTHER -> {}]

IsRunning(o) == row[o].state = "running"
Owns(l, o) == IsRunning(o) /\ row[o].owner = WorkerOf[l]
Mutant_EveryRunning == {o \in Ops : IsRunning(o)}
Mutant_Unexpired == {o \in Ops : IsRunning(o) /\ row[o].leased}
Expired == {o \in Ops : IsRunning(o) /\ ~row[o].leased}

\* version + 1: nobody's earlier read of the row is current any more.
Bumped(o) == [q \in Procs |-> holds[q] \ {o}]

\* transitionOperation commits if the version is unchanged and the move is legal;
\* every target used by the queue (queued or terminal) clears the lease.
Mutant_NoVersionTest(p, o, s) == s \in Transitions[row[o].state]
CanMove(p, o, s) == o \in holds[p] /\ s \in Transitions[row[o].state]
Mutant_LeaseKept(o, s) == row' = [row EXCEPT ![o].state = s] /\ holds' = Bumped(o)
Mutant_OwnerUntyped(o, s) ==
    /\ row' = [row EXCEPT ![o] = [@ EXCEPT !.state = s, !.owner = NoOp, !.leased = FALSE]]
    /\ holds' = Bumped(o)
Move(o, s) ==
    /\ row' = [row EXCEPT ![o] = [@ EXCEPT !.state = s, !.owner = NoWorker,
                                           !.leased = FALSE]]
    /\ holds' = Bumped(o)

\* Process p reads the row of o, version included.
Read(p, o) == holds' = [holds EXCEPT ![p] = {o}]

Goto(p, pc) == proc' = [proc EXCEPT ![p].pc = pc]
Return(p) == proc' = [proc EXCEPT ![p] = Idle]
\* An exception leaves the call: nothing it has read is used again.
Abort(p) == Return(p) /\ holds' = [holds EXCEPT ![p] = {}]

Freed(o) == [k \in Keys |-> IF lock[k].op = o THEN Free ELSE lock[k]]
Mutant_ExpiredLocksStay == lock
Unexpired == [k \in Keys |-> IF lock[k].live THEN lock[k] ELSE Free]

-----------------------------------------------------------------------------
(* enqueue: createOperation inserts the operation, a second statement its  *)
(* job.  A request that runs a tracked operation enqueues and then claims  *)
(* it; every other operation is enqueued by a client.                      *)

Enqueuers(o) == IF o \in Tracked THEN Lanes ELSE Clients

Availability(o) == {"due"} \cup (IF o \in Delayed THEN {"later"} ELSE {})

Enqueue(p, o) ==
    /\ p \in Enqueuers(o)
    /\ proc[p].pc = "idle"
    /\ row[o].state = "absent"
    /\ row' = [row EXCEPT ![o].state = "queued"]
    /\ proc' = [proc EXCEPT ![p] = [Idle EXCEPT !.pc = "insertJob", !.op = o]]
    /\ UNCHANGED <<job, lock, holds, abandoned>>

\* The same idempotency key finds the operation again; it matters only when an
\* earlier caller stopped before it had inserted the job.
EnqueueAgain(p, o) ==
    /\ p \in Clients /\ o \in Keyed
    /\ proc[p].pc = "idle"
    /\ row[o].state \notin {"absent", "deleted"} /\ job[o] = "none"
    /\ proc' = [proc EXCEPT ![p] = [Idle EXCEPT !.pc = "insertJob", !.op = o]]
    /\ UNCHANGED <<row, job, lock, holds, abandoned>>

InsertJob(p) ==
    LET o == proc[p].op IN
    /\ proc[p].pc = "insertJob"
    /\ IF job[o] = "none" /\ row[o].state # "deleted"
         THEN \E a \in Availability(o) : job' = [job EXCEPT ![o] = a]
         ELSE UNCHANGED job
    /\ IF o \in Tracked
         THEN proc' = [proc EXCEPT ![p] = [Idle EXCEPT !.pc = "scan", !.todo = {o}]]
         ELSE Return(p)
    /\ UNCHANGED <<row, lock, holds, abandoned>>

BecomesDue(o) ==
    /\ job[o] = "later"
    /\ job' = [job EXCEPT ![o] = "due"]
    /\ UNCHANGED <<row, lock, proc, holds, abandoned>>

-----------------------------------------------------------------------------
(* claimNext and claim.  claimNext reads the first Window candidates and   *)
(* tries them in order; each claim is one immediate transaction.           *)

Candidates == {o \in Ops \ Tracked : row[o].state = "queued" /\ job[o] = "due"}
FirstCandidates ==
    {o \in Candidates : Cardinality({q \in Candidates : Rank[q] < Rank[o]}) < Window}

StartScan(l) ==
    /\ proc[l].pc = "idle"
    /\ Candidates # {}
    /\ proc' = [proc EXCEPT ![l] = [Idle EXCEPT !.pc = "scan", !.todo = FirstCandidates]]
    /\ UNCHANGED <<row, job, lock, holds, abandoned>>

Running(s) == {o \in Ops : IsRunning(o) /\ s \in ScopesOf[o]}

\* blockReason: another operation's unexpired lock, or a scope at its limit.
BlockedByLock(o) ==
    /\ LockKey[o] # NoKey
    /\ Unexpired[LockKey[o]].op \notin {o, NoOp}
Mutant_LimitOffByOne(o) == \E s \in ScopesOf[o] : Cardinality(Running(s)) > Limit[s]
BlockedByLimit(o) == \E s \in ScopesOf[o] : Cardinality(Running(s)) >= Limit[s]
Mutant_NoLockTest(o) == BlockedByLimit(o)
BlockReason(o) == BlockedByLock(o) \/ BlockedByLimit(o)

\* The plain INSERT of the lock row fails while the operation's own is there.
InsertConflicts(o) == LockKey[o] # NoKey /\ Unexpired[LockKey[o]].op = o

Claimable(o) == row[o].state = "queued" /\ job[o] = "due"
Mutant_GrantableCancelled(o) == Claimable(o)
Grantable(o) == Claimable(o) /\ ~row[o].cancel

\* A candidate that is not claimed: the next one is tried, or claimNext ends.
NextCandidate(l, o) ==
    LET rest == proc[l].todo \ {o} IN
    IF rest = {} THEN Return(l) ELSE proc' = [proc EXCEPT ![l].todo = rest]

ClaimSkips(l, o) ==
    /\ \/ ~Claimable(o)
       \/ Grantable(o) /\ BlockReason(o)
    /\ lock' = Unexpired
    /\ NextCandidate(l, o)
    /\ UNCHANGED <<row, holds>>

ClaimCancels(l, o) ==
    /\ Claimable(o) /\ row[o].cancel
    /\ Move(o, "cancelled")
    /\ lock' = Unexpired
    /\ NextCandidate(l, o)

\* The transaction rolls back and the exception ends the whole claimNext.
ClaimThrows(l, o) ==
    /\ Grantable(o) /\ ~BlockReason(o) /\ InsertConflicts(o)
    /\ Return(l)
    /\ UNCHANGED <<row, lock, holds>>

ClaimSucceeds(l, o) ==
    /\ Grantable(o) /\ ~BlockReason(o) /\ ~InsertConflicts(o)
    /\ row' = [row EXCEPT ![o] = [@ EXCEPT !.state = "running", !.owner = WorkerOf[l],
                                           !.attempt = row[o].attempt + 1,
                                           !.leased = TRUE]]
    /\ holds' = Bumped(o)
    /\ lock' = [k \in Keys |-> IF k = LockKey[o] THEN [op |-> o, live |-> TRUE]
                                                 ELSE Unexpired[k]]
    /\ proc' = [proc EXCEPT ![l] = [Idle EXCEPT !.pc = "run", !.op = o,
                                                !.try = row[o].attempt + 1]]

Claim(l) ==
    /\ proc[l].pc = "scan"
    /\ \E o \in proc[l].todo :
         /\ \A q \in proc[l].todo : Rank[o] <= Rank[q]
         /\ \/ ClaimSkips(l, o) \/ ClaimCancels(l, o)
            \/ ClaimThrows(l, o) \/ ClaimSucceeds(l, o)
    /\ UNCHANGED <<job, abandoned>>

-----------------------------------------------------------------------------
(* Execution: heartbeats, the ways a handler ends, and runOne's handling   *)
(* of each.                                                                *)

\* heartbeat: owner and state are checked, an expired lease is not; the lock row is
\* renewed only if it is still there.  A handler that was given up can still call it.
Heartbeat(l, o) ==
    /\ o \notin Tracked
    /\ \/ proc[l].pc = "run" /\ proc[l].op = o
       \/ <<l, o>> \in abandoned
    /\ Owns(l, o)
    /\ row' = [row EXCEPT ![o].leased = TRUE]
    /\ holds' = Bumped(o)
    /\ lock' = [k \in Keys |-> IF lock[k].op = o THEN [op |-> o, live |-> TRUE]
                                                 ELSE lock[k]]
    /\ UNCHANGED <<job, proc, abandoned>>

\* Go on to finish(o, s), from runOne's try block or from its catch block.
Conclude(l, s, m) ==
    proc' = [proc EXCEPT ![l] = [@ EXCEPT !.pc = "finish", !.goal = s, !.mode = m]]

HandlerReturns(l) ==
    LET o == proc[l].op IN
    /\ proc[l].pc = "run" /\ o \notin Tracked
    /\ \/ row[o].cancel /\ Conclude(l, "cancelled", "try")
       \/ ~row[o].cancel /\ Owns(l, o) /\ Conclude(l, "succeeded", "try")
       \/ ~row[o].cancel /\ ~Owns(l, o) /\ Conclude(l, "failed", "catch")
    /\ UNCHANGED <<row, job, lock, holds, abandoned>>

HandlerThrows(l) ==
    LET o == proc[l].op IN
    /\ proc[l].pc = "run" /\ o \notin Tracked
    /\ \/ row[o].cancel /\ Conclude(l, "cancelled", "catch")
       \/ ~row[o].cancel /\ Conclude(l, "failed", "catch")
       \/ /\ ~row[o].cancel /\ o \in Retryable /\ proc[l].try < MaxAttempts[o]
          /\ Goto(l, "requeue")
    /\ UNCHANGED <<row, job, lock, holds, abandoned>>

\* The race is lost to the abort signal; the handler itself is not stopped.
HandlerAborted(l) ==
    LET o == proc[l].op IN
    /\ proc[l].pc = "run" /\ o \notin Tracked
    /\ \/ Conclude(l, "timed_out", "catch")
       \/ row[o].cancel /\ Conclude(l, "cancelled", "catch")
    /\ abandoned' = abandoned \cup {<<l, o>>}
    /\ UNCHANGED <<row, job, lock, holds>>

HandlerStops(l, o) ==
    /\ <<l, o>> \in abandoned
    /\ abandoned' = abandoned \ {<<l, o>>}
    /\ UNCHANGED <<row, job, lock, proc, holds>>

\* trackDashboardOperation: complete or fail, both for the lease owner only.
TrackedReturns(l) ==
    LET o == proc[l].op IN
    /\ proc[l].pc = "run" /\ o \in Tracked
    /\ IF Owns(l, o)
         THEN \/ Conclude(l, "succeeded", "try")
              \/ \E m \in {"try", "catch"} : Conclude(l, "failed", m)
         ELSE Return(l)
    /\ UNCHANGED <<row, job, lock, holds, abandoned>>

-----------------------------------------------------------------------------
(* finish: read the row, transition it, delete its lock.                   *)

\* finish has thrown.  In runOne's try block that leads to its catch block, and in
\* trackDashboardOperation's to fail(); elsewhere the call ends.
Thrown(p) ==
    LET o == proc[p].op IN
    IF proc[p].mode # "try" \/ (o \in Tracked /\ ~Owns(p, o))
      THEN Abort(p)
      ELSE /\ Conclude(p, IF row[o].cancel /\ o \notin Tracked THEN "cancelled"
                                                              ELSE "failed", "catch")
           /\ holds' = [holds EXCEPT ![p] = {}]

FinishRead(p) ==
    LET o == proc[p].op IN
    /\ proc[p].pc = "finish"
    /\ IF row[o].state = "deleted" THEN Thrown(p) ELSE Read(p, o) /\ Goto(p, "write")
    /\ UNCHANGED <<row, job, lock, abandoned>>

FinishWrite(p) ==
    LET o == proc[p].op IN
    /\ proc[p].pc = "write"
    /\ IF CanMove(p, o, proc[p].goal)
         THEN Move(o, proc[p].goal) /\ Goto(p, "release")
         ELSE Thrown(p) /\ UNCHANGED row
    /\ UNCHANGED <<job, lock, abandoned>>

Release(p) ==
    /\ proc[p].pc = "release"
    /\ lock' = Freed(proc[p].op)
    /\ IF proc[p].mode = "recover" THEN Goto(p, "recover") ELSE Return(p)
    /\ UNCHANGED <<row, job, holds, abandoned>>

(* A retryable failure below the attempt limit, as runOne saw the attempt: *)
(* back to queued, then the backoff, then the lock.                        *)

RequeueRead(l) ==
    /\ proc[l].pc = "requeue"
    /\ Read(l, proc[l].op)
    /\ Goto(l, "requeueWrite")
    /\ UNCHANGED <<row, job, lock, abandoned>>

RequeueWrite(l) ==
    LET o == proc[l].op IN
    /\ proc[l].pc = "requeueWrite"
    /\ IF CanMove(l, o, "queued")
         THEN Move(o, "queued") /\ Goto(l, "requeueDelay")
         ELSE Abort(l) /\ UNCHANGED row
    /\ UNCHANGED <<job, lock, abandoned>>

RequeueDelay(l) ==
    LET o == proc[l].op IN
    /\ proc[l].pc = "requeueDelay"
    /\ job' = [job EXCEPT ![o] = IF @ = "none" THEN "none" ELSE "later"]
    /\ Goto(l, "release")
    /\ UNCHANGED <<row, lock, holds, abandoned>>

-----------------------------------------------------------------------------
(* Cancellation and manual retry.                                          *)

RequestCancellation(c, o) ==
    /\ o \in Cancellable
    /\ proc[c].pc = "idle"
    /\ row[o].state \in {"queued", "running"}
    /\ row' = [row EXCEPT ![o].cancel = TRUE]
    /\ holds' = Bumped(o)
    \* appendLog throws for an operation without a job
    /\ IF row[o].state = "queued" /\ job[o] # "none"
         THEN proc' = [proc EXCEPT ![c] = [Idle EXCEPT !.pc = "finish", !.op = o,
                                              !.goal = "cancelled", !.mode = "call"]]
         ELSE UNCHANGED proc
    /\ UNCHANGED <<job, lock, abandoned>>

Retry(c, o) ==
    /\ proc[c].pc = "idle"
    /\ row[o].state \in {"failed", "cancelled", "timed_out"} /\ job[o] # "none"
    /\ row[o].attempt < MaxAttempts[o]
    /\ o \in Retryable
    /\ Read(c, o)
    /\ proc' = [proc EXCEPT ![c] = [Idle EXCEPT !.pc = "retryWrite", !.op = o]]
    /\ UNCHANGED <<row, job, lock, abandoned>>

RetryWrite(c) ==
    LET o == proc[c].op IN
    /\ proc[c].pc = "retryWrite"
    /\ IF CanMove(c, o, "queued")
         THEN Move(o, "queued") /\ Goto(c, "retryClear")
         ELSE Abort(c) /\ UNCHANGED row
    /\ UNCHANGED <<job, lock, abandoned>>

\* The cancellation request is cleared by a statement of its own, and the version is
\* left alone.
RetryClear(c) ==
    LET o == proc[c].op IN
    /\ proc[c].pc = "retryClear"
    /\ row' = [row EXCEPT ![o].cancel = FALSE]
    /\ IF job[o] = "none" THEN UNCHANGED job
                          ELSE \E a \in Availability(o) : job' = [job EXCEPT ![o] = a]
    /\ Return(c)
    /\ UNCHANGED <<lock, holds, abandoned>>

-----------------------------------------------------------------------------
(* recoverExpired and then reconcileOrphanedOperations('fail'), which every*)
(* initializeDashboardControlPlane runs: at dashboard start-up and in each *)
(* CLI command.                                                            *)

RecoverExpired(c) ==
    /\ c \in Recoverers
    /\ proc[c].pc = "idle"
    /\ Expired # {}
    /\ proc' = [proc EXCEPT ![c] = [Idle EXCEPT !.pc = "recover", !.mode = "recover",
                                                !.todo = {o \in Expired : job[o] # "none"}]]
    /\ UNCHANGED <<row, job, lock, holds, abandoned>>

\* An operation whose process is gone runs again if its policy and its attempts admit it.
Mutant_RunsAgain(o) == o \in Requeue /\ row[o].attempt <= MaxAttempts[o]
RunsAgain(o) == o \in Requeue /\ row[o].attempt < MaxAttempts[o]

\* One row of the snapshot: its lock is deleted first; whether its lease is still
\* expired is not asked again.
RecoverRow(c) ==
    /\ proc[c].pc = "recover"
    /\ \E o \in proc[c].todo :
         LET next(pc, s) == [proc[c] EXCEPT !.pc = pc, !.op = o, !.goal = s,
                                            !.todo = @ \ {o}]
         IN  \/ /\ row[o].state = "deleted"
                /\ Abort(c)
                /\ UNCHANGED lock
             \/ /\ row[o].state # "deleted"
                /\ lock' = Freed(o)
                /\ Read(c, o)
                /\ proc' = [proc EXCEPT ![c] =
                       IF row[o].cancel THEN next("finish", "cancelled")
                       ELSE IF RunsAgain(o) THEN next("recoverRequeue", "failed")
                       ELSE next("finish", "failed")]
    /\ UNCHANGED <<row, job, abandoned>>

RecoverRequeue(c) ==
    LET o == proc[c].op IN
    /\ proc[c].pc = "recoverRequeue"
    /\ IF CanMove(c, o, "queued")
         THEN /\ Move(o, "queued")
              /\ job' = [job EXCEPT ![o] = "due"]
              /\ Goto(c, "recover")
         ELSE Abort(c) /\ UNCHANGED <<row, job>>
    /\ UNCHANGED <<lock, abandoned>>

Reconcile(c) ==
    /\ proc[c].pc = "recover" /\ proc[c].todo = {}
    /\ IF Expired = {}
         THEN Abort(c)
         ELSE /\ proc' = [proc EXCEPT ![c] = [Idle EXCEPT !.pc = "reconcile",
                                                          !.todo = Expired]]
              /\ holds' = [holds EXCEPT ![c] = Expired]
    /\ UNCHANGED <<row, job, lock, abandoned>>

\* The operation fails; its lock row stays.
ReconcileRow(c) ==
    /\ proc[c].pc = "reconcile"
    /\ \E o \in proc[c].todo :
         IF CanMove(c, o, "failed")
           THEN Move(o, "failed") /\ NextCandidate(c, o)
           ELSE Abort(c) /\ UNCHANGED row
    /\ UNCHANGED <<job, lock, abandoned>>

-----------------------------------------------------------------------------
(* clearCompleted, which the dashboard, the API and the command line call: *)
(* a SELECT, and then a DELETE for each operation it has found.            *)

\* The operations that have ended and are past their retention, as far as the project and
\* the cut-off of the call admit them.
Forgettable == {o \in Clearable : row[o].state \in Terminal /\ job[o] # "none"}

ClearCompleted(c) ==
    /\ proc[c].pc = "idle"
    /\ \E found \in SUBSET Forgettable :
         /\ found # {}
         /\ proc' = [proc EXCEPT ![c] = [Idle EXCEPT !.pc = "clear", !.todo = found]]
    /\ UNCHANGED <<row, job, lock, holds, abandoned>>

\* The DELETE names the id alone; the job and lock rows go with the operation.
ClearRow(c) ==
    /\ proc[c].pc = "clear"
    /\ \E o \in proc[c].todo :
         /\ row' = [row EXCEPT ![o] = [NoRow EXCEPT !.state = "deleted",
                                                   !.attempt = row[o].attempt]]
         /\ holds' = Bumped(o)
         /\ job' = [job EXCEPT ![o] = "none"]
         /\ lock' = Freed(o)
         /\ NextCandidate(c, o)
    /\ UNCHANGED abandoned

-----------------------------------------------------------------------------
(* The environment: the clock, suspensions and crashes.                    *)

\* A lane that is neither suspended nor without a heartbeat timer keeps o's lease.
KeptAlive(o) ==
    /\ o \notin Tracked
    /\ \E l \in Lanes \ Stalling : proc[l].op = o /\ proc[l].pc # "idle"

LeaseLapses(o) ==
    /\ IsRunning(o) /\ row[o].leased /\ ~KeptAlive(o)
    /\ row' = [row EXCEPT ![o].leased = FALSE]
    /\ lock' = [k \in Keys |-> IF lock[k].op = o THEN [op |-> o, live |-> FALSE]
                                                 ELSE lock[k]]
    /\ UNCHANGED <<job, proc, holds, abandoned>>

\* The lock of an operation that is not running any more is renewed by nobody.
LockLapses(k) ==
    /\ lock[k].live
    /\ ~IsRunning(lock[k].op) /\ ~KeptAlive(lock[k].op)
    /\ lock' = [lock EXCEPT ![k].live = FALSE]
    /\ UNCHANGED <<row, job, proc, holds, abandoned>>

Crash(w) ==
    LET dead == {l \in Lanes : WorkerOf[l] = w} IN
    /\ w \in Crashing
    /\ \E l \in dead : proc[l].pc # "idle" \/ \E o \in Ops : <<l, o>> \in abandoned
    /\ proc' = [p \in Procs |-> IF p \in dead THEN Idle ELSE proc[p]]
    /\ holds' = [p \in Procs |-> IF p \in dead THEN {} ELSE holds[p]]
    /\ abandoned' = {h \in abandoned : h[1] \notin dead}
    /\ UNCHANGED <<row, job, lock>>

ClientCrash(c) ==
    /\ c \in Crashing
    /\ proc[c].pc # "idle"
    /\ Abort(c)
    /\ UNCHANGED <<row, job, lock, abandoned>>

-----------------------------------------------------------------------------
LaneStep(l) ==
    \/ StartScan(l) \/ Claim(l)
    \/ HandlerReturns(l) \/ HandlerThrows(l) \/ HandlerAborted(l) \/ TrackedReturns(l)
    \/ RequeueRead(l) \/ RequeueWrite(l) \/ RequeueDelay(l)

ProcStep(p) == InsertJob(p) \/ FinishRead(p) \/ FinishWrite(p) \/ Release(p)

\* The rest of a call a client has begun.
ClientStep(c) ==
    \/ RetryWrite(c) \/ RetryClear(c)
    \/ RecoverRow(c) \/ RecoverRequeue(c) \/ Reconcile(c) \/ ReconcileRow(c)
    \/ ClearRow(c)

ClockStep ==
    \/ \E o \in Ops : BecomesDue(o) \/ LeaseLapses(o)
    \/ \E k \in Keys : LockLapses(k)

Next ==
    \/ \E p \in Procs : ProcStep(p)
    \/ \E l \in Lanes : LaneStep(l)
    \/ \E c \in Clients :
         ClientStep(c) \/ RecoverExpired(c) \/ ClearCompleted(c) \/ ClientCrash(c)
    \/ \E p \in Procs, o \in Ops : Enqueue(p, o)
    \/ \E c \in Clients, o \in Ops :
         EnqueueAgain(c, o) \/ RequestCancellation(c, o) \/ Retry(c, o)
    \/ \E l \in Lanes, o \in Ops : Heartbeat(l, o) \/ HandlerStops(l, o)
    \/ ClockStep
    \/ \E w \in Workers : Crash(w)

Spec == Init /\ [][Next]_vars

\* A live process goes on with what it has begun; a handler returns, throws or runs into
\* its timeout, and one that was given up ends some day; a lane looks for work again and
\* again (worker.ts); clocks advance; and some process initialises the control plane
\* again and again, which recovers.
Fairness ==
    /\ \A l \in Lanes : WF_vars(ProcStep(l) \/ LaneStep(l))
    /\ \A c \in Clients : WF_vars(ProcStep(c) \/ ClientStep(c)) /\ WF_vars(RecoverExpired(c))
    /\ \A o \in Ops : WF_vars(BecomesDue(o)) /\ WF_vars(LeaseLapses(o))
    /\ \A k \in Keys : WF_vars(LockLapses(k))
    /\ \A o \in Ops : WF_vars(\E l \in Lanes : HandlerStops(l, o))

FairSpec == Spec /\ Fairness

-----------------------------------------------------------------------------
(* What holds whatever the processes do.                                   *)

\* An operation has a lease owner exactly while it is running, and only then an
\* unexpired lease (claimOperation sets both, transitionOperation clears both).
LeasedIffRunning ==
    \A o \in Ops : /\ IsRunning(o) <=> row[o].owner # NoWorker
                   /\ row[o].leased => IsRunning(o)

\* At no time do more operations of a project, an environment, a provider or a build
\* slot run than its limit admits, although every process counts for itself (claim).
LimitsRespected == \A s \in Scopes : Cardinality(Running(s)) <= Limit[s]

\* A queued operation whose cancellation has been requested never starts (claim):
\* only a retry that clears the request lets it run again.
CancelledNeverStarts ==
    [][\A o \in Ops : row[o].state = "queued" /\ row[o].cancel => ~IsRunning(o)']_vars

\* Recovery reads a row, deletes its lock, and only then writes: a cancellation that
\* is requested in between is not lost (recoverExpired, transitionOperation).
RecoveryKeepsCancellation ==
    [][\A c \in Clients :
         RecoverRequeue(c) /\ row[proc[c].op].cancel => UNCHANGED row]_vars

\* The condition on the clearing of history: while a client clears it, nobody puts an
\* operation back that the client has found, be it a retry by hand, a recovery, or a lane
\* that stalled before it ended (clearCompleted deletes by operation id).
HistoryUndisturbed ==
    \A c \in Clients : proc[c].pc = "clear" =>
        \A p \in Procs : proc[p].pc \in {"retryWrite", "recoverRequeue", "requeueWrite"} =>
            proc[p].op \notin proc[c].todo

\* The queue implements the documented life cycle of an operation, as long as
\* HistoryUndisturbed: an operation that is put back in the middle of a clearing is deleted
\* while it waits or runs.
Lifecycle == INSTANCE OperationLifecycle
    WITH state <- [o \in Ops |-> row[o].state], attempt <- [o \in Ops |-> row[o].attempt]
ImplementsLifecycle == Lifecycle!Spec

-----------------------------------------------------------------------------
(* What holds as long as no process is suspended for longer than its lease,*)
(* no operation runs without heartbeats, and no retry by hand is disturbed.*)

\* The condition on retries by hand: when one puts an operation back, nobody who ended it
\* or put it back has yet to delete its lock (release deletes by operation id); and when it
\* clears the request to cancel, no client is carrying that request out (retry).
RetriesUndisturbed ==
    \A c \in Clients : \A p \in Procs \ {c} : proc[p].op = proc[c].op =>
        /\ proc[c].pc = "retryWrite" => proc[p].pc \notin {"requeueDelay", "release"}
        /\ proc[c].pc = "retryClear" /\ p \in Clients => proc[p].pc \notin {"finish", "write"}

Executing(l, o) == proc[l].pc = "run" /\ proc[l].op = o

\* Two lanes never execute the same operation, nor two operations with the same
\* resource lock (claim, heartbeat, recoverExpired, release).
HandlersExclusive ==
    \A l, m \in Lanes : \A o, q \in Ops :
        Executing(l, o) /\ Executing(m, q) /\ l # m =>
            o # q /\ (LockKey[o] # NoKey => LockKey[o] # LockKey[q])

\* From its claim until it has written the outcome, a lane has everything the claim gave
\* it: the operation is running, in its name, in the attempt it started, and the resource
\* lock is there.  So nobody else ends the operation or puts it back, and no result is
\* written for another attempt (heartbeat, finish, recoverExpired).
Executed(l, o) ==
    proc[l].op = o /\ proc[l].pc \in {"run", "finish", "write", "requeue", "requeueWrite"}
ExecutionIsCovered ==
    \A l \in Lanes : \A o \in Ops :
        Executed(l, o) =>
            /\ Owns(l, o) /\ row[o].leased /\ row[o].attempt = proc[l].try
            /\ LockKey[o] # NoKey => lock[LockKey[o]] = [op |-> o, live |-> TRUE]

\* No operation is started more often than its job allows (runOne, retry,
\* recoverExpired each compare an attempt they have read with max_attempts).
AttemptsBounded == \A o \in Ops : row[o].attempt <= MaxAttempts[o]

-----------------------------------------------------------------------------
(* What the queue does in the end, under Fairness.                         *)

\* Queued work with a job does not wait forever, whatever blocks it: locks and slots are
\* given back, backoffs end, and a worker that crashed is recovered from.
QueuedWorkMoves ==
    \A o \in Ops \ Tracked :
        (row[o].state = "queued" /\ job[o] # "none") ~> row[o].state # "queued"

\* No operation is left running: its lane ends it, or its lease lapses and a recovery
\* puts it back or fails it (runOne, recoverExpired).
RunningWorkEnds == \A o \in Ops : IsRunning(o) ~> ~IsRunning(o)
=============================================================================
