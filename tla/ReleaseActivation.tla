------------------------- MODULE ReleaseActivation -------------------------
(***************************************************************************)
(* Activation and rollback of the immutable releases of one resource:      *)
(* ReleaseStore, ReleaseService and the release queue handlers             *)
(* (release/*.ts), over the durable queue.                                 *)
(*                                                                         *)
(* Every operation of a release locks its resource, so at most one of them *)
(* runs: DurableQueue says when that holds.  A handler may outlive its     *)
(* operation: a cancellation or a time-out ends the operation and frees the*)
(* lock while the handler waits, and what the handler awaited goes on.  An *)
(* operation is named by its idempotency key, which is why enqueueing the  *)
(* same key again finds the old operation, whatever became of it.  The     *)
(* provider behind the release driver is external; all that is modelled of *)
(* it is which release it serves.                                          *)
(*                                                                         *)
(* A step is a read and the write it decides, or what runs between two     *)
(* awaits and writes one row.  All handlers run in one process, on one     *)
(* thread: between two awaits of one, no other does anything, but other    *)
(* processes may.                                                          *)
(*                                                                         *)
(* The operators named Mutant_... are wrong versions of the operators after*)
(* them; nothing uses them but the runs that show that a property notices. *)
(***************************************************************************)
EXTENDS Naturals, FiniteSets

CONSTANTS
    Releases,      \* the releases of the resource
    Clients,       \* processes that create, approve, activate and roll back
    LocalClients,  \* clients in the worker's own process, which share its thread
    Handlers,      \* bound of the model: so many handlers may be at work at a time
    Gated,         \* releases that need an approval
    NamedGates,    \* releases with a named health gate, asked after the driver
    AutoRollback,  \* releases with automatic_rollback = 1
    Cancellable,   \* releases whose operations somebody may cancel
    Faults,        \* what may go wrong, out of PossibleFaults
    MaxRollbacks,  \* bound of the model: a release rolled back so often is left at that
    MaxOperations, \* bound of the model: how many operations clients create
    None

\* "crash": the worker's process ends; "resolver": no driver can be had; "half_done": a
\* failing driver leaves the traffic with either release; "timeout": a handler is too slow.
PossibleFaults == {"crash", "resolver", "half_done", "timeout"}

ASSUME ReleaseAssumption ==
    /\ IsFiniteSet(Releases) /\ None \notin Releases
    /\ LocalClients \subseteq Clients
    /\ Gated \subseteq Releases /\ NamedGates \subseteq Releases /\ AutoRollback \subseteq Releases
    /\ Cancellable \subseteq Releases
    /\ Faults \subseteq PossibleFaults /\ MaxRollbacks \in Nat /\ MaxOperations \in Nat

VARIABLES
    status,     \* releases.status
    previous,   \* releases.previous_release_id: the active release at creation
    rollbacks,  \* releases.rollback_attempts
    op,         \* the operation of every idempotency key
    handler,    \* the handlers at work
    call,       \* the release a client has enqueued and not yet marked
    serving,    \* what the provider serves
    remarked    \* history: active releases marked activating by a client that had read before

vars == <<status, previous, rollbacks, op, handler, call, serving, remarked>>

Statuses == {"absent", "built", "awaiting_approval", "activating", "active", "failed",
             "rolled_back", "superseded"}

Keys == [kind : {"activate"}, of : Releases, arg : 0..MaxRollbacks]
          \cup [kind : {"automatic"}, of : Releases, arg : {None}]
          \cup [kind : {"manual"}, of : Releases, arg : Releases]

ActivationKey(r) == [kind |-> "activate", of |-> r, arg |-> rollbacks[r]]
AutomaticKey(r) == [kind |-> "automatic", of |-> r, arg |-> None]
ManualKey(r, t) == [kind |-> "manual", of |-> r, arg |-> t]

MaxAttempts(k) == IF k.kind = "activate" /\ k.of \in AutoRollback THEN 2 ELSE 1

Mutant_OneAttemptMore(k) == op[k].tries <= MaxAttempts(k)
AttemptsLeft(k) == op[k].tries < MaxAttempts(k)

OpStates == {"absent", "queued", "running", "succeeded", "failed", "cancelled"}
Resting == [pc |-> "idle", key |-> None, seen |-> "absent", result |-> "failed",
            awaited |-> FALSE, beside |-> FALSE]
NoCall == [of |-> None, read |-> FALSE]

\* The tables, the handler and the clients are well typed.
TypeOK ==
    /\ status \in [Releases -> Statuses]
    /\ previous \in [Releases -> Releases \cup {None}]
    /\ rollbacks \in [Releases -> 0..MaxRollbacks]
    /\ op \in [Keys -> [state : OpStates, tries : 0..2]]
    /\ handler \in [Handlers ->
                      [pc : {"idle", "drive", "health", "gate", "complete", "supersede", "fail",
                             "followUp", "record", "restore", "end"},
                       key : Keys \cup {None}, seen : Statuses,
                       result : {"succeeded", "failed", "queued"},
                       awaited : BOOLEAN, \* its operation waits for it
                       beside : BOOLEAN]] \* history: another one was at work when it began
    /\ call \in [Clients -> [of : Releases \cup {None}, read : BOOLEAN]]
    /\ serving \in Releases \cup {None}
    /\ remarked \subseteq Releases

Init ==
    /\ status = [r \in Releases |-> "absent"]
    /\ previous = [r \in Releases |-> None]
    /\ rollbacks = [r \in Releases |-> 0]
    /\ op = [k \in Keys |-> [state |-> "absent", tries |-> 0]]
    /\ handler = [h \in Handlers |-> Resting]
    /\ call = [c \in Clients |-> NoCall]
    /\ serving = None /\ remarked = {}

-----------------------------------------------------------------------------
(* ReleaseStore.                                                           *)

Allowed ==
    [s \in Statuses |->
        CASE s = "built"             -> {"awaiting_approval", "activating", "failed"}
          [] s = "awaiting_approval" -> {"built", "failed"}
          [] s = "activating"        -> {"active", "failed", "rolled_back"}
          [] s = "active"            -> {"superseded", "failed", "rolled_back"}
          [] s = "failed"            -> {"activating", "rolled_back"}
          [] s \in {"rolled_back", "superseded"} -> {"activating"}
          [] OTHER -> {}]

CanBecome(r, s) == s \in Allowed[status[r]]
Become(r, s) == status' = [status EXCEPT ![r] = s]

Active == {r \in Releases : status[r] = "active"}

\* The thread of the handlers is between two awaits of one of them.
Busy ==
    \E h \in Handlers :
      handler[h].pc \in {"complete", "supersede", "followUp", "record", "restore", "end"}

\* A client may begin a call.
Free(c) == /\ call[c] = NoCall
           /\ c \in LocalClients => ~Busy

\* create: the previous release is the one that is active now, not the one that will be
\* when this release is activated.
Create(c, r) ==
    /\ Free(c) /\ status[r] = "absent"
    /\ Become(r, IF r \in Gated THEN "awaiting_approval" ELSE "built")
    /\ \E p \in IF Active = {} THEN {None} ELSE Active : previous' = [previous EXCEPT ![r] = p]
    /\ UNCHANGED <<rollbacks, op, handler, call, serving, remarked>>

Approve(c, r) ==
    /\ Free(c) /\ status[r] = "awaiting_approval"
    /\ \E s \in {"built", "failed"} : Become(r, s)
    /\ UNCHANGED <<previous, rollbacks, op, handler, call, serving, remarked>>

-----------------------------------------------------------------------------
(* ReleaseService: an operation is created, or found again by its key; only*)
(* then is an activated release marked.                                    *)

Enqueued(k) ==
    IF op[k].state = "absent" THEN [op EXCEPT ![k].state = "queued"] ELSE op

Affordable(k) == op[k].state = "absent" =>
                   Cardinality({j \in Keys : op[j].state # "absent"}) < MaxOperations

RequestActivation(c, r) ==
    /\ Free(c)
    /\ status[r] \in {"built", "failed", "rolled_back", "superseded"}
    /\ Affordable(ActivationKey(r))
    /\ op' = Enqueued(ActivationKey(r))
    /\ IF c \in LocalClients
         THEN Become(r, "activating") /\ UNCHANGED call
         ELSE call' = [call EXCEPT ![c].of = r] /\ UNCHANGED status
    /\ UNCHANGED <<previous, rollbacks, handler, serving, remarked>>

\* The transition of a client in another process: it reads, and writes what it has read
\* to be allowed, whatever the release is by then.
MarkRead(c) ==
    /\ call[c].of # None /\ ~call[c].read
    /\ call' = [call EXCEPT ![c] = IF CanBecome(@.of, "activating") THEN [@ EXCEPT !.read = TRUE]
                                                                    ELSE NoCall]
    /\ UNCHANGED <<status, previous, rollbacks, op, handler, serving, remarked>>

MarkActivating(c) ==
    /\ call[c].read
    /\ Become(call[c].of, "activating")
    /\ remarked' = remarked \cup (Active \cap {call[c].of})
    /\ call' = [call EXCEPT ![c] = NoCall]
    /\ UNCHANGED <<previous, rollbacks, op, handler, serving>>

\* The target is given, or it is the previous release.
RequestRollback(c, r, t) ==
    /\ Free(c)
    /\ status[r] = "active"
    /\ status[t] \in {"superseded", "active"}
    /\ Affordable(ManualKey(r, t))
    /\ op' = Enqueued(ManualKey(r, t))
    /\ UNCHANGED <<status, previous, rollbacks, handler, call, serving, remarked>>

-----------------------------------------------------------------------------
(* The handlers.                                                           *)

Key(h) == handler[h].key
Target(k) == IF k.kind = "manual" THEN k.arg ELSE previous[k.of]
Wanted(h) == IF Key(h).kind = "activate" THEN Key(h).of ELSE Target(Key(h))
Proceed(h, pc) == handler' = [handler EXCEPT ![h].pc = pc]
Finish(h, result) == handler' = [handler EXCEPT ![h].pc = "end", ![h].result = result]

\* The queue starts an operation while no other one of the resource runs, whatever the
\* handlers do whose operations have been ended.  The handler reads the release and the
\* rollback target at once, and then waits for the driver.
Claim(h, k) ==
    /\ handler[h].pc = "idle" /\ ~Busy
    /\ \A j \in Keys : op[j].state # "running"
    /\ op[k].state = "queued"
    /\ op' = [op EXCEPT ![k] = [state |-> "running", tries |-> @.tries + 1]]
    /\ handler' = [handler EXCEPT ![h] =
                     [pc |-> IF k.kind # "activate" /\ Target(k) = k.of THEN "end" ELSE "drive",
                      key |-> k,
                      seen |-> IF Target(k) = None THEN "absent" ELSE status[Target(k)],
                      result |-> "failed", awaited |-> TRUE,
                      beside |-> \E g \in Handlers : handler[g].pc # "idle"]]
    /\ UNCHANGED <<status, previous, rollbacks, call, serving, remarked>>

\* A cancellation or a time-out ends the operation and frees its lock while the handler
\* waits for the driver or a named health gate.  Nothing stops the handler.
LetGo(h) ==
    /\ handler[h].pc \in {"drive", "health", "gate", "fail"} /\ handler[h].awaited /\ ~Busy
    /\ \E result \in (IF Key(h).of \in Cancellable THEN {"cancelled"} ELSE {})
                        \cup (IF "timeout" \in Faults THEN {"failed"} ELSE {}) :
         op' = [op EXCEPT ![Key(h)].state = result]
    /\ handler' = [handler EXCEPT ![h].awaited = FALSE]
    /\ UNCHANGED <<status, previous, rollbacks, call, serving, remarked>>

\* A checkpoint is refused to a handler whose operation does not run any more, unless it has
\* been taken up again: all handlers have one worker id.
StillRuns(k) == op[k].state = "running"

\* The handler ends before the driver is asked, outside of its try: the release is left as
\* it is.  A cancellation may have been requested, no driver is found, or the operation was
\* ended meanwhile.
StopBeforeDriver(h) ==
    /\ handler[h].pc = "drive" /\ ~Busy
    /\ Key(h).of \in Cancellable \/ "resolver" \in Faults \/ ~StillRuns(Key(h))
    /\ Finish(h, "failed")
    /\ UNCHANGED <<status, previous, rollbacks, op, call, serving, remarked>>

DriverSucceeds(h) ==
    /\ handler[h].pc = "drive"
    /\ serving' = Wanted(h)
    /\ Proceed(h, "health")
    /\ UNCHANGED <<status, previous, rollbacks, op, call, remarked>>

\* The driver throws, or reports that the release is not healthy.  What it throws may be
\* retryable.
DriverFails(h) ==
    /\ handler[h].pc = "drive"
    /\ serving' \in {serving} \cup (IF "half_done" \in Faults THEN {Wanted(h)} ELSE {})
    /\ \E result \in {"failed"} \cup (IF AttemptsLeft(Key(h)) THEN {"queued"} ELSE {}) :
         handler' = [handler EXCEPT ![h].pc = "fail", ![h].result = result]
    /\ UNCHANGED <<status, previous, rollbacks, op, call, remarked>>

\* The checkpoint after the driver, as the one before, is a heartbeat: it is refused when a
\* cancellation is written between its read and its write.
HealthCheckpoint(h) ==
    /\ handler[h].pc = "health" /\ ~Busy
    /\ \/ /\ StillRuns(Key(h))
          /\ Key(h).kind # "activate" => rollbacks[Key(h).of] < MaxRollbacks
          /\ Proceed(h, IF Key(h).kind # "activate" THEN "record"
                        ELSE IF Key(h).of \in NamedGates THEN "gate" ELSE "complete")
       \/ /\ ~StillRuns(Key(h)) \/ Key(h).of \in Cancellable
          /\ Finish(h, "failed")
    /\ UNCHANGED <<status, previous, rollbacks, op, call, serving, remarked>>

\* Nothing is checked between the answer of the named health gate and what it decides.
GateAnswers(h) ==
    /\ handler[h].pc = "gate" /\ ~Busy
    /\ \E pc \in {"complete", "fail"} : Proceed(h, pc)
    /\ UNCHANGED <<status, previous, rollbacks, op, call, serving, remarked>>

\* completeHealthGate(healthy), and the last step of a rollback: the transition to active
\* supersedes the active release by a statement of its own.
Mutant_NobodySuperseded(h) ==
    /\ handler[h].pc \in {"complete", "restore"}
    /\ IF CanBecome(Wanted(h), "active") THEN Proceed(h, "supersede") ELSE Finish(h, "failed")
    /\ UNCHANGED <<status, previous, rollbacks, op, call, serving, remarked>>
Supersede(h) ==
    /\ handler[h].pc \in {"complete", "restore"}
    /\ IF CanBecome(Wanted(h), "active")
         THEN /\ Proceed(h, "supersede")
              /\ \/ Active \subseteq {Wanted(h)} /\ UNCHANGED status
                 \/ \E p \in Active \ {Wanted(h)} : Become(p, "superseded")
         ELSE Finish(h, "failed") /\ UNCHANGED status
    /\ UNCHANGED <<previous, rollbacks, op, call, serving, remarked>>

SetActive(h) ==
    /\ handler[h].pc = "supersede"
    /\ Become(Wanted(h), "active") /\ remarked' = remarked \ {Wanted(h)}
    /\ Finish(h, "succeeded")
    /\ UNCHANGED <<previous, rollbacks, op, call, serving>>

\* completeHealthGate(unhealthy) for a release that is activating.  What the driver reports,
\* and does not throw, is looked at after the checkpoint.
FailRelease(h) ==
    /\ handler[h].pc = "fail" /\ ~Busy
    /\ \/ /\ Key(h).kind = "activate" /\ status[Key(h).of] = "activating"
          /\ Become(Key(h).of, "failed") /\ Proceed(h, "followUp")
       \/ /\ \/ Key(h).kind # "activate" \/ status[Key(h).of] # "activating"
             \/ ~StillRuns(Key(h))
          /\ Proceed(h, "end") /\ UNCHANGED status
    /\ UNCHANGED <<previous, rollbacks, op, call, serving, remarked>>

QueueAutomaticRollback(h) ==
    LET r == Key(h).of IN
    /\ handler[h].pc = "followUp"
    /\ op' = IF r \in AutoRollback /\ rollbacks[r] < 1 /\ previous[r] # None
               THEN Enqueued(AutomaticKey(r)) ELSE op
    /\ Proceed(h, "end")
    /\ UNCHANGED <<status, previous, rollbacks, call, serving, remarked>>

\* After a rollback of the provider: the release is rolled back, and its target, if it was
\* not active when the handler began, becomes active.
RecordRollback(h) ==
    LET r == Key(h).of
        Continue == IF handler[h].seen = "active" THEN Finish(h, "succeeded")
                                                  ELSE Proceed(h, "restore")
    IN
    /\ handler[h].pc = "record"
    /\ \/ /\ status[r] = "rolled_back"
          /\ Continue /\ UNCHANGED <<status, rollbacks>>
       \/ /\ CanBecome(r, "rolled_back")
          /\ Become(r, "rolled_back")
          /\ rollbacks' = [rollbacks EXCEPT ![r] = @ + 1]
          /\ Continue
       \/ /\ status[r] # "rolled_back" /\ ~CanBecome(r, "rolled_back")
          /\ Finish(h, "failed") /\ UNCHANGED <<status, rollbacks>>
    /\ UNCHANGED <<previous, op, call, serving, remarked>>

\* Only a target that was not activating when the handler began is marked activating.
RestoreTarget(h) ==
    /\ handler[h].pc = "restore" /\ handler[h].seen # "activating"
    /\ IF CanBecome(Wanted(h), "activating")
         THEN /\ Become(Wanted(h), "activating")
              /\ handler' = [handler EXCEPT ![h].seen = "activating"]
         ELSE Finish(h, "failed") /\ UNCHANGED status
    /\ UNCHANGED <<previous, rollbacks, op, call, serving, remarked>>

\* The queue writes the outcome, which is cancelled whatever the handler did if that was
\* requested in time.  What a handler says whose operation has been ended is dropped.
Mutant_EveryEndSucceeds(h) ==
    /\ handler[h].pc = "end"
    /\ op' = IF handler[h].awaited THEN [op EXCEPT ![Key(h)].state = "succeeded"] ELSE op
    /\ handler' = [handler EXCEPT ![h] = Resting]
    /\ UNCHANGED <<status, previous, rollbacks, call, serving, remarked>>
OperationEnds(h) ==
    /\ handler[h].pc = "end"
    /\ \/ /\ handler[h].awaited
          /\ \E result \in {handler[h].result}
                              \cup (IF Key(h).of \in Cancellable THEN {"cancelled"} ELSE {}) :
               op' = [op EXCEPT ![Key(h)].state = result]
       \/ ~handler[h].awaited /\ UNCHANGED op
    /\ handler' = [handler EXCEPT ![h] = Resting]
    /\ UNCHANGED <<status, previous, rollbacks, call, serving, remarked>>

-----------------------------------------------------------------------------
(* What the queue and the environment do to an operation.                  *)

CancelQueued(k) ==
    /\ k.of \in Cancellable /\ op[k].state = "queued"
    /\ op' = [op EXCEPT ![k].state = "cancelled"]
    /\ UNCHANGED <<status, previous, rollbacks, handler, call, serving, remarked>>

\* Manual retry of an operation whose job admits another attempt and names a class of
\* errors to retry: a rollback names none.
RetryOperation(k) ==
    /\ op[k].state \in {"failed", "cancelled"}
    /\ k.kind = "activate" /\ AttemptsLeft(k)
    /\ op' = [op EXCEPT ![k].state = "queued"]
    /\ UNCHANGED <<status, previous, rollbacks, handler, call, serving, remarked>>

Crash ==
    /\ "crash" \in Faults
    /\ \E h \in Handlers : handler[h].pc # "idle"
    /\ handler' = [h \in Handlers |-> Resting]
    /\ UNCHANGED <<status, previous, rollbacks, op, call, serving, remarked>>

\* recoverExpired, for an operation with resume policy 'fail'.
RecoverOperation(k) ==
    /\ op[k].state = "running"
    /\ \A h \in Handlers : Key(h) = k => ~handler[h].awaited
    /\ op' = [op EXCEPT ![k].state = "failed"]
    /\ UNCHANGED <<status, previous, rollbacks, handler, call, serving, remarked>>

ReleaseHandlerStep(h) ==
    \/ \E k \in Keys : Claim(h, k)
    \/ LetGo(h) \/ StopBeforeDriver(h) \/ DriverSucceeds(h) \/ DriverFails(h)
    \/ HealthCheckpoint(h) \/ GateAnswers(h) \/ Supersede(h) \/ SetActive(h) \/ FailRelease(h)
    \/ QueueAutomaticRollback(h) \/ RecordRollback(h) \/ RestoreTarget(h) \/ OperationEnds(h)

Next ==
    \/ \E c \in Clients, r \in Releases :
         \/ Create(c, r) \/ Approve(c, r) \/ RequestActivation(c, r)
         \/ \E t \in Releases : RequestRollback(c, r, t)
    \/ \E c \in Clients : MarkRead(c) \/ MarkActivating(c)
    \/ \E h \in Handlers : ReleaseHandlerStep(h)
    \/ \E k \in Keys : CancelQueued(k) \/ RetryOperation(k) \/ RecoverOperation(k)
    \/ Crash

Spec == Init /\ [][Next]_vars

-----------------------------------------------------------------------------
\* At most one release of the resource is active, although marking a release active and
\* superseding the one before are statements of their own (ReleaseStore.transition), and
\* although a handler that was given up may be at it beside the one of the next operation.
OneActive == Cardinality(Active) <= 1

\* An operation succeeds only if the provider serves the release it was to bring and the
\* store says so: what was activated is active; what was rolled back is rolled back and
\* its target active, unless a client has marked it activating meanwhile ("it never reports
\* a control-plane-only status change as a successful provider activation",
\* docs/features/releases.md).  That is said of an operation that began when no handler
\* given up before was still at work: such a handler may move the traffic at any time.
SuccessIsReal ==
    [][\A h \in Handlers :
         LET k == Key(h)
             r == IF k.kind = "activate" THEN k.of ELSE Target(k)
         IN  /\ handler[h].awaited /\ ~handler[h].beside
             /\ op[k].state # "succeeded" /\ op'[k].state = "succeeded"
             => /\ serving = r /\ (status[r] = "active" \/ r \in remarked)
                /\ k.kind # "activate" => status[k.of] \in {"rolled_back", "activating"}]_vars

\* A release that is activating is on its way: some client or handler is at work on it,
\* or an operation for it is waiting (the state has no other exit: enqueueActivation
\* refuses a release that is activating).
Pending(r) ==
    \E k \in Keys : /\ op[k].state \in {"queued", "running"}
                    /\ r = k.of \/ (k.kind # "activate" /\ r = Target(k))
ActivatingHasWork == \A r \in Releases : status[r] = "activating" => Pending(r)

\* When nothing is queued, running or half done, the provider serves the release the store
\* calls active ("A successful driver rollback marks the current release rolled_back and
\* restores the prior release to active", docs/features/releases.md).
Quiet == /\ \A k \in Keys : op[k].state \notin {"queued", "running"}
         /\ \A h \in Handlers : handler[h].pc = "idle"
         /\ \A c \in Clients : call[c] = NoCall
TrafficIsRecorded == Quiet /\ Active # {} => serving \in Active
=============================================================================
