-------------------------- MODULE ScheduledJobsProofs --------------------------
(***************************************************************************)
(* Theorems about ScheduledJobs, for any schedule, policies, attempts and  *)
(* number of processes and mishaps.                                        *)
(*                                                                         *)
(* A dead run has spent its attempts because a verdict is given on an      *)
(* attempt the operation has counted: also by an executor that answers     *)
(* after the operation has ended.  A run that was due has its operation    *)
(* before next_run_at moves because a row is attached to an operation that *)
(* exists, and operations are never deleted.                               *)
(***************************************************************************)
EXTENDS ScheduledJobs, TLAPS

RowType == [status : {"absent", "queued", "running", "succeeded", "failed", "skipped", "dead"},
            attached : BOOLEAN]
OpType == [state : {"absent", "queued", "running", "succeeded", "failed", "cancelled",
                    "timed_out"},
           tries : 0..RunAttempts, cancel : BOOLEAN, alone : BOOLEAN]
CallType == [pc : {"idle", "gone"} \cup Dispatching, via : {"tick", "external", "manual"},
             run : Runs \cup {NoRun}, due : Slots, at : Slots, plan : Plans]

\* An operation that may be claimed has an attempt left, a handler works on an attempt, and
\* an executor that was given up answers for an attempt its operation has counted.
AttemptsCounted ==
    \A r \in Runs :
        /\ jobOp[r].state \in {"absent", "queued"} => jobOp[r].tries < RunAttempts
        /\ executor[r] = "retry" => jobOp[r].tries < RunAttempts
        /\ executor[r] # "none" => jobOp[r].tries >= 1
        /\ \A a \in late[r] : a <= jobOp[r].tries

\* A call that dispatches knows its run; a tick dispatches slots.
CallKnowsRun ==
    \A d \in Dispatchers : dispatcher[d].pc \in Dispatching =>
        /\ dispatcher[d].run \in Runs
        /\ dispatcher[d].via = "tick" => dispatcher[d].run \in Slots

JobsTyped == JobsTypeOK /\ AttemptsCounted /\ CallKnowsRun

\* A dead run has spent its attempts.
DeadIsSpent == \A r \in Runs : execution[r].status = "dead" => jobOp[r].tries >= RunAttempts

\* A row is attached to an operation that exists.
AttachedExists == \A r \in Runs : execution[r].attached => jobOp[r].state # "absent"

\* What a call has established of its run when it comes to attach it, and to move on.
CallHasQueued ==
    \A d \in Dispatchers :
        /\ At(d, "skip") => dispatcher[d].plan.overlap = "forbid"
        /\ At(d, "attach") => jobOp[dispatcher[d].run].state # "absent"
        /\ At(d, "next") /\ dispatcher[d].plan.overlap # "forbid" =>
             jobOp[dispatcher[d].run].state # "absent"

JobsInv == JobsTyped /\ DeadIsSpent /\ AttachedExists /\ CallHasQueued

-----------------------------------------------------------------------------
(* What the helpers do.                                                    *)

\* A mishap is counted up to the bound of the model.
LEMMA MishapTyped == ASSUME JobsTypeOK, Mishap PROVE mishaps' \in 0..MaxMishaps
BY JobsAssumption DEF JobsTypeOK, Mishap, JobsAssumption

\* A process at rest, or gone, has a call of the right type.
LEMMA AtRestTyped ==
    /\ AtRest \in CallType /\ AtRest.pc = "idle" /\ AtRest.via = "tick"
    /\ \A v \in {"tick", "external", "manual"} :
         LET gone == [AtRest EXCEPT !.pc = "gone", !.via = v]
         IN gone \in CallType /\ gone.pc = "gone"
<1>1. (CHOOSE p \in Plans : TRUE) \in Plans
    BY JobsAssumption DEF JobsAssumption
<1>2. 0 \in Slots
    BY JobsAssumption DEF JobsAssumption, Slots
<1> QED
    BY <1>1, <1>2 DEF AtRest, CallType

\* The invariant speaks of each call separately: when one call changes, it is enough to look
\* at the call it becomes.
LEMMA CallChanges ==
    ASSUME JobsInv, NEW d \in Dispatchers, NEW c \in CallType,
           dispatcher' = [dispatcher EXCEPT ![d] = c],
           \A r \in Runs : jobOp[r].state # "absent" => jobOp'[r].state # "absent",
           c.pc \in Dispatching =>
             /\ c.run \in Runs /\ (c.via = "tick" => c.run \in Slots)
             /\ c.pc = "skip" => c.plan.overlap = "forbid"
             /\ c.pc = "attach" => jobOp'[c.run].state # "absent"
             /\ c.pc = "next" /\ c.plan.overlap # "forbid" => jobOp'[c.run].state # "absent"
    PROVE  dispatcher' \in [Dispatchers -> CallType] /\ CallKnowsRun' /\ CallHasQueued'
<1>1. dispatcher \in [Dispatchers -> CallType]
    BY DEF JobsInv, JobsTyped, JobsTypeOK, CallType
<1>2. dispatcher' \in [Dispatchers -> CallType]
    BY <1>1
<1>3. dispatcher'[d] = c /\ \A e \in Dispatchers \ {d} : dispatcher'[e] = dispatcher[e]
    BY <1>1
<1>4. CallKnowsRun'
    BY <1>3 DEF JobsInv, JobsTyped, CallKnowsRun
<1>5. CallHasQueued'
  <2> SUFFICES ASSUME NEW e \in Dispatchers
               PROVE  /\ dispatcher'[e].pc = "skip" => dispatcher'[e].plan.overlap = "forbid"
                      /\ dispatcher'[e].pc = "attach" =>
                           jobOp'[dispatcher'[e].run].state # "absent"
                      /\ dispatcher'[e].pc = "next" /\ dispatcher'[e].plan.overlap # "forbid" =>
                           jobOp'[dispatcher'[e].run].state # "absent"
      BY DEF CallHasQueued, At
  <2>1. CASE e = d
      BY <2>1, <1>3 DEF Dispatching
  <2>2. CASE e # d
    <3>1. dispatcher'[e] = dispatcher[e]
        BY <1>3, <2>2
    <3>2. dispatcher[e].pc \in Dispatching => dispatcher[e].run \in Runs
        BY DEF JobsInv, JobsTyped, CallKnowsRun
    <3> QED
        BY <3>1, <3>2 DEF JobsInv, CallHasQueued, At, Dispatching
  <2> QED
      BY <2>1, <2>2
<1> QED
    BY <1>2, <1>4, <1>5

\* A process rests.
LEMMA RestKeeps ==
    ASSUME JobsInv, NEW d \in Dispatchers, Rest(d), UNCHANGED jobOp
    PROVE  dispatcher' \in [Dispatchers -> CallType] /\ CallKnowsRun' /\ CallHasQueued'
<1> DEFINE c == IF d \in Tickers THEN AtRest
                ELSE [AtRest EXCEPT !.pc = "gone", !.via = dispatcher[d].via]
<1>1. dispatcher[d].via \in {"tick", "external", "manual"}
    BY DEF JobsInv, JobsTyped, JobsTypeOK
<1>2. c \in CallType /\ c.pc \in {"idle", "gone"}
    BY <1>1, AtRestTyped
<1>3. dispatcher' = [dispatcher EXCEPT ![d] = c]
    BY DEF Rest
<1>4. c.pc \notin Dispatching
    BY <1>2 DEF Dispatching
<1> HIDE DEF c
<1> QED
    BY <1>2, <1>3, <1>4, CallChanges

\* A call goes on at pc, with the run it has.
LEMMA GotoKeeps ==
    ASSUME JobsInv, NEW d \in Dispatchers, NEW pc \in Dispatching, Goto(d, pc),
           dispatcher[d].pc \in Dispatching,
           \A r \in Runs : jobOp[r].state # "absent" => jobOp'[r].state # "absent",
           pc = "skip" => dispatcher[d].plan.overlap = "forbid",
           pc = "attach" => jobOp'[dispatcher[d].run].state # "absent",
           pc = "next" /\ dispatcher[d].plan.overlap # "forbid" =>
             jobOp'[dispatcher[d].run].state # "absent"
    PROVE  dispatcher' \in [Dispatchers -> CallType] /\ CallKnowsRun' /\ CallHasQueued'
<1> DEFINE c == [dispatcher[d] EXCEPT !.pc = pc]
<1>1. dispatcher[d] \in CallType
    BY DEF JobsInv, JobsTyped, JobsTypeOK, CallType
<1>2. /\ c \in CallType /\ c.pc = pc /\ c.run = dispatcher[d].run
      /\ c.via = dispatcher[d].via /\ c.plan = dispatcher[d].plan
    BY <1>1 DEF CallType
<1>3. dispatcher' = [dispatcher EXCEPT ![d] = c]
    BY DEF Goto
<1>4. c.run \in Runs /\ (c.via = "tick" => c.run \in Slots)
    BY <1>2 DEF JobsInv, JobsTyped, CallKnowsRun
<1> HIDE DEF c
<1> QED
    BY <1>2, <1>3, <1>4, CallChanges

\* Calls that go on unchanged keep what they know while no operation goes away.
LEMMA CallsStay ==
    ASSUME JobsInv, UNCHANGED dispatcher,
           \A r \in Runs : jobOp[r].state # "absent" => jobOp'[r].state # "absent"
    PROVE  dispatcher' \in [Dispatchers -> CallType] /\ CallKnowsRun' /\ CallHasQueued'
<1>1. \A d \in Dispatchers : dispatcher[d].pc \in {"attach", "next"} => dispatcher[d].run \in Runs
    BY DEF JobsInv, JobsTyped, CallKnowsRun, Dispatching
<1>2. CallHasQueued'
    BY <1>1 DEF JobsInv, CallHasQueued, At
<1>3. CallKnowsRun'
    BY DEF JobsInv, JobsTyped, CallKnowsRun
<1> QED
    BY <1>2, <1>3 DEF JobsInv, JobsTyped, JobsTypeOK, CallType

\* requestCancellation ends a queued operation or marks a running one: no operation appears,
\* goes away or counts an attempt.
LEMMA CancelKeeps ==
    ASSUME JobsTyped, NEW x, jobOp' = CancelRequested(x)
    PROVE  /\ jobOp' \in [Runs -> OpType]
           /\ \A r \in Runs :
                /\ jobOp'[r].tries = jobOp[r].tries
                /\ jobOp'[r].state = "absent" <=> jobOp[r].state = "absent"
                /\ jobOp'[r].state = "queued" => jobOp[r].state = "queued"
<1>1. jobOp \in [Runs -> OpType]
    BY DEF JobsTyped, JobsTypeOK, OpType
<1>2. CASE x \notin Runs
  <2>1. jobOp' = jobOp
      BY <1>1, <1>2 DEF CancelRequested
  <2> QED
      BY <1>1, <2>1
<1>3. CASE x \in Runs
  <2>1. PICK o \in OpType : /\ jobOp' = [jobOp EXCEPT ![x] = o] /\ o.tries = jobOp[x].tries
                            /\ o.state = "absent" <=> jobOp[x].state = "absent"
                            /\ o.state = "queued" => jobOp[x].state = "queued"
    <3>0. jobOp[x] \in OpType
        BY <1>1, <1>3
    <3>1. CASE jobOp[x].state = "queued"
      <4> DEFINE o == [jobOp[x] EXCEPT !.state = "cancelled"]
      <4>1. jobOp' = [jobOp EXCEPT ![x] = o]
          BY <3>1 DEF CancelRequested
      <4>2. o \in OpType /\ o.tries = jobOp[x].tries /\ o.state = "cancelled"
          BY <3>0 DEF OpType
      <4> QED
          BY <4>1, <4>2, <3>1
    <3>2. CASE jobOp[x].state = "running"
      <4> DEFINE o == [jobOp[x] EXCEPT !.cancel = TRUE]
      <4>1. jobOp' = [jobOp EXCEPT ![x] = o]
          BY <3>2 DEF CancelRequested
      <4>2. o \in OpType /\ o.tries = jobOp[x].tries /\ o.state = "running"
          BY <3>0, <3>2 DEF OpType
      <4> QED
          BY <4>1, <4>2, <3>2
    <3>3. CASE jobOp[x].state \notin {"queued", "running"}
      <4>1. jobOp' = jobOp
          BY <3>3 DEF CancelRequested
      <4>2. jobOp' = [jobOp EXCEPT ![x] = jobOp[x]]
          BY <4>1, <1>1
      <4> QED
          BY <4>2, <3>0
    <3> QED
        BY <3>1, <3>2, <3>3
  <2> QED
      BY <1>1, <1>3, <2>1
<1> QED
    BY <1>2, <1>3

\* Verdicts and other writes leave the rows well typed.
LEMMA StatusTyped ==
    ASSUME JobsTypeOK, NEW run \in Runs,
           NEW s \in {"running", "succeeded", "failed", "dead"}, SetStatus(run, s)
    PROVE  /\ execution' \in [Runs -> RowType]
           /\ \A r \in Runs : execution'[r].attached = execution[r].attached
           /\ \A r \in Runs : execution'[r].status = "dead" =>
                execution[r].status = "dead" \/ (r = run /\ s = "dead")
<1>1. execution \in [Runs -> RowType]
    BY DEF JobsTypeOK, RowType
<1> DEFINE row == [execution[run] EXCEPT !.status = IF @ = "absent" THEN @ ELSE s]
<1>2. execution' = [execution EXCEPT ![run] = row]
    BY DEF SetStatus
<1>3. row \in RowType /\ row.attached = execution[run].attached
      /\ (row.status = "dead" => s = "dead" \/ execution[run].status = "dead")
    BY <1>1 DEF RowType
<1> HIDE DEF row
<1> QED
    BY <1>1, <1>2, <1>3

-----------------------------------------------------------------------------
(* The initial state, and every step.                                      *)

\* Nothing is dispatched initially.
LEMMA JobsInitInv == JobsInit => JobsInv
<1> SUFFICES ASSUME JobsInit PROVE JobsInv
    OBVIOUS
<1>1. /\ dispatcher \in [Dispatchers -> CallType]
      /\ \A d \in Dispatchers : dispatcher[d].pc = "idle"
    BY AtRestTyped DEF JobsInit
<1>2. JobsTypeOK
  <2>1. clock \in Slots /\ mishaps \in 0..MaxMishaps
      BY JobsAssumption DEF JobsInit, JobsAssumption, Slots
  <2>2. schedule \in [plan : Plans, exists : BOOLEAN, enabled : BOOLEAN, next : 0..LastSlot + 1]
      BY JobsAssumption DEF JobsInit, JobsAssumption
  <2>3. execution \in [Runs -> RowType] /\ history \in Seq(Runs)
      BY DEF JobsInit, RowType
  <2>4. /\ jobOp \in [Runs -> OpType]
        /\ executor \in [Runs -> {"none", "executing", "succeeded", "failed", "retry"}]
        /\ late \in [Runs -> SUBSET (1..RunAttempts)]
      BY JobsAssumption DEF JobsInit, JobsAssumption, OpType
  <2> QED
      BY <1>1, <2>1, <2>2, <2>3, <2>4 DEF JobsTypeOK, RowType, OpType, CallType
<1>3. AttemptsCounted
    BY JobsAssumption DEF JobsInit, JobsAssumption, AttemptsCounted
<1>4. CallKnowsRun /\ CallHasQueued
    BY <1>1 DEF CallKnowsRun, CallHasQueued, At, Dispatching
<1>5. DeadIsSpent /\ AttachedExists
    BY DEF JobsInit, DeadIsSpent, AttachedExists
<1> QED
    BY <1>2, <1>3, <1>4, <1>5 DEF JobsInv, JobsTyped

\* The calls of JobService read, write the row, enqueue, attach and move on.
LEMMA DispatchKeeps == ASSUME JobsInv, Dispatch PROVE JobsInv'
<1> USE DEF JobsInv, JobsTyped
<1>0. /\ dispatcher \in [Dispatchers -> CallType] /\ execution \in [Runs -> RowType]
      /\ jobOp \in [Runs -> OpType]
      /\ clock \in Slots
      /\ schedule \in [plan : Plans, exists : BOOLEAN, enabled : BOOLEAN, next : 0..LastSlot + 1]
    BY DEF JobsTypeOK, CallType, RowType, OpType
<1>1. ASSUME NEW d \in Dispatchers, TickReads(d) PROVE JobsInv'
  <2> DEFINE c == [pc |-> "look", via |-> "tick", run |-> schedule.next, due |-> schedule.next,
                   at |-> clock, plan |-> schedule.plan]
  <2>1. schedule.next \in Slots
      BY <1>0, <1>1, JobsAssumption DEF TickReads, Due, Slots, JobsAssumption
  <2>2. c \in CallType /\ dispatcher' = [dispatcher EXCEPT ![d] = c]
      BY <1>0, <1>1, <2>1 DEF TickReads, Begin, CallType, Runs, Dispatching
  <2>3. dispatcher' \in [Dispatchers -> CallType] /\ CallKnowsRun' /\ CallHasQueued'
      BY <1>1, <2>1, <2>2, CallChanges DEF TickReads, Runs
  <2> QED
      BY <1>1, <2>3 DEF TickReads, JobsTypeOK, AttemptsCounted, DeadIsSpent, AttachedExists,
                        CallType
<1>2. ASSUME NEW d \in Dispatchers, NEW slot \in Slots, DispatchSlot(d, slot) PROVE JobsInv'
  <2> DEFINE c == [pc |-> "look", via |-> "external", run |-> slot, due |-> slot,
                   at |-> slot, plan |-> schedule.plan]
  <2>2. c \in CallType /\ dispatcher' = [dispatcher EXCEPT ![d] = c]
      BY <1>0, <1>2 DEF DispatchSlot, Begin, CallType, Runs, Dispatching
  <2>3. dispatcher' \in [Dispatchers -> CallType] /\ CallKnowsRun' /\ CallHasQueued'
      BY <1>2, <2>2, CallChanges DEF DispatchSlot, Runs
  <2> QED
      BY <1>2, <2>3 DEF DispatchSlot, JobsTypeOK, AttemptsCounted, DeadIsSpent, AttachedExists,
                        CallType
<1>3. ASSUME NEW d \in Dispatchers, RunByHand(d) PROVE JobsInv'
  <2> DEFINE c == [pc |-> "look", via |-> "manual", run |-> d, due |-> 0,
                   at |-> 0, plan |-> schedule.plan]
  <2>1. d \in Runs /\ 0 \in Slots
      BY <1>3, JobsAssumption DEF RunByHand, Runs, Slots, JobsAssumption
  <2>2. c \in CallType /\ dispatcher' = [dispatcher EXCEPT ![d] = c]
      BY <1>0, <1>3, <2>1 DEF RunByHand, Begin, CallType, Dispatching
  <2>3. dispatcher' \in [Dispatchers -> CallType] /\ CallKnowsRun' /\ CallHasQueued'
      BY <1>3, <2>1, <2>2, CallChanges DEF RunByHand
  <2> QED
      BY <1>3, <2>3 DEF RunByHand, JobsTypeOK, AttemptsCounted, DeadIsSpent, AttachedExists,
                        CallType
<1>4. ASSUME NEW d \in Dispatchers, Look(d) PROVE JobsInv'
  <2>1. /\ jobOp' \in [Runs -> OpType]
        /\ \A r \in Runs : /\ jobOp'[r].tries = jobOp[r].tries
                           /\ jobOp'[r].state = "absent" <=> jobOp[r].state = "absent"
                           /\ jobOp'[r].state = "queued" => jobOp[r].state = "queued"
    <3>1. jobOp' = jobOp \/ jobOp' = CancelRequested(ActiveExecution)
        BY <1>4 DEF Look
    <3> QED
        BY <1>0, <3>1, CancelKeeps
  <2>2. PICK pc \in {"skip", "create"} :
          Goto(d, pc) /\ (pc = "skip" => dispatcher[d].plan.overlap = "forbid")
      BY <1>4 DEF Look
  <2>3. dispatcher' \in [Dispatchers -> CallType] /\ CallKnowsRun' /\ CallHasQueued'
      BY <1>4, <2>1, <2>2, GotoKeeps DEF Look, At, Dispatching
  <2> QED
      BY <1>4, <2>1, <2>3 DEF Look, JobsTypeOK, AttemptsCounted, DeadIsSpent, AttachedExists,
                              CallType, OpType
<1>5. ASSUME NEW d \in Dispatchers, CreateExecution(d) PROVE JobsInv'
  <2> DEFINE run == dispatcher[d].run
  <2>1. run \in Runs /\ dispatcher[d].pc \in Dispatching
      BY <1>5 DEF CreateExecution, At, Dispatching, CallKnowsRun
  <2>2. dispatcher' \in [Dispatchers -> CallType] /\ CallKnowsRun' /\ CallHasQueued'
    <3>1. CASE Rest(d)
        BY <1>5, <3>1, RestKeeps DEF CreateExecution
    <3>2. CASE Goto(d, "enqueue")
        BY <1>5, <2>1, <3>2, GotoKeeps DEF CreateExecution, Dispatching
    <3>3. CASE Goto(d, "next") /\ (HasOperation(run) \/ At(d, "skip"))
      <4>1. HasOperation(run) => jobOp[run].state # "absent"
          BY <2>1 DEF HasOperation, AttachedExists
      <4>2. At(d, "skip") => dispatcher[d].plan.overlap = "forbid"
          BY DEF CallHasQueued
      <4> QED
          BY <1>5, <2>1, <3>3, <4>1, <4>2, GotoKeeps DEF CreateExecution, Dispatching
    <3> QED
        BY <1>5, <3>1, <3>2, <3>3 DEF CreateExecution
  <2>3. /\ execution' \in [Runs -> RowType] /\ history' \in Seq(Runs)
        /\ \A r \in Runs : /\ execution'[r].attached = execution[r].attached
                           /\ execution'[r].status = "dead" => execution[r].status = "dead"
    <3>1. CASE UNCHANGED <<execution, history>>
        BY <1>0, <3>1 DEF JobsTypeOK
    <3>2. ASSUME NEW s \in {"skipped", "queued"},
                 execution' = [execution EXCEPT ![run].status = s], history' = Append(history, run)
          PROVE  <2>3!1
      <4>1. history' \in Seq(Runs)
          BY <2>1, <3>2 DEF JobsTypeOK
      <4> DEFINE row == [execution[run] EXCEPT !.status = s]
      <4>2. execution' = [execution EXCEPT ![run] = row]
          BY <3>2
      <4>3. row \in RowType /\ row.status = s /\ row.attached = execution[run].attached
          BY <1>0, <2>1, <3>2 DEF RowType
      <4> HIDE DEF row, run
      <4> QED
          BY <1>0, <4>1, <4>2, <4>3, <2>1
    <3>3. \/ UNCHANGED <<execution, history>>
          \/ /\ \/ execution' = [execution EXCEPT ![run].status = "skipped"]
                \/ execution' = [execution EXCEPT ![run].status = "queued"]
             /\ history' = Append(history, run)
      <4>1. CASE At(d, "skip")
          BY <1>5, <4>1 DEF CreateExecution
      <4>2. CASE ~At(d, "skip")
          BY <1>5, <4>2 DEF CreateExecution
      <4> QED
          BY <4>1, <4>2
    <3> QED
      <4>1. CASE UNCHANGED <<execution, history>>
          BY <3>1, <4>1
      <4>2. CASE /\ execution' = [execution EXCEPT ![run].status = "skipped"]
                 /\ history' = Append(history, run)
          BY <3>2, <4>2
      <4>3. CASE /\ execution' = [execution EXCEPT ![run].status = "queued"]
                 /\ history' = Append(history, run)
          BY <3>2, <4>3
      <4> QED
          BY <3>3, <4>1, <4>2, <4>3
  <2> QED
      BY <1>5, <2>2, <2>3 DEF CreateExecution, JobsTypeOK, AttemptsCounted, DeadIsSpent,
                              AttachedExists, CallType, RowType
<1>6. ASSUME NEW d \in Dispatchers, EnqueueRun(d) PROVE JobsInv'
  <2> DEFINE run == dispatcher[d].run
  <2>1. run \in Runs /\ dispatcher[d].pc \in Dispatching
      BY <1>6 DEF EnqueueRun, At, Dispatching, CallKnowsRun
  <2>2. /\ jobOp' \in [Runs -> OpType]
        /\ \A r \in Runs : /\ jobOp'[r].tries = jobOp[r].tries
                           /\ jobOp[r].state # "absent" => jobOp'[r].state # "absent"
                           /\ jobOp'[r].state \in {"absent", "queued"} =>
                                jobOp[r].state \in {"absent", "queued"}
        /\ jobOp'[run].state # "absent"
    <3>1. CASE jobOp[run].state # "absent"
        BY <1>0, <1>6, <3>1 DEF EnqueueRun
    <3>2. CASE jobOp[run].state = "absent"
      <4> DEFINE o == [jobOp[run] EXCEPT !.state = "queued",
                                         !.alone = dispatcher[d].plan.overlap # "allow"]
      <4>1. jobOp' = [jobOp EXCEPT ![run] = o]
          BY <1>6, <3>2 DEF EnqueueRun
      <4>2. o \in OpType /\ o.tries = jobOp[run].tries /\ o.state = "queued"
          BY ZenonT(30), <1>0, <2>1 DEF OpType
      <4> HIDE DEF o, run
      <4> QED
          BY <1>0, <2>1, <3>2, <4>1, <4>2
    <3> QED
        BY <3>1, <3>2
  <2>3. dispatcher' \in [Dispatchers -> CallType] /\ CallKnowsRun' /\ CallHasQueued'
      BY <1>6, <2>1, <2>2, GotoKeeps DEF EnqueueRun, Dispatching
  <2>4. AttemptsCounted'
      BY <1>6, <2>2 DEF EnqueueRun, AttemptsCounted
  <2> QED
      BY <1>6, <2>2, <2>3, <2>4 DEF EnqueueRun, JobsTypeOK, DeadIsSpent, AttachedExists,
                                    CallType, OpType
<1>7. ASSUME NEW d \in Dispatchers, AttachOperation(d) PROVE JobsInv'
  <2> DEFINE run == dispatcher[d].run
             row == [execution[run] EXCEPT !.attached = execution[run].status # "absent"]
  <2>1. run \in Runs /\ dispatcher[d].pc \in Dispatching /\ jobOp[run].state # "absent"
      BY <1>7 DEF AttachOperation, At, Dispatching, CallKnowsRun, CallHasQueued
  <2>2. dispatcher' \in [Dispatchers -> CallType] /\ CallKnowsRun' /\ CallHasQueued'
      BY <1>7, <2>1, GotoKeeps DEF AttachOperation, Dispatching
  <2>3. execution' = [execution EXCEPT ![run] = row]
      BY <1>7 DEF AttachOperation
  <2>4. row \in RowType /\ row.status = execution[run].status
      BY <1>0, <2>1 DEF RowType
  <2>5. execution' \in [Runs -> RowType]
      BY <1>0, <2>3, <2>4
  <2>6. \A r \in Runs : /\ execution'[r].status = execution[r].status
                        /\ r # run => execution'[r].attached = execution[r].attached
      BY <1>0, <2>3, <2>4
  <2> QED
      BY <1>7, <2>1, <2>2, <2>5, <2>6 DEF AttachOperation, JobsTypeOK, AttemptsCounted,
                                     DeadIsSpent, AttachedExists, CallType, RowType
<1>8. ASSUME NEW d \in Dispatchers, NextRun(d) PROVE JobsInv'
  <2>1. /\ dispatcher[d] \in CallType /\ dispatcher[d].run \in Runs
        /\ dispatcher[d].via = "tick" => dispatcher[d].run \in Slots
      BY <1>0, <1>8 DEF NextRun, At, Dispatching, CallKnowsRun
  <2>2. dispatcher' \in [Dispatchers -> CallType] /\ CallKnowsRun' /\ CallHasQueued'
    <3>1. CASE Rest(d)
        BY <1>8, <3>1, RestKeeps DEF NextRun
    <3>2. CASE CatchesUp(d) /\ dispatcher' = [dispatcher EXCEPT ![d].pc = "look", ![d].run = @ + 1]
      <4> DEFINE c == [dispatcher[d] EXCEPT !.pc = "look", !.run = @ + 1]
      <4>1. dispatcher' = [dispatcher EXCEPT ![d] = c]
          BY <3>2
      <4>2. dispatcher[d].run + 1 \in Slots
          BY <2>1, <3>2, JobsAssumption DEF CatchesUp, Slots, CallType, JobsAssumption
      <4>3. c \in CallType /\ c.pc = "look" /\ c.run \in Slots
          BY <2>1, <4>2 DEF CallType, Runs, Dispatching
      <4> HIDE DEF c
      <4> QED
          BY <1>8, <4>1, <4>3, CallChanges DEF NextRun, Runs
    <3> QED
        BY <1>8, <3>1, <3>2 DEF NextRun
  <2>3. schedule' \in [plan : Plans, exists : BOOLEAN, enabled : BOOLEAN, next : 0..LastSlot + 1]
      BY <1>0, <1>8, <2>1, JobsAssumption DEF NextRun, CallType, Slots, JobsAssumption
  <2> QED
      BY <1>8, <2>2, <2>3 DEF NextRun, JobsTypeOK, AttemptsCounted, DeadIsSpent, AttachedExists,
                              CallType
<1>9. ASSUME NEW d \in Dispatchers, Abandon(d) PROVE JobsInv'
  <2>1. dispatcher' \in [Dispatchers -> CallType] /\ CallKnowsRun' /\ CallHasQueued'
      BY <1>9, RestKeeps DEF Abandon
  <2> QED
      BY <1>9, <2>1, MishapTyped DEF Abandon, JobsTypeOK, AttemptsCounted, DeadIsSpent,
                                     AttachedExists, CallType
<1> QED
    BY <1>1, <1>2, <1>3, <1>4, <1>5, <1>6, <1>7, <1>8, <1>9 DEF Dispatch, DispatchStep

\* Operators edit the schedule; a removed job takes its rows with it.
LEMMA EditKeeps == ASSUME JobsInv, Edit PROVE JobsInv'
<1> USE DEF JobsInv, JobsTyped
<1>1. UNCHANGED <<jobOp, executor, late, dispatcher>>
    BY DEF Edit, TimePasses, SetEnabled, UpdateSchedule, RemoveJob
<1>2. dispatcher' \in [Dispatchers -> CallType] /\ CallKnowsRun' /\ CallHasQueued'
    BY <1>1, CallsStay
<1>3. AttemptsCounted'
    BY <1>1 DEF AttemptsCounted
<1>4. CASE TimePasses \/ SetEnabled \/ UpdateSchedule
  <2>0. clock \in 0..LastSlot /\ mishaps \in 0..MaxMishaps /\ LastSlot \in Nat
      BY JobsAssumption DEF JobsTypeOK, Slots, JobsAssumption
  <2>1. clock' \in Slots /\ mishaps' \in 0..MaxMishaps
    <3>1. CASE TimePasses
        BY <2>0, <3>1 DEF TimePasses, Slots
    <3>2. CASE SetEnabled \/ UpdateSchedule
        BY <2>0, <3>2, MishapTyped DEF SetEnabled, UpdateSchedule, Slots
    <3> QED
        BY <1>4, <3>1, <3>2
  <2>2. schedule' \in [plan : Plans, exists : BOOLEAN, enabled : BOOLEAN, next : 0..LastSlot + 1]
    <3>1. CASE TimePasses
        BY <3>1 DEF TimePasses, JobsTypeOK
    <3>2. CASE SetEnabled
        BY <3>2 DEF SetEnabled, JobsTypeOK
    <3>3. CASE UpdateSchedule
      <4>1. PICK p \in Plans : schedule' = [schedule EXCEPT !.plan = p, !.next = clock + 1]
          BY <3>3 DEF UpdateSchedule
      <4>2. clock + 1 \in 0..LastSlot + 1
          BY <2>0
      <4> QED
          BY <4>1, <4>2 DEF JobsTypeOK
    <3> QED
        BY <1>4, <3>1, <3>2, <3>3
  <2>3. UNCHANGED <<execution, history>>
      BY <1>4 DEF TimePasses, SetEnabled, UpdateSchedule
  <2> QED
      BY <1>1, <1>2, <1>3, <2>1, <2>2, <2>3 DEF JobsTypeOK, DeadIsSpent, AttachedExists
<1>5. CASE RemoveJob
  <2>1. mishaps' \in 0..MaxMishaps
      BY <1>5, MishapTyped DEF RemoveJob
  <2>2. execution' \in [Runs -> RowType] /\ history' \in Seq(Runs)
      BY <1>5 DEF RemoveJob, RowType
  <2>3. schedule' \in [plan : Plans, exists : BOOLEAN, enabled : BOOLEAN, next : 0..LastSlot + 1]
      BY <1>5 DEF RemoveJob, JobsTypeOK
  <2>4. DeadIsSpent' /\ AttachedExists'
      BY <1>5 DEF RemoveJob, DeadIsSpent, AttachedExists
  <2> QED
      BY <1>1, <1>2, <1>3, <1>5, <2>1, <2>2, <2>3, <2>4 DEF RemoveJob, JobsTypeOK, RowType
<1> QED
    BY <1>4, <1>5 DEF Edit

\* The handler runs and answers, the queue ends the operation, gives the executor up,
\* retries or recovers: attempts are only counted upwards.
LEMMA ExecuteKeeps == ASSUME JobsInv, Execute PROVE JobsInv'
<1> USE DEF JobsInv, JobsTyped
<1> DEFINE Pcs == {"none", "executing", "succeeded", "failed", "retry"}
<1>0. /\ jobOp \in [Runs -> OpType] /\ execution \in [Runs -> RowType]
      /\ executor \in [Runs -> Pcs] /\ late \in [Runs -> SUBSET (1..RunAttempts)]
      /\ RunAttempts \in Nat \ {0}
    BY JobsAssumption DEF JobsTypeOK, OpType, RowType, JobsAssumption
<1>1. ASSUME NEW run \in Runs, ClaimRun(run) PROVE JobsInv'
  <2> DEFINE o == [jobOp[run] EXCEPT !.state = "running", !.tries = @ + 1]
  <2>1. jobOp[run].tries < RunAttempts
      BY <1>1 DEF ClaimRun, AttemptsCounted
  <2>2. jobOp' = [jobOp EXCEPT ![run] = o]
      BY <1>1 DEF ClaimRun
  <2>0. jobOp[run] \in OpType /\ jobOp[run].tries + 1 \in 0..RunAttempts
      BY <1>0, <2>1 DEF OpType
  <2>3. o \in OpType /\ o.state = "running" /\ o.tries = jobOp[run].tries + 1
      BY <2>0 DEF OpType
  <2> HIDE DEF o
  <2>4. /\ jobOp' \in [Runs -> OpType]
        /\ \A r \in Runs : /\ r # run => jobOp'[r] = jobOp[r]
                           /\ jobOp'[r].tries >= jobOp[r].tries
                           /\ jobOp[r].state # "absent" => jobOp'[r].state # "absent"
        /\ jobOp'[run].state = "running" /\ jobOp'[run].tries >= 1
    <3>1. jobOp' \in [Runs -> OpType] /\ jobOp'[run] = o
          /\ \A r \in Runs \ {run} : jobOp'[r] = jobOp[r]
        BY <1>0, <2>2, <2>3
    <3> QED
        BY <1>0, <2>3, <3>1 DEF OpType
  <2>5. executor' \in [Runs -> Pcs] /\ executor'[run] \in {"failed", "executing"}
        /\ \A r \in Runs \ {run} : executor'[r] = executor[r]
      BY <1>0, <1>1 DEF ClaimRun, HandlerAt
  <2>6. /\ execution' \in [Runs -> RowType]
        /\ \A r \in Runs : execution'[r].attached = execution[r].attached
        /\ \A r \in Runs : execution'[r].status = "dead" => execution[r].status = "dead"
      BY <1>1, StatusTyped DEF ClaimRun
  <2>7. dispatcher' \in [Dispatchers -> CallType] /\ CallKnowsRun' /\ CallHasQueued'
      BY <1>1, <2>4, CallsStay DEF ClaimRun
  <2>8. AttemptsCounted'
    <3> SUFFICES ASSUME NEW r \in Runs
                 PROVE  /\ jobOp'[r].state \in {"absent", "queued"} =>
                             jobOp'[r].tries < RunAttempts
                        /\ executor'[r] = "retry" => jobOp'[r].tries < RunAttempts
                        /\ executor'[r] # "none" => jobOp'[r].tries >= 1
                        /\ \A a \in late'[r] : a <= jobOp'[r].tries
        BY DEF AttemptsCounted
    <3>1. \A a \in late'[r] : a <= jobOp'[r].tries
        BY <1>0, <1>1, <2>4 DEF ClaimRun, AttemptsCounted, OpType
    <3>2. CASE r = run
        BY <2>4, <2>5, <3>1, <3>2
    <3>3. CASE r # run
        BY <2>4, <2>5, <3>1, <3>3 DEF AttemptsCounted
    <3> QED
        BY <3>2, <3>3
  <2>9. DeadIsSpent'
      BY <1>0, <2>4, <2>6 DEF DeadIsSpent, OpType
  <2> QED
      BY <1>1, <2>4, <2>5, <2>6, <2>7, <2>8, <2>9
      DEF ClaimRun, JobsTypeOK, AttachedExists, OpType, RowType, CallType
<1>2. ASSUME NEW run \in Runs, ExecutorAnswers(run) PROVE JobsInv'
  <2>1. PICK s \in {"succeeded", "failed", "dead"} :
          SetStatus(run, s) /\ (s = "dead" => jobOp[run].tries >= RunAttempts)
      BY <1>2 DEF ExecutorAnswers, Verdict
  <2>2. /\ execution' \in [Runs -> RowType]
        /\ \A r \in Runs : execution'[r].attached = execution[r].attached
        /\ \A r \in Runs : execution'[r].status = "dead" =>
             execution[r].status = "dead" \/ (r = run /\ s = "dead")
      BY <2>1, StatusTyped
  <2>3. PICK how \in {"succeeded", "failed", "retry"} :
          HandlerAt(run, how) /\ (how = "retry" => jobOp[run].tries < RunAttempts)
      BY <1>2 DEF ExecutorAnswers, AttemptLeft
  <2>4. executor' \in [Runs -> Pcs] /\ executor'[run] = how
        /\ \A r \in Runs \ {run} : executor'[r] = executor[r]
      BY <1>0, <2>3 DEF HandlerAt
  <2>5. executor[run] = "executing" /\ UNCHANGED <<jobOp, late, dispatcher, clock, schedule,
                                                   history, mishaps>>
      BY <1>2 DEF ExecutorAnswers
  <2>6. AttemptsCounted'
      BY <2>3, <2>4, <2>5 DEF AttemptsCounted
  <2>7. dispatcher' \in [Dispatchers -> CallType] /\ CallKnowsRun' /\ CallHasQueued'
      BY <2>5, CallsStay
  <2>8. DeadIsSpent' /\ AttachedExists'
      BY <2>1, <2>2, <2>5 DEF DeadIsSpent, AttachedExists
  <2> QED
      BY <2>2, <2>4, <2>5, <2>6, <2>7, <2>8 DEF JobsTypeOK, RowType, CallType
<1>3. ASSUME NEW run \in Runs, UNCHANGED <<clock, schedule, execution, history>>,
             UNCHANGED dispatcher,
             NEW o \in OpType, jobOp' = [jobOp EXCEPT ![run] = o],
             o.tries = jobOp[run].tries, o.state # "absent",
             o.state = "queued" => o.tries < RunAttempts,
             UNCHANGED executor \/ executor' = [executor EXCEPT ![run] = "none"],
             \/ UNCHANGED late
             \/ late' = [late EXCEPT ![run] = @ \cup {jobOp[run].tries}] /\ executor[run] # "none",
             mishaps' \in 0..MaxMishaps
      PROVE  JobsInv'
  <2>1. jobOp' \in [Runs -> OpType] /\ jobOp'[run] = o
        /\ \A r \in Runs \ {run} : jobOp'[r] = jobOp[r]
      BY <1>0, <1>3
  <2>2. executor' \in [Runs -> Pcs] /\ \A r \in Runs : executor'[r] \in {executor[r], "none"}
      BY <1>0, <1>3
  <2>3. /\ late' \in [Runs -> SUBSET (1..RunAttempts)]
        /\ \A r \in Runs : \A a \in late'[r] : a <= jobOp[r].tries
    <3>1. CASE UNCHANGED late
        BY <1>0, <3>1 DEF AttemptsCounted
    <3>2. CASE late' = [late EXCEPT ![run] = @ \cup {jobOp[run].tries}] /\ executor[run] # "none"
      <4>1. jobOp[run].tries \in 1..RunAttempts
          BY <1>0, <3>2 DEF AttemptsCounted, OpType
      <4>2. /\ late'[run] = late[run] \cup {jobOp[run].tries}
            /\ \A r \in Runs \ {run} : late'[r] = late[r]
            /\ late' \in [Runs -> SUBSET (1..RunAttempts)]
          BY <1>0, <3>2, <4>1
      <4> QED
          BY <4>1, <4>2 DEF AttemptsCounted
    <3> QED
        BY <1>3, <3>1, <3>2
  <2>4. \A r \in Runs : /\ jobOp'[r].tries = jobOp[r].tries
                        /\ jobOp[r].state # "absent" => jobOp'[r].state # "absent"
                        /\ jobOp'[r].state \in {"absent", "queued"} =>
                             jobOp'[r].tries < RunAttempts
      BY <1>3, <2>1 DEF AttemptsCounted
  <2>5. AttemptsCounted'
      BY <2>2, <2>3, <2>4 DEF AttemptsCounted
  <2>6. dispatcher' \in [Dispatchers -> CallType] /\ CallKnowsRun' /\ CallHasQueued'
      BY <1>3, <2>4, CallsStay
  <2>7. DeadIsSpent' /\ AttachedExists'
      BY <1>3, <2>4 DEF DeadIsSpent, AttachedExists
  <2> QED
      BY <1>3, <2>1, <2>2, <2>3, <2>5, <2>6, <2>7 DEF JobsTypeOK, OpType, CallType
<1>4. mishaps \in 0..MaxMishaps
    BY DEF JobsTypeOK
<1>5. ASSUME NEW run \in Runs, EndOperation(run) PROVE JobsInv'
  <2> DEFINE o == [jobOp[run] EXCEPT !.state = Outcome(run)]
  <2>1. /\ Outcome(run) \in {"cancelled", "succeeded", "queued", "failed"}
        /\ Outcome(run) = "queued" => jobOp[run].tries < RunAttempts
      BY DEF Outcome, AttemptsCounted
  <2>2. o \in OpType /\ o.tries = jobOp[run].tries /\ o.state = Outcome(run)
      BY <1>0, <2>1 DEF OpType
  <2>3. jobOp' = [jobOp EXCEPT ![run] = o]
      BY <1>5 DEF EndOperation
  <2> HIDE DEF o
  <2> QED
      BY <1>3, <1>4, <1>5, <2>1, <2>2, <2>3 DEF EndOperation, HandlerAt
<1>6. ASSUME NEW run \in Runs, GiveUp(run) PROVE JobsInv'
  <2>1. PICK s \in {"cancelled", "timed_out"} : jobOp' = [jobOp EXCEPT ![run].state = s]
      BY <1>6 DEF GiveUp
  <2> DEFINE o == [jobOp[run] EXCEPT !.state = s]
  <2>2. o \in OpType /\ o.tries = jobOp[run].tries /\ o.state = s
      BY <1>0, <2>1 DEF OpType
  <2>3. jobOp' = [jobOp EXCEPT ![run] = o]
      BY <2>1
  <2>4. mishaps' \in 0..MaxMishaps
      BY <1>4, <1>6, MishapTyped DEF GiveUp
  <2> HIDE DEF o
  <2> QED
      BY <1>3, <1>6, <2>1, <2>2, <2>3, <2>4 DEF GiveUp, HandlerAt
<1>7. ASSUME NEW run \in Runs, NEW attempt \in late[run], AnswersLate(run, attempt) PROVE JobsInv'
  <2>1. PICK s \in {"succeeded", "failed", "dead"} :
          SetStatus(run, s) /\ (s = "dead" => attempt >= RunAttempts)
      BY <1>7 DEF AnswersLate, Verdict
  <2>2. /\ execution' \in [Runs -> RowType]
        /\ \A r \in Runs : execution'[r].attached = execution[r].attached
        /\ \A r \in Runs : execution'[r].status = "dead" =>
             execution[r].status = "dead" \/ (r = run /\ s = "dead")
      BY <2>1, StatusTyped
  <2>3. /\ attempt \in 1..RunAttempts /\ attempt <= jobOp[run].tries
        /\ jobOp[run].tries \in 0..RunAttempts
      BY <1>0 DEF AttemptsCounted, OpType
  <2>4. late' \in [Runs -> SUBSET (1..RunAttempts)] /\ \A r \in Runs : late'[r] \subseteq late[r]
      BY <1>0, <1>7 DEF AnswersLate
  <2>5. UNCHANGED <<jobOp, executor, dispatcher, clock, schedule, history, mishaps>>
      BY <1>7 DEF AnswersLate
  <2>6. AttemptsCounted'
      BY <2>4, <2>5 DEF AttemptsCounted
  <2>7. dispatcher' \in [Dispatchers -> CallType] /\ CallKnowsRun' /\ CallHasQueued'
      BY <2>5, CallsStay
  <2>8. s = "dead" => jobOp[run].tries >= RunAttempts
      BY <1>0, <2>1, <2>3
  <2>9. DeadIsSpent' /\ AttachedExists'
      BY <2>8, <2>2, <2>5 DEF DeadIsSpent, AttachedExists
  <2> QED
      BY <2>2, <2>4, <2>5, <2>6, <2>7, <2>9 DEF JobsTypeOK, RowType, CallType
<1>8. ASSUME NEW run \in Runs, UserCancels(run) PROVE JobsInv'
  <2>1. /\ jobOp' \in [Runs -> OpType]
        /\ \A r \in Runs : /\ jobOp'[r].tries = jobOp[r].tries
                           /\ jobOp'[r].state = "absent" <=> jobOp[r].state = "absent"
                           /\ jobOp'[r].state = "queued" => jobOp[r].state = "queued"
      BY <1>8, CancelKeeps DEF UserCancels
  <2>2. dispatcher' \in [Dispatchers -> CallType] /\ CallKnowsRun' /\ CallHasQueued'
      BY <1>8, <2>1, CallsStay DEF UserCancels
  <2>3. AttemptsCounted'
      BY <1>8, <2>1 DEF UserCancels, AttemptsCounted
  <2>4. DeadIsSpent' /\ AttachedExists'
      BY <1>8, <2>1 DEF UserCancels, DeadIsSpent, AttachedExists
  <2> QED
      BY <1>8, <2>1, <2>2, <2>3, <2>4, MishapTyped DEF UserCancels, JobsTypeOK, OpType, CallType
<1>9. ASSUME NEW run \in Runs, RetryByHand(run) PROVE JobsInv'
  <2> DEFINE o == [jobOp[run] EXCEPT !.state = "queued", !.cancel = FALSE]
  <2>1. o \in OpType /\ o.tries = jobOp[run].tries /\ o.state = "queued"
      BY <1>0 DEF OpType
  <2>2. jobOp' = [jobOp EXCEPT ![run] = o] /\ jobOp[run].tries < RunAttempts
      BY <1>9 DEF RetryByHand, AttemptLeft
  <2> HIDE DEF o
  <2> QED
      BY <1>3, <1>9, <2>1, <2>2, MishapTyped DEF RetryByHand
<1>10. CASE WorkerCrashes
  <2>1. /\ executor' \in [Runs -> Pcs] /\ late' \in [Runs -> SUBSET (1..RunAttempts)]
        /\ \A r \in Runs : executor'[r] = "none" /\ late'[r] = {}
        /\ UNCHANGED <<clock, schedule, execution, history, jobOp, dispatcher>>
        /\ mishaps' \in 0..MaxMishaps
      BY <1>10, MishapTyped DEF WorkerCrashes
  <2>2. AttemptsCounted'
      BY <2>1 DEF AttemptsCounted
  <2>3. dispatcher' \in [Dispatchers -> CallType] /\ CallKnowsRun' /\ CallHasQueued'
      BY <2>1, CallsStay
  <2> QED
      BY <2>1, <2>2, <2>3 DEF JobsTypeOK, DeadIsSpent, AttachedExists, CallType
<1>11. ASSUME NEW run \in Runs, Recover(run) PROVE JobsInv'
  <2> DEFINE s == CASE jobOp[run].cancel -> "cancelled"
                    [] AttemptLeft(run)  -> "queued"
                    [] OTHER             -> "failed"
  <2>1. /\ jobOp' = [jobOp EXCEPT ![run].state = s]
        /\ s \in {"cancelled", "queued", "failed"}
        /\ s = "queued" => jobOp[run].tries < RunAttempts
      BY <1>11 DEF Recover, AttemptLeft
  <2> HIDE DEF s
  <2> DEFINE o == [jobOp[run] EXCEPT !.state = s]
  <2>2. o \in OpType /\ o.tries = jobOp[run].tries /\ o.state = s
      BY <1>0, <2>1 DEF OpType
  <2>3. jobOp' = [jobOp EXCEPT ![run] = o]
      BY <2>1
  <2> HIDE DEF o
  <2> QED
      BY <1>3, <1>4, <1>11, <2>1, <2>2, <2>3 DEF Recover
<1> QED
    BY <1>1, <1>2, <1>5, <1>6, <1>7, <1>8, <1>9, <1>10, <1>11 DEF Execute

\* The invariant, for any schedule, policies, attempts, processes and mishaps.
THEOREM JobsInvariant == JobsSpec => []JobsInv
<1>1. JobsInit => JobsInv
    BY JobsInitInv
<1>2. JobsInv /\ [JobsNext]_jobsVars => JobsInv'
  <2> SUFFICES ASSUME JobsInv, [JobsNext]_jobsVars PROVE JobsInv'
      OBVIOUS
  <2>1. CASE UNCHANGED jobsVars
      BY <2>1 DEF jobsVars, JobsInv, JobsTyped, JobsTypeOK, AttemptsCounted, CallKnowsRun,
                  DeadIsSpent, AttachedExists, CallHasQueued, At
  <2> QED
      BY <2>1, DispatchKeeps, EditKeeps, ExecuteKeeps DEF JobsNext
<1> QED
    BY <1>1, <1>2, PTL DEF JobsSpec

\* The rows, operations, handlers and calls are well typed.
THEOREM JobsTypedAlways == JobsSpec => []JobsTypeOK
<1>1. JobsInv => JobsTypeOK
    BY DEF JobsInv, JobsTyped
<1> QED
    BY <1>1, JobsInvariant, PTL

\* A run is dead only when its operation can never run again, by the queue's retry, by
\* recovery or by hand, however late its executors answer.
THEOREM DeadRunsStayDead == JobsSpec => []DeadIsFinal
<1>1. JobsInv => DeadIsFinal
  <2> SUFFICES ASSUME JobsInv, NEW r \in Runs, execution[r].status = "dead"
               PROVE  ~(jobOp[r].state = "queued" \/ jobOp[r].tries < RunAttempts)
      BY DEF DeadIsFinal
  <2>1. jobOp[r].tries >= RunAttempts /\ jobOp[r].tries \in 0..RunAttempts
      BY DEF JobsInv, JobsTyped, JobsTypeOK, DeadIsSpent
  <2>2. jobOp[r].state = "queued" => jobOp[r].tries < RunAttempts
      BY DEF JobsInv, JobsTyped, AttemptsCounted
  <2> QED
      BY <2>1, <2>2, JobsAssumption DEF JobsAssumption
<1> QED
    BY <1>1, JobsInvariant, PTL

\* next_run_at moves on only after the run that was due is queued, however often a process
\* ended in the middle of its call.
THEOREM DueRunsAreQueued == JobsSpec => []MarkedRunsAreQueued
<1>1. JobsInv => MarkedRunsAreQueued
    BY DEF JobsInv, CallHasQueued, MarkedRunsAreQueued, Settled
<1> QED
    BY <1>1, JobsInvariant, PTL
=============================================================================
