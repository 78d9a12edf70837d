------------------------- MODULE QueueWorkerProofs -------------------------
(***************************************************************************)
(* The type invariant of QueueWorker, for any lanes, jobs and limit.       *)
(***************************************************************************)
EXTENDS QueueWorker, TLAPS

\* Woken lanes are awake: no lane that executes is touched, and no lane ends or begins by it.
LEMMA WokenTyped ==
    ASSUME TypeOK
    PROVE  /\ Woken \in [Lanes -> Pcs]
           /\ \A l \in Lanes : Woken[l] = "execute" <=> pc[l] = "execute"
BY DEF TypeOK, Woken, Pcs

\* A step of a lane keeps the types: only Claim gives the lane a job, and only HandlerEnds
\* takes it away.
LEMMA LaneTyped ==
    ASSUME TypeOK, WorkerAssumption, NEW l \in Lanes, LaneStep(l)
    PROVE  TypeOK'
<1> USE DEF TypeOK, Pcs, Goto
<1>1. CASE Leave(l)
  BY <1>1 DEF Leave
<1>2. ASSUME NEW j \in Jobs, Claim(l, j) PROVE TypeOK'
  BY <1>2 DEF Claim, Claimable, WorkerAssumption
<1>3. CASE FindNothing(l)
  BY <1>3 DEF FindNothing
<1>4. CASE HandlerEnds(l)
  BY <1>4 DEF HandlerEnds
<1>5. CASE ResumeHandled(l)
  <2>1. Woken \in [Lanes -> Pcs] /\ \A m \in Lanes : Woken[m] = "execute" <=> pc[m] = "execute"
    BY WokenTyped
  <2> QED BY <1>5, <2>1 DEF ResumeHandled
<1>6. CASE ResumeEmpty(l)
  BY <1>6 DEF ResumeEmpty
<1>7. CASE ResumeFailed(l)
  BY <1>7 DEF ResumeFailed
<1>8. CASE PollTimer(l)
  BY <1>8 DEF PollTimer, Armed
<1> QED BY <1>1, <1>2, <1>3, <1>4, <1>5, <1>6, <1>7, <1>8 DEF LaneStep

\* The lanes and the jobs of a worker are well typed in every state, and a lane holds a job
\* exactly while its promise is inside runOne's handler (runLane, worker.ts).
THEOREM WorkerTyped == Spec => []TypeOK
<1>1. Init => TypeOK
  BY DEF Init, TypeOK, Pcs
<1>2. TypeOK /\ [Next]_vars => TypeOK'
  <2> SUFFICES ASSUME TypeOK, [Next]_vars PROVE TypeOK'
    OBVIOUS
  <2>1. CASE Start
    <3>1. \A l \in Lanes : on[l] = NoJob
      BY <2>1 DEF Start, TypeOK
    <3> QED BY <2>1, <3>1 DEF Start, TypeOK, Pcs
  <2>2. CASE Stop
    BY <2>2, WokenTyped DEF Stop, TypeOK
  <2>3. ASSUME NEW l \in Lanes, LaneStep(l) PROVE TypeOK'
    BY <2>3, LaneTyped, WorkerAssumption
  <2>4. ASSUME NEW j \in Jobs, Enqueue(j) PROVE TypeOK'
    BY <2>4, WokenTyped DEF Enqueue, TypeOK
  <2>5. ASSUME NEW j \in Jobs, BecomesDue(j) \/ Recover(j) PROVE TypeOK'
    BY <2>5 DEF BecomesDue, Recover, TypeOK
  <2>6. CASE UNCHANGED vars
    BY <2>6 DEF vars, TypeOK
  <2> QED BY <2>1, <2>2, <2>3, <2>4, <2>5, <2>6 DEF Next
<1> QED BY <1>1, <1>2, PTL DEF Spec
=============================================================================
