------------------------ MODULE DurableQueueProofs ------------------------
(* Theorems about DurableQueue for every value of its constants. *)
EXTENDS DurableQueue, FiniteSetTheorems, TLAPS

-----------------------------------------------------------------------------
(* Types.  TypeOK is not inductive by itself: a process in the middle of a *)
(* call must also remember on which operation.                             *)

Busy == {"insertJob", "run", "finish", "write", "release", "requeue", "requeueWrite",
         "requeueDelay", "retryWrite", "retryClear", "recoverRequeue"}
BusyOK == \A p \in Procs : proc[p].pc \in Busy => proc[p].op \in Ops
CallsOK == proc \in [Procs -> Calls] /\ BusyOK
TypeInv == TypeOK /\ BusyOK

\* A process record stays a good one when it is given new fields.
LEMMA NewCall ==
    ASSUME TypeInv, NEW p \in Procs, NEW r \in Calls, r.pc \in Busy => r.op \in Ops,
           proc' = [proc EXCEPT ![p] = r]
    PROVE  CallsOK'
BY DEF TypeInv, TypeOK, BusyOK, CallsOK

LEMMA GotoOK ==
    ASSUME TypeInv, NEW p \in Procs, NEW pc \in Pcs,
           pc \in Busy => proc[p].pc \in Busy, Goto(p, pc)
    PROVE  CallsOK'
<1>1. [proc[p] EXCEPT !.pc = pc] \in Calls
  BY DEF TypeInv, TypeOK, Calls
<1>2. proc' = [proc EXCEPT ![p] = [proc[p] EXCEPT !.pc = pc]]
  BY DEF Goto
<1>3. pc \in Busy => proc[p].op \in Ops
  BY DEF TypeInv, BusyOK
<1>4. [proc[p] EXCEPT !.pc = pc].pc = pc /\ [proc[p] EXCEPT !.pc = pc].op = proc[p].op
  BY DEF TypeInv, TypeOK, Calls
<1> QED BY <1>1, <1>2, <1>3, <1>4, NewCall

LEMMA ReturnOK ==
    ASSUME TypeInv, NEW p \in Procs, Return(p)
    PROVE  CallsOK'
<1>1. Idle \in Calls /\ Idle.pc \notin Busy
  BY DEF Idle, Calls, Pcs, Terminal, Modes, Busy
<1> QED BY <1>1, NewCall DEF Return

LEMMA AbortOK ==
    ASSUME TypeInv, NEW p \in Procs, Abort(p)
    PROVE  CallsOK' /\ holds' \in [Procs -> SUBSET Ops]
BY ReturnOK DEF TypeInv, TypeOK, Abort

LEMMA ConcludeOK ==
    ASSUME TypeInv, NEW p \in Procs, NEW s \in Terminal, NEW m \in Modes,
           proc[p].pc \in Busy, Conclude(p, s, m)
    PROVE  CallsOK'
<1> DEFINE r == [proc[p] EXCEPT !.pc = "finish", !.goal = s, !.mode = m]
<1>1. r \in Calls /\ r.op \in Ops
  BY ZenonT(30) DEF TypeInv, TypeOK, BusyOK, Calls, Pcs
<1>2. proc' = [proc EXCEPT ![p] = r]
  BY DEF Conclude
<1> QED BY <1>1, <1>2, NewCall

LEMMA ThrownOK ==
    ASSUME TypeInv, NEW p \in Procs, proc[p].pc \in Busy, Thrown(p)
    PROVE  CallsOK' /\ holds' \in [Procs -> SUBSET Ops]
<1> DEFINE o == proc[p].op
           s == IF row[o].cancel /\ o \notin Tracked THEN "cancelled" ELSE "failed"
<1>1. CASE Abort(p)
  BY <1>1, AbortOK
<1>2. CASE Conclude(p, s, "catch") /\ holds' = [holds EXCEPT ![p] = {}]
  <2>1. s \in Terminal /\ "catch" \in Modes
    BY DEF Terminal, Modes
  <2> QED BY <1>2, <2>1, ConcludeOK DEF TypeInv, TypeOK
<1> QED BY <1>1, <1>2 DEF Thrown

LEMMA NextCandidateOK ==
    ASSUME TypeInv, NEW p \in Procs, NEW o, proc[p].pc \notin Busy, NextCandidate(p, o)
    PROVE  CallsOK'
<1> DEFINE r == [proc[p] EXCEPT !.todo = proc[p].todo \ {o}]
<1>1. r \in Calls /\ r.pc = proc[p].pc
  BY DEF TypeInv, TypeOK, Calls
<1>2. CASE Return(p)
  BY <1>2, ReturnOK
<1>3. CASE proc' = [proc EXCEPT ![p] = r]
  BY <1>1, <1>3, NewCall
<1> QED BY <1>2, <1>3 DEF NextCandidate

LEMMA ReadType ==
    ASSUME TypeInv, NEW p \in Procs, NEW o \in Ops, Read(p, o)
    PROVE  holds' \in [Procs -> SUBSET Ops]
BY DEF TypeInv, TypeOK, Read

LEMMA BumpedType ==
    ASSUME TypeInv, NEW o
    PROVE  Bumped(o) \in [Procs -> SUBSET Ops]
BY DEF TypeInv, TypeOK, Bumped

LEMMA MoveType ==
    ASSUME TypeInv, NEW o, NEW s \in States, Move(o, s)
    PROVE  row' \in [Ops -> Rows] /\ holds' \in [Procs -> SUBSET Ops]
<1>1. CASE o \in Ops
  <2>1. [row[o] EXCEPT !.state = s, !.owner = NoWorker, !.leased = FALSE] \in Rows
    BY ZenonT(30), <1>1 DEF TypeInv, TypeOK, Rows
  <2> QED BY <2>1, BumpedType DEF TypeInv, TypeOK, Move
<1>2. CASE o \notin Ops
  BY <1>2, BumpedType DEF TypeInv, TypeOK, Move
<1> QED BY <1>1, <1>2

LEMMA LocksType ==
    ASSUME TypeInv, NEW o
    PROVE  Freed(o) \in [Keys -> Locks] /\ Unexpired \in [Keys -> Locks]
BY DEF TypeInv, TypeOK, Freed, Unexpired, Free, Locks

LEMMA InitType == Init => TypeInv
<1> SUFFICES ASSUME Init PROVE TypeInv
  OBVIOUS
<1>1. NoRow \in Rows
  BY DEF NoRow, Rows, States
<1>2. Idle \in Calls /\ Idle.pc \notin Busy
  BY DEF Idle, Calls, Pcs, Terminal, Modes, Busy
<1>3. Free \in Locks
  BY DEF Free, Locks
<1> QED BY <1>1, <1>2, <1>3 DEF Init, TypeInv, TypeOK, BusyOK

\* Every action keeps every table and every process record well typed.
LEMMA StepType == TypeInv /\ [Next]_vars => TypeInv'
<1> SUFFICES ASSUME TypeInv, [Next]_vars PROVE TypeInv'
  OBVIOUS
<1> USE DEF TypeInv, TypeOK, CallsOK
<1>0. ASSUME NEW p \in Procs PROVE proc[p] \in Calls
  OBVIOUS
<1>1. ASSUME NEW p \in Procs, InsertJob(p) PROVE TypeInv'
  <2> DEFINE o == proc[p].op
             r == [Idle EXCEPT !.pc = "scan", !.todo = {o}]
  <2>1. o \in Ops
    BY <1>1 DEF InsertJob, BusyOK, Busy
  <2>2. r \in Calls /\ r.pc \notin Busy
    BY <2>1 DEF Idle, Calls, Pcs, Terminal, Modes, Busy
  <2>3. CASE proc' = [proc EXCEPT ![p] = r]
    <3>1. CallsOK'
      BY <2>2, <2>3, NewCall
    <3> QED BY <1>1, <3>1 DEF InsertJob, Availability
  <2>4. CASE Return(p)
    BY <1>1, <2>4, ReturnOK DEF InsertJob, Availability
  <2> QED BY <1>1, <2>3, <2>4 DEF InsertJob
<1>2. ASSUME NEW p \in Procs, FinishRead(p) PROVE TypeInv'
  <2>1. proc[p].pc \in Busy /\ proc[p].op \in Ops
    BY <1>2 DEF FinishRead, BusyOK, Busy
  <2>2. CASE Thrown(p)
    BY <1>2, <2>1, <2>2, ThrownOK DEF FinishRead
  <2>3. CASE Read(p, proc[p].op) /\ Goto(p, "write")
    BY <1>2, <2>1, <2>3, ReadType, GotoOK DEF FinishRead, Pcs
  <2> QED BY <1>2, <2>2, <2>3 DEF FinishRead
<1>3. ASSUME NEW p \in Procs, FinishWrite(p) PROVE TypeInv'
  <2>1. proc[p].pc \in Busy /\ proc[p].goal \in States
    BY <1>3, <1>0 DEF FinishWrite, Busy, Calls, States
  <2>2. CASE Move(proc[p].op, proc[p].goal) /\ Goto(p, "release")
    BY <1>3, <2>1, <2>2, MoveType, GotoOK DEF FinishWrite, Pcs
  <2>3. CASE Thrown(p) /\ UNCHANGED row
    BY <1>3, <2>1, <2>3, ThrownOK DEF FinishWrite
  <2> QED BY <1>3, <2>2, <2>3 DEF FinishWrite
<1>4. ASSUME NEW p \in Procs, Release(p) PROVE TypeInv'
  <2>1. lock' \in [Keys -> Locks]
    BY <1>4, LocksType DEF Release
  <2>2. CASE Goto(p, "recover")
    BY <1>4, <2>1, <2>2, GotoOK DEF Release, Pcs, Busy
  <2>3. CASE Return(p)
    BY <1>4, <2>1, <2>3, ReturnOK DEF Release
  <2> QED BY <1>4, <2>2, <2>3 DEF Release
<1>5. ASSUME NEW l \in Procs, StartScan(l) PROVE TypeInv'
  <2> DEFINE r == [Idle EXCEPT !.pc = "scan", !.todo = FirstCandidates]
  <2>1. r \in Calls /\ r.pc \notin Busy
    BY DEF Idle, Calls, Pcs, Terminal, Modes, Busy, FirstCandidates, Candidates
  <2> QED BY <1>5, <2>1, NewCall DEF StartScan
<1>6. ASSUME NEW l \in Lanes, Claim(l) PROVE TypeInv'
  <2>1. l \in Procs /\ proc[l].pc \notin Busy
    BY <1>6 DEF Claim, Procs, Busy
  <2>2. PICK o \in proc[l].todo : (ClaimSkips(l, o) \/ ClaimCancels(l, o))
                                 \/ (ClaimThrows(l, o) \/ ClaimSucceeds(l, o))
    BY <1>6 DEF Claim
  <2>3. o \in Ops
    BY <1>0, <2>1 DEF Calls
  <2>4. CASE ClaimSkips(l, o)
    BY <1>6, <2>1, <2>4, NextCandidateOK, LocksType DEF Claim, ClaimSkips
  <2>5. CASE ClaimCancels(l, o)
    BY <1>6, <2>1, <2>5, NextCandidateOK, LocksType, MoveType DEF Claim, ClaimCancels, States, Terminal
  <2>6. CASE ClaimThrows(l, o)
    BY <1>6, <2>1, <2>6, ReturnOK DEF Claim, ClaimThrows
  <2>7. CASE ClaimSucceeds(l, o)
    <3> DEFINE r == [Idle EXCEPT !.pc = "run", !.op = o, !.try = row[o].attempt + 1]
               n == [row[o] EXCEPT !.state = "running", !.owner = WorkerOf[l],
                                   !.attempt = row[o].attempt + 1, !.leased = TRUE]
    <3>0. row[o] \in Rows /\ row[o].attempt + 1 \in Nat
      BY <2>3 DEF Rows
    <3>1. r \in Calls /\ r.op \in Ops
      <4>1. ASSUME NEW i \in Nat
            PROVE  [Idle EXCEPT !.pc = "run", !.op = o, !.try = i] \in Calls
        BY <2>3 DEF Idle, Calls, Pcs, Terminal, Modes
      <4> QED BY <2>3, <3>0, <4>1 DEF Idle
    <3>2. n \in Rows
      <4>1. ASSUME NEW i \in Nat, NEW w \in Workers
            PROVE  [row[o] EXCEPT !.state = "running", !.owner = w, !.attempt = i,
                                  !.leased = TRUE] \in Rows
        BY <2>3, <3>0 DEF Rows, States
      <4> QED BY <3>0, <4>1, ConstantsAssumption
    <3>3. CallsOK'
      BY <2>1, <2>7, <3>1, NewCall DEF ClaimSucceeds
    <3>4. lock' \in [Keys -> Locks]
      BY <2>3, <2>7, LocksType DEF ClaimSucceeds, Locks
    <3>5. row' \in [Ops -> Rows]
      BY <2>7, <3>2 DEF ClaimSucceeds
    <3> QED BY <1>6, <2>7, <3>3, <3>4, <3>5, BumpedType DEF Claim, ClaimSucceeds
  <2> QED BY <2>2, <2>4, <2>5, <2>6, <2>7
<1>7. ASSUME NEW l \in Procs, HandlerReturns(l) PROVE TypeInv'
  BY <1>7, ConcludeOK DEF HandlerReturns, Terminal, Modes, Busy
<1>8. ASSUME NEW l \in Procs, HandlerThrows(l) PROVE TypeInv'
  <2>1. CASE Goto(l, "requeue")
    BY <1>8, <2>1, GotoOK DEF HandlerThrows, Pcs, Busy
  <2>2. CASE \E s \in {"cancelled", "failed"} : Conclude(l, s, "catch")
    BY <1>8, <2>2, ConcludeOK DEF HandlerThrows, Terminal, Modes, Busy
  <2> QED BY <1>8, <2>1, <2>2 DEF HandlerThrows
<1>9. ASSUME NEW l \in Lanes, HandlerAborted(l) PROVE TypeInv'
  <2>1. l \in Procs /\ proc[l].pc \in Busy /\ proc[l].op \in Ops
    BY <1>9 DEF HandlerAborted, Procs, Busy, BusyOK
  <2>2. PICK s \in {"timed_out", "cancelled"} : Conclude(l, s, "catch")
    BY <1>9 DEF HandlerAborted
  <2>3. CallsOK'
    BY <2>1, <2>2, ConcludeOK DEF Terminal, Modes
  <2> QED BY <1>9, <2>1, <2>3 DEF HandlerAborted
<1>10. ASSUME NEW l \in Procs, TrackedReturns(l) PROVE TypeInv'
  <2>1. CASE Return(l)
    BY <1>10, <2>1, ReturnOK DEF TrackedReturns
  <2>2. CASE \E s \in {"succeeded", "failed"}, m \in {"try", "catch"} : Conclude(l, s, m)
    BY <1>10, <2>2, ConcludeOK DEF TrackedReturns, Terminal, Modes, Busy
  <2> QED BY <1>10, <2>1, <2>2 DEF TrackedReturns
<1>11. ASSUME NEW l \in Procs, RequeueRead(l) PROVE TypeInv'
  BY <1>11, ReadType, GotoOK DEF RequeueRead, Pcs, Busy, BusyOK
<1>12. ASSUME NEW l \in Procs, RequeueWrite(l) PROVE TypeInv'
  BY <1>12, MoveType, GotoOK, AbortOK DEF RequeueWrite, Pcs, Busy, States
<1>13. ASSUME NEW l \in Procs, RequeueDelay(l) PROVE TypeInv'
  BY <1>13, GotoOK DEF RequeueDelay, Pcs, Busy
<1>14. ASSUME NEW c \in Procs, RetryWrite(c) PROVE TypeInv'
  BY <1>14, MoveType, GotoOK, AbortOK DEF RetryWrite, Pcs, Busy, States
<1>15. ASSUME NEW c \in Procs, RetryClear(c) PROVE TypeInv'
  <2>1. proc[c].op \in Ops
    BY <1>15 DEF RetryClear, Busy, BusyOK
  <2> DEFINE n == [row[proc[c].op] EXCEPT !.cancel = FALSE]
  <2>2. row' \in [Ops -> Rows]
    <3>1. n \in Rows
      <4>1. ASSUME NEW o \in Ops PROVE [row[o] EXCEPT !.cancel = FALSE] \in Rows
        BY ZenonT(30) DEF Rows
      <4> QED BY <2>1, <4>1
    <3>2. row' = [row EXCEPT ![proc[c].op] = n]
      BY <1>15 DEF RetryClear
    <3> QED BY <3>1, <3>2
  <2> QED BY <1>15, <2>2, ReturnOK DEF RetryClear, Availability
<1>16. ASSUME NEW c \in Procs, RecoverExpired(c) PROVE TypeInv'
  <2> DEFINE r == [Idle EXCEPT !.pc = "recover", !.mode = "recover",
                               !.todo = {o \in Expired : job[o] # "none"}]
  <2>1. r \in Calls /\ r.pc \notin Busy
    BY DEF Idle, Calls, Pcs, Terminal, Modes, Busy, Expired
  <2> QED BY <1>16, <2>1, NewCall DEF RecoverExpired
<1>17. ASSUME NEW c \in Procs, RecoverRow(c) PROVE TypeInv'
  <2> DEFINE r(o, pc, s) == [proc[c] EXCEPT !.pc = pc, !.op = o, !.goal = s,
                                            !.todo = proc[c].todo \ {o}]
  <2>a. CASE Abort(c) /\ UNCHANGED lock
    BY <1>17, <2>a, AbortOK DEF RecoverRow
  <2>b. CASE ~(Abort(c) /\ UNCHANGED lock)
    <3>1. PICK o \in proc[c].todo :
            /\ lock' = Freed(o)
            /\ Read(c, o)
            /\ \E pc \in {"finish", "recoverRequeue"}, s \in {"cancelled", "failed"} :
                 proc' = [proc EXCEPT ![c] = r(o, pc, s)]
      BY <1>17, <2>b DEF RecoverRow
    <3>2. PICK pc \in {"finish", "recoverRequeue"}, s \in {"cancelled", "failed"} :
            proc' = [proc EXCEPT ![c] = r(o, pc, s)]
      BY <3>1
    <3>3. o \in Ops
      BY <1>0 DEF Calls
    <3>4. r(o, pc, s) \in Calls /\ r(o, pc, s).op = o
      BY ZenonT(30), <1>0, <3>3 DEF Calls, Pcs, Terminal
    <3>5. CallsOK'
      BY <3>2, <3>3, <3>4, NewCall
    <3> QED BY <1>17, <3>1, <3>3, <3>5, ReadType, LocksType DEF RecoverRow
  <2> QED BY <2>a, <2>b
<1>18. ASSUME NEW c \in Procs, RecoverRequeue(c) PROVE TypeInv'
  BY <1>18, MoveType, GotoOK, AbortOK DEF RecoverRequeue, Pcs, Busy, States
<1>19. ASSUME NEW c \in Procs, Reconcile(c) PROVE TypeInv'
  <2> DEFINE r == [Idle EXCEPT !.pc = "reconcile", !.todo = Expired]
  <2>1. r \in Calls /\ r.pc \notin Busy /\ Expired \subseteq Ops
    BY DEF Idle, Calls, Pcs, Terminal, Modes, Busy, Expired
  <2>2. CASE proc' = [proc EXCEPT ![c] = r] /\ holds' = [holds EXCEPT ![c] = Expired]
    BY <1>19, <2>1, <2>2, NewCall DEF Reconcile
  <2>3. CASE Abort(c)
    BY <1>19, <2>3, AbortOK DEF Reconcile
  <2> QED BY <1>19, <2>2, <2>3 DEF Reconcile
<1>20. ASSUME NEW c \in Procs, ReconcileRow(c) PROVE TypeInv'
  <2>1. PICK o \in proc[c].todo : (Move(o, "failed") /\ NextCandidate(c, o))
                                 \/ (Abort(c) /\ UNCHANGED row)
    BY <1>20 DEF ReconcileRow
  <2>2. proc[c].pc \notin Busy /\ "failed" \in States
    BY <1>20 DEF ReconcileRow, Busy, States, Terminal
  <2>3. CASE Move(o, "failed") /\ NextCandidate(c, o)
    BY <1>20, <2>2, <2>3, MoveType, NextCandidateOK DEF ReconcileRow
  <2>4. CASE Abort(c) /\ UNCHANGED row
    BY <1>20, <2>4, AbortOK DEF ReconcileRow
  <2> QED BY <2>1, <2>3, <2>4
<1>21. ASSUME NEW c \in Procs, ClientCrash(c) PROVE TypeInv'
  BY <1>21, AbortOK DEF ClientCrash
<1>22. ASSUME NEW p \in Procs, NEW o \in Ops, Enqueue(p, o) \/ EnqueueAgain(p, o) PROVE TypeInv'
  <2> DEFINE r == [Idle EXCEPT !.pc = "insertJob", !.op = o]
  <2>1. r \in Calls /\ r.op \in Ops
    BY DEF Idle, Calls, Pcs, Terminal, Modes
  <2>2. CallsOK'
    BY <1>22, <2>1, NewCall DEF Enqueue, EnqueueAgain
  <2>3. row' \in [Ops -> Rows]
    BY <1>22 DEF Enqueue, EnqueueAgain, Rows, States
  <2> QED BY <1>22, <2>2, <2>3 DEF Enqueue, EnqueueAgain
<1>23. ASSUME NEW c \in Procs, NEW o \in Ops, RequestCancellation(c, o) PROVE TypeInv'
  <2> DEFINE r == [Idle EXCEPT !.pc = "finish", !.op = o, !.goal = "cancelled", !.mode = "call"]
  <2>1. r \in Calls /\ r.op \in Ops
    BY DEF Idle, Calls, Pcs, Terminal, Modes
  <2>2. CASE proc' = [proc EXCEPT ![c] = r]
    BY ZenonT(30), <2>1, <2>2, NewCall, <1>23, BumpedType DEF RequestCancellation, Rows
  <2>3. CASE UNCHANGED proc
    BY <2>3, <1>23, BumpedType DEF RequestCancellation, Rows, BusyOK
  <2> QED BY <1>23, <2>2, <2>3 DEF RequestCancellation
<1>24. ASSUME NEW c \in Procs, NEW o \in Ops, Retry(c, o) PROVE TypeInv'
  <2> DEFINE r == [Idle EXCEPT !.pc = "retryWrite", !.op = o]
  <2>1. r \in Calls /\ r.op \in Ops
    BY DEF Idle, Calls, Pcs, Terminal, Modes
  <2> QED BY <1>24, <2>1, NewCall, ReadType DEF Retry
<1>25. ASSUME NEW l \in Lanes, NEW o \in Ops, Heartbeat(l, o) PROVE TypeInv'
  BY ZenonT(30), <1>25, BumpedType DEF Heartbeat, Rows, Locks, BusyOK
<1>26. ASSUME NEW l \in Lanes, NEW o \in Ops, HandlerStops(l, o) PROVE TypeInv'
  BY <1>26 DEF HandlerStops, BusyOK
<1>27. ASSUME NEW c \in Procs, ClearCompleted(c) \/ ClearRow(c) PROVE TypeInv'
  <2>1. CASE ClearCompleted(c)
    <3>1. PICK found \in SUBSET Ops :
            proc' = [proc EXCEPT ![c] = [Idle EXCEPT !.pc = "clear", !.todo = found]]
      BY <2>1, ConstantsAssumption DEF ClearCompleted, Forgettable
    <3>2. /\ [Idle EXCEPT !.pc = "clear", !.todo = found] \in Calls
          /\ [Idle EXCEPT !.pc = "clear", !.todo = found].pc \notin Busy
      BY DEF Idle, Calls, Pcs, Terminal, Modes, Busy
    <3> QED BY <2>1, <3>1, <3>2, NewCall DEF ClearCompleted
  <2>2. CASE ClearRow(c)
    <3>1. PICK o \in proc[c].todo :
            /\ row' = [row EXCEPT ![o] = [NoRow EXCEPT !.state = "deleted", !.attempt = row[o].attempt]]
            /\ holds' = Bumped(o) /\ job' = [job EXCEPT ![o] = "none"] /\ lock' = Freed(o)
            /\ NextCandidate(c, o)
      BY <2>2 DEF ClearRow
    <3>2. proc[c].pc \notin Busy /\ UNCHANGED abandoned /\ o \in Ops
      BY <1>0, <2>2 DEF ClearRow, Busy, Calls
    <3>3. [NoRow EXCEPT !.state = "deleted", !.attempt = row[o].attempt] \in Rows
      <4>1. ASSUME NEW i \in Nat
            PROVE  [NoRow EXCEPT !.state = "deleted", !.attempt = i] \in Rows
        BY DEF NoRow, Rows, States
      <4> QED BY <3>2, <4>1 DEF Rows
    <3> QED BY <3>1, <3>2, <3>3, NextCandidateOK, BumpedType, LocksType
  <2> QED BY <1>27, <2>1, <2>2
<1>28. ASSUME NEW o \in Ops, BecomesDue(o) PROVE TypeInv'
  BY <1>28 DEF BecomesDue, BusyOK
<1>29. ASSUME NEW o \in Ops, LeaseLapses(o) PROVE TypeInv'
  BY ZenonT(30), <1>29 DEF LeaseLapses, Rows, Locks, BusyOK
<1>30. ASSUME NEW k \in Keys, LockLapses(k) PROVE TypeInv'
  BY <1>30 DEF LockLapses, Locks, BusyOK
<1>31. ASSUME NEW w \in Workers, Crash(w) PROVE TypeInv'
  <2>1. Idle \in Calls /\ Idle.pc \notin Busy
    BY DEF Idle, Calls, Pcs, Terminal, Modes, Busy
  <2> QED BY <1>31, <2>1 DEF Crash, BusyOK
<1>32. CASE UNCHANGED vars
  BY <1>32 DEF vars, BusyOK
<1>33. Lanes \subseteq Procs /\ Clients \subseteq Procs
  BY DEF Procs
<1> HIDE DEF TypeInv, TypeOK, CallsOK
<1> QED
  BY <1>1, <1>2, <1>3, <1>4, <1>5, <1>6, <1>7, <1>8, <1>9, <1>10, <1>11, <1>12, <1>13,
     <1>14, <1>15, <1>16, <1>17, <1>18, <1>19, <1>20, <1>21, <1>22, <1>23, <1>24, <1>25,
     <1>26, <1>27, <1>28, <1>29, <1>30, <1>31, <1>32, <1>33
  DEF Next, ProcStep, LaneStep, ClientStep, ClockStep

\* The tables and the processes of the queue are always well typed.
THEOREM TypeCorrect == Spec => []TypeOK
<1>1. Spec => []TypeInv
  BY InitType, StepType, PTL DEF Spec
<1> QED BY <1>1, PTL DEF TypeInv

-----------------------------------------------------------------------------
(* What a step may do to the operations table.  Most theorems need no more *)
(* of a step than this, so the actions are looked at once.                 *)

Created(o) ==
    /\ row[o].state = "absent"
    /\ row' = [row EXCEPT ![o].state = "queued"]
Forgotten(o) ==
    /\ holds' = Bumped(o)
    /\ row' = [row EXCEPT ![o] = [NoRow EXCEPT !.state = "deleted", !.attempt = row[o].attempt]]
    /\ \E c \in Clients : proc[c].pc = "clear" /\ o \in proc[c].todo
Cleared(o, s) ==
    row' = [row EXCEPT ![o] = [@ EXCEPT !.state = s, !.owner = NoWorker, !.leased = FALSE]]
\* Who is about to put an operation back.
Reviving(o) ==
    \E p \in Procs : /\ proc[p].pc \in {"retryWrite", "recoverRequeue", "requeueWrite"}
                     /\ proc[p].op = o
Moved(o, s) ==
    /\ s \in Transitions[row[o].state] \ {"running"} /\ holds' = Bumped(o)
    /\ Cleared(o, s)
    /\ s = "queued" => Reviving(o)
Started(o) ==
    /\ row[o].state = "queued" /\ ~row[o].cancel /\ ~BlockReason(o) /\ holds' = Bumped(o)
    /\ \E w \in Workers :
         row' = [row EXCEPT ![o] = [@ EXCEPT !.state = "running", !.owner = w,
                                             !.attempt = row[o].attempt + 1,
                                             !.leased = TRUE]]
Leased(o) == \E b \in BOOLEAN : IsRunning(o) /\ row' = [row EXCEPT ![o].leased = b]
\* A request to cancel is a new version of the row; a retry that clears one is not.
Flagged(o) ==
    \E b \in BOOLEAN : row' = [row EXCEPT ![o].cancel = b] /\ (b => holds' = Bumped(o))

RowStep(o) ==
    \/ Created(o) \/ Forgotten(o) \/ (\E s \in States : Moved(o, s))
    \/ Started(o) \/ Leased(o) \/ Flagged(o)

\* The transitions that transitionOperation makes in the queue never lead to running.
LEMMA MoveIsMoved ==
    ASSUME NEW o, NEW s, s \in {"queued"} \cup Terminal, s \in Transitions[row[o].state],
           Move(o, s), s = "queued" => Reviving(o)
    PROVE  Moved(o, s) /\ s \in States
BY DEF Move, Moved, Cleared, Terminal, States

\* Every step is one of these, for one operation, or leaves the table alone.
LEMMA RowSteps ==
    ASSUME TypeInv, [Next]_vars
    PROVE  UNCHANGED row \/ \E o \in Ops : RowStep(o)
<1> DEFINE Goal == UNCHANGED row \/ \E o \in Ops : RowStep(o)
<1> SUFFICES Goal
  OBVIOUS
<1>a. ASSUME NEW p \in Procs PROVE proc[p] \in Calls /\ (proc[p].pc \in Busy => proc[p].op \in Ops)
  BY DEF TypeInv, TypeOK, BusyOK
<1>b. ASSUME NEW p, NEW o \in Ops, NEW s \in {"queued"} \cup Terminal,
             CanMove(p, o, s), Move(o, s), s = "queued" => Reviving(o)
      PROVE  Goal
  BY <1>b, MoveIsMoved DEF CanMove, RowStep
<1>1. ASSUME NEW p \in Procs, FinishWrite(p) PROVE Goal
  <2>1. proc[p].op \in Ops /\ proc[p].goal \in Terminal /\ proc[p].goal # "queued"
    BY <1>1, <1>a DEF FinishWrite, Busy, Calls, Terminal
  <2> QED BY <1>1, <1>b, <2>1 DEF FinishWrite
<1>2. ASSUME NEW p \in Procs, RequeueWrite(p) \/ RetryWrite(p) \/ RecoverRequeue(p) PROVE Goal
  <2>1. proc[p].op \in Ops /\ Reviving(proc[p].op)
    BY <1>2, <1>a DEF RequeueWrite, RetryWrite, RecoverRequeue, Busy, Reviving
  <2> QED BY <1>2, <1>b, <2>1 DEF RequeueWrite, RetryWrite, RecoverRequeue
<1>3. ASSUME NEW p \in Procs, ReconcileRow(p) PROVE Goal
  <2>1. PICK o \in proc[p].todo : IF CanMove(p, o, "failed")
                                    THEN Move(o, "failed") /\ NextCandidate(p, o)
                                    ELSE Abort(p) /\ UNCHANGED row
    BY <1>3 DEF ReconcileRow
  <2>2. o \in Ops
    BY <1>a DEF Calls
  <2> QED BY <1>b, <2>1, <2>2 DEF Terminal
<1>4. ASSUME NEW l \in Lanes, Claim(l) PROVE Goal
  <2>1. PICK o \in proc[l].todo : (ClaimSkips(l, o) \/ ClaimCancels(l, o))
                                  \/ (ClaimThrows(l, o) \/ ClaimSucceeds(l, o))
    BY <1>4 DEF Claim
  <2>2. o \in Ops
    BY <1>a DEF Calls, Procs
  <2>3. CASE ClaimCancels(l, o)
    <3>1. "cancelled" \in Transitions[row[o].state]
      BY <2>3 DEF ClaimCancels, Claimable, Transitions, States
    <3> QED BY <2>2, <2>3, <3>1, MoveIsMoved DEF ClaimCancels, RowStep, Terminal
  <2>4. CASE ClaimSucceeds(l, o)
    BY <2>2, <2>4, ConstantsAssumption DEF ClaimSucceeds, Grantable, Claimable, RowStep, Started
  <2>5. CASE ClaimSkips(l, o) \/ ClaimThrows(l, o)
    BY <2>5 DEF ClaimSkips, ClaimThrows
  <2> QED BY <2>1, <2>3, <2>4, <2>5
<1>5. ASSUME NEW p \in Procs, RetryClear(p) PROVE Goal
  <2>1. proc[p].op \in Ops
    BY <1>5, <1>a DEF RetryClear, Busy
  <2> QED BY <1>5, <2>1 DEF RetryClear, RowStep, Flagged
<1>6. ASSUME NEW p \in Procs, NEW o \in Ops, RequestCancellation(p, o) PROVE Goal
  BY <1>6 DEF RequestCancellation, RowStep, Flagged
<1>7. ASSUME NEW p \in Procs, NEW o \in Ops, Enqueue(p, o) PROVE Goal
  BY <1>7 DEF Enqueue, RowStep, Created
<1>8. ASSUME NEW l \in Lanes, NEW o \in Ops, Heartbeat(l, o) PROVE Goal
  BY <1>8 DEF Heartbeat, Owns, RowStep, Leased
<1>9. ASSUME NEW c \in Clients, ClearRow(c) PROVE Goal
  <2>1. PICK o \in proc[c].todo :
          /\ row' = [row EXCEPT ![o] = [NoRow EXCEPT !.state = "deleted", !.attempt = row[o].attempt]]
          /\ holds' = Bumped(o)
    BY <1>9 DEF ClearRow
  <2>2. o \in Ops
    BY <1>a DEF Calls, Procs
  <2> QED BY <1>9, <2>1, <2>2 DEF ClearRow, RowStep, Forgotten
<1>10. ASSUME NEW o \in Ops, LeaseLapses(o) PROVE Goal
  BY <1>10 DEF LeaseLapses, RowStep, Leased
<1>11. ASSUME NEW p, InsertJob(p) \/ FinishRead(p) \/ Release(p) PROVE Goal
  BY <1>11 DEF InsertJob, FinishRead, Release
<1>12. ASSUME NEW l, \/ StartScan(l) \/ HandlerReturns(l) \/ HandlerThrows(l)
                     \/ HandlerAborted(l) \/ TrackedReturns(l)
                     \/ RequeueRead(l) \/ RequeueDelay(l)
       PROVE  Goal
  BY <1>12 DEF StartScan, HandlerReturns, HandlerThrows, HandlerAborted, TrackedReturns,
               RequeueRead, RequeueDelay
<1>13. ASSUME NEW c, \/ RecoverRow(c) \/ Reconcile(c) \/ RecoverExpired(c) \/ ClientCrash(c)
                     \/ ClearCompleted(c)
       PROVE  Goal
  BY <1>13 DEF RecoverRow, Reconcile, RecoverExpired, ClientCrash, ClearCompleted
<1>14. ASSUME NEW c, NEW o, EnqueueAgain(c, o) \/ Retry(c, o) \/ HandlerStops(c, o)
       PROVE  Goal
  BY <1>14 DEF EnqueueAgain, Retry, HandlerStops
<1>15. ASSUME NEW x, BecomesDue(x) \/ LockLapses(x) \/ Crash(x) PROVE Goal
  BY <1>15 DEF BecomesDue, LockLapses, Crash
<1>16. CASE UNCHANGED vars
  BY <1>16 DEF vars
<1>17. Lanes \subseteq Procs /\ Clients \subseteq Procs
  BY DEF Procs
<1> HIDE DEF Goal
<1> QED
  BY <1>1, <1>2, <1>3, <1>4, <1>5, <1>6, <1>7, <1>8, <1>9, <1>10, <1>11, <1>12, <1>13,
     <1>14, <1>15, <1>16, <1>17
  DEF Next, ProcStep, LaneStep, ClientStep, ClockStep

\* The row that a step writes, field by field, and the rows that it leaves alone.
LEMMA RowStepFields ==
    ASSUME TypeInv, NEW o \in Ops, RowStep(o)
    PROVE  /\ \A q \in Ops \ {o} : row'[q] = row[q]
           /\ \/ /\ row[o].state = "absent" /\ row'[o].state = "queued"
                 /\ row'[o].owner = row[o].owner /\ row'[o].leased = row[o].leased
                 /\ row'[o].attempt = row[o].attempt
              \/ /\ \E c \in Clients : proc[c].pc = "clear" /\ o \in proc[c].todo
                 /\ row'[o].state = "deleted"
                 /\ row'[o].owner = NoWorker /\ row'[o].leased = FALSE
                 /\ row'[o].attempt = row[o].attempt
              \/ /\ row'[o].state \in Transitions[row[o].state] \ {"running"}
                 /\ row'[o].owner = NoWorker /\ row'[o].leased = FALSE
                 /\ row'[o].attempt = row[o].attempt
                 /\ row'[o].state = "queued" => Reviving(o)
              \/ /\ row[o].state = "queued" /\ ~row[o].cancel /\ ~BlockReason(o)
                 /\ row'[o].state = "running" /\ row'[o].owner \in Workers
                 /\ row'[o].attempt = row[o].attempt + 1
              \/ /\ row'[o].state = row[o].state /\ row'[o].owner = row[o].owner
                 /\ row'[o].attempt = row[o].attempt
                 /\ row'[o].leased = row[o].leased \/ IsRunning(o)
<1>1. row \in [Ops -> Rows] /\ row[o] \in Rows
  BY DEF TypeInv, TypeOK
<1>2. CASE Created(o)
  BY <1>1, <1>2 DEF Created, Rows
<1>3. CASE Forgotten(o)
  <2>1. row'[o] = [NoRow EXCEPT !.state = "deleted", !.attempt = row[o].attempt]
    BY <1>1, <1>3 DEF Forgotten
  <2>2. /\ row'[o].state = "deleted" /\ row'[o].owner = NoWorker
        /\ row'[o].leased = FALSE /\ row'[o].attempt = row[o].attempt
    BY <2>1 DEF NoRow
  <2> QED BY <1>1, <1>3, <2>2 DEF Forgotten
<1>4. CASE \E s \in States : Moved(o, s)
  <2>1. PICK s \in States : Moved(o, s)
    BY <1>4
  <2>2. row'[o] = [row[o] EXCEPT !.state = s, !.owner = NoWorker, !.leased = FALSE]
    BY <1>1, <2>1 DEF Moved, Cleared
  <2>3. /\ row'[o].state = s /\ row'[o].owner = NoWorker /\ row'[o].leased = FALSE
        /\ row'[o].attempt = row[o].attempt
    BY <1>1, <2>2 DEF Rows
  <2> QED BY <1>1, <2>1, <2>3 DEF Moved, Cleared
<1>5. CASE Started(o)
  BY <1>1, <1>5 DEF Started, Rows
<1>6. CASE Leased(o)
  BY <1>1, <1>6 DEF Leased, Rows
<1>7. CASE Flagged(o)
  BY <1>1, <1>7 DEF Flagged, Rows
<1> QED BY <1>2, <1>3, <1>4, <1>5, <1>6, <1>7 DEF RowStep

\* Which states a transition leads to.
LEMMA TransitionTargets ==
    ASSUME NEW s \in States
    PROVE  /\ "absent" \notin Transitions[s]
           /\ "deleted" \notin Transitions[s]
           /\ Transitions[s] \subseteq States
           /\ s = "absent" => Transitions[s] = {}
           /\ s = "deleted" => Transitions[s] = {}
           /\ s = "succeeded" => Transitions[s] = {}
           /\ s = "queued" => Transitions[s] = {"running", "cancelled", "timed_out"}
           /\ s = "running" => Transitions[s] = {"queued"} \cup Terminal
           /\ s \in Terminal \ {"succeeded"} => Transitions[s] = {"queued"}
BY DEF Transitions, States, Terminal

-----------------------------------------------------------------------------
(* Leases.                                                                 *)

LeaseInv == TypeInv /\ LeasedIffRunning

\* Every step keeps owners and leases with running operations.
LEMMA StepLease == LeaseInv /\ [Next]_vars => LeaseInv'
<1> SUFFICES ASSUME LeaseInv, [Next]_vars PROVE LeaseInv'
  OBVIOUS
<1>1. TypeInv /\ TypeInv'
  BY StepType DEF LeaseInv
<1>2. CASE UNCHANGED row
  BY <1>1, <1>2 DEF LeaseInv, LeasedIffRunning, IsRunning
<1>3. ASSUME NEW o \in Ops, RowStep(o) PROVE LeasedIffRunning'
  <2>1. \A q \in Ops \ {o} : row'[q] = row[q]
    BY <1>1, <1>3, RowStepFields
  <2>2. /\ IsRunning(o)' <=> row'[o].owner # NoWorker
        /\ row'[o].leased => IsRunning(o)'
    <3>1. /\ IsRunning(o) <=> row[o].owner # NoWorker
          /\ row[o].leased => IsRunning(o)
          /\ \A w \in Workers : w # NoWorker
      BY ConstantsAssumption DEF LeaseInv, LeasedIffRunning
    <3> QED BY <1>1, <1>3, <3>1, RowStepFields DEF IsRunning, Terminal
  <2> QED BY <2>1, <2>2 DEF LeaseInv, LeasedIffRunning, IsRunning
<1> QED BY <1>1, <1>2, <1>3, RowSteps DEF LeaseInv

\* Whatever the processes do, an operation has an owner exactly while it runs, and an
\* unexpired lease only then.
THEOREM LeasesCorrect == Spec => []LeasedIffRunning
<1>1. Init => LeaseInv
  BY InitType DEF Init, LeaseInv, LeasedIffRunning, IsRunning, NoRow
<1>2. Spec => []LeaseInv
  BY <1>1, StepLease, PTL DEF Spec
<1> QED BY <1>2, PTL DEF LeaseInv

-----------------------------------------------------------------------------
(* Limits.  A start is the only step that adds to the running operations,  *)
(* and it adds one, in a transaction that has just counted them.           *)

LimitInv == TypeInv /\ LimitsRespected

\* The operations that run in a scope can be counted.
LEMMA RunningFinite ==
    ASSUME NEW s
    PROVE  IsFiniteSet(Running(s)) /\ Cardinality(Running(s)) \in Nat
<1>1. Running(s) \subseteq Ops /\ IsFiniteSet(Ops)
  BY ConstantsAssumption DEF Running
<1> QED BY <1>1, FS_Subset, FS_CardinalityType

\* Every step keeps the running operations within the limits.
LEMMA StepLimit == LimitInv /\ [Next]_vars => LimitInv'
<1> SUFFICES ASSUME LimitInv, [Next]_vars PROVE LimitInv'
  OBVIOUS
<1>1. TypeInv /\ TypeInv'
  BY StepType DEF LimitInv
<1>2. ASSUME NEW s \in Scopes, Running(s)' \subseteq Running(s)
      PROVE  Cardinality(Running(s)') <= Limit[s]
  <2>1. Cardinality(Running(s)') <= Cardinality(Running(s))
    BY <1>2, RunningFinite, FS_Subset
  <2>2. Cardinality(Running(s)') \in Nat
    BY <1>2, RunningFinite, FS_Subset, FS_CardinalityType
  <2>3. Cardinality(Running(s)) <= Limit[s] /\ Limit[s] \in Nat
    BY ConstantsAssumption DEF LimitInv, LimitsRespected
  <2> QED BY <2>1, <2>2, <2>3, RunningFinite
<1>3. CASE UNCHANGED row
  <2>1. \A s \in Scopes : Running(s)' = Running(s)
    BY <1>3 DEF Running, IsRunning
  <2> QED BY <1>1, <1>2, <2>1 DEF LimitInv, LimitsRespected
<1>4. ASSUME NEW o \in Ops, RowStep(o), NEW s \in Scopes
      PROVE  Cardinality(Running(s)') <= Limit[s]
  <2>1. \A q \in Ops \ {o} : row'[q] = row[q]
    BY <1>1, <1>4, RowStepFields
  <2>2. \/ ~IsRunning(o)' \/ IsRunning(o)
        \/ ~IsRunning(o) /\ ~BlockReason(o)
    BY <1>1, <1>4, RowStepFields DEF IsRunning, Terminal
  <2>3. CASE ~IsRunning(o)' \/ IsRunning(o) \/ s \notin ScopesOf[o]
    <3>1. Running(s)' \subseteq Running(s)
      BY <2>1, <2>3 DEF Running, IsRunning
    <3> QED BY <1>2, <3>1
  <2>4. CASE ~IsRunning(o) /\ ~BlockReason(o) /\ s \in ScopesOf[o]
    <3>1. ~(Cardinality(Running(s)) >= Limit[s])
      BY <2>4 DEF BlockReason, BlockedByLimit
    <3>2. Running(s)' \subseteq Running(s) \cup {o} /\ o \notin Running(s)
      BY <2>1, <2>4 DEF Running, IsRunning
    <3>3. /\ IsFiniteSet(Running(s) \cup {o})
          /\ Cardinality(Running(s) \cup {o}) = Cardinality(Running(s)) + 1
      BY <3>2, RunningFinite, FS_AddElement
    <3>4. /\ Cardinality(Running(s)') \in Nat
          /\ Cardinality(Running(s)') <= Cardinality(Running(s)) + 1
      BY <3>2, <3>3, FS_Subset, FS_CardinalityType
    <3>5. Limit[s] \in Nat
      BY ConstantsAssumption
    <3> QED BY <3>1, <3>4, <3>5, RunningFinite
  <2> QED BY <2>2, <2>3, <2>4
<1> QED BY <1>1, <1>3, <1>4, RowSteps DEF LimitInv, LimitsRespected

\* However many processes claim at the same time, no scope ever runs more operations
\* than its limit.
THEOREM LimitsHold == Spec => []LimitsRespected
<1>1. Init => LimitInv
  <2> SUFFICES ASSUME Init PROVE LimitsRespected
    BY InitType DEF LimitInv
  <2>1. \A s \in Scopes : Running(s) = {}
    BY DEF Init, Running, IsRunning, NoRow
  <2>2. Cardinality({}) = 0
    BY FS_EmptySet
  <2>3. \A s \in Scopes : 0 <= Limit[s]
    BY ConstantsAssumption
  <2> QED BY <2>1, <2>2, <2>3 DEF LimitsRespected
<1>2. Spec => []LimitInv
  BY <1>1, StepLimit, PTL DEF Spec
<1> QED BY <1>2, PTL DEF LimitInv

-----------------------------------------------------------------------------
(* Cancellation, and the abstract life cycle.                              *)

\* A queued operation whose cancellation has been requested never starts.
THEOREM CancellationPreventsStart == Spec => CancelledNeverStarts
<1> DEFINE A == \A o \in Ops : row[o].state = "queued" /\ row[o].cancel => ~IsRunning(o)'
<1>1. ASSUME TypeInv, [Next]_vars PROVE A \/ UNCHANGED vars
  <2>1. CASE UNCHANGED row
    BY <2>1 DEF IsRunning
  <2>2. ASSUME NEW o \in Ops, RowStep(o) PROVE A
    <3>1. /\ \A q \in Ops \ {o} : row'[q] = row[q]
          /\ row[o].state = "queued" /\ row[o].cancel => ~IsRunning(o)'
      BY <1>1, <2>2, RowStepFields DEF IsRunning, Terminal
    <3> QED BY <3>1 DEF IsRunning
  <2> QED BY <1>1, <2>1, <2>2, RowSteps
<1>2. Spec => []TypeInv
  BY InitType, StepType, PTL DEF Spec
<1> QED BY <1>1, <1>2, PTL DEF Spec, CancelledNeverStarts

\* What a client is about to delete as history has ended.
Ended(o) == row[o].state \in Terminal \cup {"deleted"}
HistoryEnded == \A c \in Clients : proc[c].pc = "clear" => \A o \in proc[c].todo : Ended(o)

\* Every step is one of the documented life cycle, or a stutter.
LEMMA StepLifecycle == TypeInv /\ HistoryEnded /\ [Next]_vars => [Lifecycle!Next]_(Lifecycle!vars)
<1> SUFFICES ASSUME TypeInv, HistoryEnded, [Next]_vars PROVE [Lifecycle!Next]_(Lifecycle!vars)
  OBVIOUS
<1>0. TypeInv /\ TypeInv'
  BY StepType
<1>1. row \in [Ops -> Rows] /\ row' \in [Ops -> Rows]
  BY <1>0 DEF TypeInv, TypeOK
<1> DEFINE st == [q \in Ops |-> row[q].state]
           at == [q \in Ops |-> row[q].attempt]
<1>2. CASE UNCHANGED row
  BY <1>2 DEF Lifecycle!vars
<1>3. ASSUME NEW o \in Ops, RowStep(o) PROVE [Lifecycle!Next]_(Lifecycle!vars)
  <2>1. \A q \in Ops \ {o} : row'[q] = row[q]
    BY <1>0, <1>3, RowStepFields
  <2>2. st' = [st EXCEPT ![o] = row'[o].state] /\ at' = [at EXCEPT ![o] = row'[o].attempt]
    BY <2>1
  <2>3. row[o].state \in States /\ row[o].attempt \in Nat
    BY <1>1 DEF Rows
  <2>4. CASE row'[o].attempt = row[o].attempt
    <3>1. at' = at
      BY <2>2, <2>4
    <3>a. row[o].attempt # row[o].attempt + 1
      BY <2>3
    <3>2. \/ row[o].state = "absent" /\ row'[o].state = "queued"
          \/ row[o].state \in Terminal /\ row'[o].state = "deleted"
          \/ row'[o].state \in Transitions[row[o].state] \ {"running"}
          \/ row'[o].state = row[o].state
      BY <1>0, <1>3, <2>4, <3>a, RowStepFields DEF HistoryEnded, Ended
    <3>3. CASE row'[o].state = row[o].state
      BY <2>2, <3>1, <3>3 DEF Lifecycle!vars
    <3>4. CASE row'[o].state \in Transitions[row[o].state] \ {"running"}
      <4>1. \/ /\ row[o].state = "queued"
               /\ row'[o].state \in {"cancelled", "timed_out"}
            \/ row[o].state = "running" /\ row'[o].state \in Terminal
            \/ row[o].state = "running" /\ row'[o].state = "queued"
            \/ /\ row[o].state \in Terminal \ {"succeeded"}
               /\ row'[o].state = "queued"
        BY <2>3, <3>4, TransitionTargets DEF States, Terminal
      <4> QED
        BY <2>2, <3>1, <4>1
        DEF Lifecycle!Next, Lifecycle!Withdraw, Lifecycle!End, Lifecycle!PutBack,
            Lifecycle!TryAgain, Lifecycle!Become, Lifecycle!Ended, Terminal
    <3>5. [st EXCEPT ![o] = row'[o].state] = st'
      BY <2>2
    <3> QED
      BY <3>1, <3>2, <3>3, <3>4, <3>5
      DEF Lifecycle!Next, Lifecycle!Create, Lifecycle!Forget, Lifecycle!Become,
          Lifecycle!Ended, Terminal
  <2>5. CASE row'[o].attempt # row[o].attempt
    <3>1. /\ row[o].state = "queued" /\ row'[o].state = "running"
          /\ row'[o].attempt = row[o].attempt + 1
      BY <1>0, <1>3, <2>5, RowStepFields
    <3> QED BY <2>2, <3>1 DEF Lifecycle!Next, Lifecycle!Start
  <2> QED BY <2>4, <2>5
<1> QED BY <1>0, <1>2, <1>3, RowSteps

-----------------------------------------------------------------------------
(* What a step does to the calls of processes: to one, but for a crash.    *)

ProcOnly(p) == \A q \in Procs \ {p} : proc'[q] = proc[q]
HoldsOnly(p) == \A q \in Procs \ {p} : holds'[q] \subseteq holds[q]

\* A call goes on: only its place, its goal and its mode change.
SameCall(p) ==
    /\ proc'[p].op = proc[p].op /\ proc'[p].try = proc[p].try
    /\ proc'[p].todo = proc[p].todo

\* A process gets a new call.
LEMMA CallSet ==
    ASSUME TypeInv, NEW p \in Procs, NEW r, proc' = [proc EXCEPT ![p] = r]
    PROVE  proc'[p] = r /\ ProcOnly(p)
BY DEF TypeInv, TypeOK, ProcOnly

\* The calls that begin: what is not named is as in an idle process.
Begun(p, x, o, m, n, t) ==
    /\ proc'[p].pc = x /\ proc'[p].op = o /\ proc'[p].mode = m
    /\ proc'[p].try = n /\ proc'[p].todo = t /\ ProcOnly(p)
BeginsOn(p, x, o) ==
    proc' = [proc EXCEPT ![p] = [Idle EXCEPT !.pc = x, !.op = o]]
BeginsList(p, x, t) ==
    proc' = [proc EXCEPT ![p] = [Idle EXCEPT !.pc = x, !.todo = t]]
BeginsRun(p, o, n) ==
    proc' = [proc EXCEPT ![p] = [Idle EXCEPT !.pc = "run", !.op = o, !.try = n]]
BeginsRecovery(p, t) ==
    proc' = [proc EXCEPT ![p] = [Idle EXCEPT !.pc = "recover", !.mode = "recover", !.todo = t]]
BeginsEnd(p, o) ==
    proc' = [proc EXCEPT ![p] = [Idle EXCEPT !.pc = "finish", !.op = o, !.goal = "cancelled",
                                         !.mode = "call"]]

\* A call that begins has the fields that its action names.
LEMMA CallBegins ==
    ASSUME TypeInv, NEW p \in Procs, NEW x, NEW o, NEW n, NEW t
    PROVE  /\ BeginsOn(p, x, o) => Begun(p, x, o, "none", 0, {})
           /\ BeginsList(p, x, t) => Begun(p, x, NoOp, "none", 0, t)
           /\ BeginsRun(p, o, n) => Begun(p, "run", o, "none", n, {})
           /\ BeginsRecovery(p, t) => Begun(p, "recover", NoOp, "recover", 0, t)
           /\ BeginsEnd(p, o) => Begun(p, "finish", o, "call", 0, {})
<1>1. ASSUME BeginsOn(p, x, o)
      PROVE  Begun(p, x, o, "none", 0, {})
  <2>1. /\ proc'[p] = [Idle EXCEPT !.pc = x, !.op = o]
        /\ ProcOnly(p)
    BY <1>1, CallSet DEF BeginsOn
  <2> QED
    BY <2>1 DEF Idle, Begun
<1>2. ASSUME BeginsList(p, x, t)
      PROVE  Begun(p, x, NoOp, "none", 0, t)
  <2>1. /\ proc'[p] = [Idle EXCEPT !.pc = x, !.todo = t]
        /\ ProcOnly(p)
    BY <1>2, CallSet DEF BeginsList
  <2> QED
    BY <2>1 DEF Idle, Begun
<1>3. ASSUME BeginsRun(p, o, n)
      PROVE  Begun(p, "run", o, "none", n, {})
  <2>1. /\ proc'[p] = [Idle EXCEPT !.pc = "run", !.op = o, !.try = n]
        /\ ProcOnly(p)
    BY <1>3, CallSet DEF BeginsRun
  <2> QED
    BY <2>1 DEF Idle, Begun
<1>4. ASSUME BeginsRecovery(p, t)
      PROVE  Begun(p, "recover", NoOp, "recover", 0, t)
  <2>1. /\ proc'[p] = [Idle EXCEPT !.pc = "recover", !.mode = "recover", !.todo = t]
        /\ ProcOnly(p)
    BY <1>4, CallSet DEF BeginsRecovery
  <2> QED
    BY <2>1 DEF Idle, Begun
<1>5. ASSUME BeginsEnd(p, o)
      PROVE  Begun(p, "finish", o, "call", 0, {})
  <2>1. /\ proc'[p] = [Idle EXCEPT !.pc = "finish", !.op = o, !.goal = "cancelled", !.mode = "call"]
        /\ ProcOnly(p)
    BY <1>5, CallSet DEF BeginsEnd
  <2> QED
    BY <2>1 DEF Idle, Begun
<1> QED
  BY <1>1, <1>2, <1>3, <1>4, <1>5

\* A call moves to its next place.
LEMMA CallGoes ==
    ASSUME TypeInv, NEW p \in Procs, NEW pc, Goto(p, pc)
    PROVE  /\ proc'[p].pc = pc /\ proc'[p].mode = proc[p].mode /\ SameCall(p)
           /\ proc'[p].goal = proc[p].goal /\ ProcOnly(p)
<1>1. proc[p] \in Calls
  BY DEF TypeInv, TypeOK
<1>2. proc'[p] = [proc[p] EXCEPT !.pc = pc] /\ ProcOnly(p)
  BY CallSet DEF Goto
<1> QED
  BY <1>1, <1>2 DEF Calls, SameCall

\* A call moves to the end of its operation.
LEMMA CallConcludes ==
    ASSUME TypeInv, NEW p \in Procs, NEW s, NEW m, Conclude(p, s, m)
    PROVE  /\ proc'[p].pc = "finish" /\ proc'[p].mode = m /\ proc'[p].goal = s
           /\ SameCall(p) /\ ProcOnly(p)
<1>1. proc[p] \in Calls
  BY DEF TypeInv, TypeOK
<1>2. proc'[p] = [proc[p] EXCEPT !.pc = "finish", !.goal = s, !.mode = m] /\ ProcOnly(p)
  BY CallSet DEF Conclude
<1> QED
  BY <1>1, <1>2 DEF Calls, SameCall

\* A call is over.
LEMMA CallReturns ==
    ASSUME TypeInv, NEW p \in Procs, Return(p)
    PROVE  proc'[p] = Idle /\ ProcOnly(p)
BY CallSet DEF Return

\* A list is gone through: the call ends with it, or has one operation less to do.
LEMMA CallNext ==
    ASSUME TypeInv, NEW p \in Procs, NEW o, NextCandidate(p, o)
    PROVE  /\ ProcOnly(p)
           /\ \/ proc'[p] = Idle
              \/ /\ proc'[p].pc = proc[p].pc /\ proc'[p].mode = proc[p].mode
                 /\ proc'[p].op = proc[p].op /\ proc'[p].todo = proc[p].todo \ {o}
<1>1. proc[p] \in Calls
  BY DEF TypeInv, TypeOK
<1>2. CASE Return(p)
  BY <1>2, CallReturns
<1>3. CASE proc' = [proc EXCEPT ![p].todo = proc[p].todo \ {o}]
  <2>1. proc'[p] = [proc[p] EXCEPT !.todo = proc[p].todo \ {o}] /\ ProcOnly(p)
    BY <1>3, CallSet
  <2> QED
    BY <1>1, <2>1 DEF Calls
<1> QED
  BY <1>2, <1>3 DEF NextCandidate

\* What an exception leads to.
LEMMA CallThrows ==
    ASSUME TypeInv, NEW p \in Procs, Thrown(p)
    PROVE  /\ ProcOnly(p) /\ HoldsOnly(p)
           /\ \/ proc'[p] = Idle
              \/ /\ proc[p].mode = "try" /\ proc'[p].mode = "catch"
                 /\ proc'[p].pc = "finish" /\ SameCall(p)
<1>1. HoldsOnly(p)
  BY DEF Thrown, Abort, HoldsOnly, TypeInv, TypeOK
<1>2. CASE Abort(p)
  BY <1>1, <1>2, CallReturns DEF Abort
<1>3. CASE ~Abort(p)
  <2>1. /\ proc[p].mode = "try"
        /\ \E s : Conclude(p, s, "catch")
    BY <1>3 DEF Thrown
  <2> QED
    BY <1>1, <2>1, CallConcludes
<1> QED
  BY <1>2, <1>3

\* Reading a row, writing it and leaving a call add nothing to what others hold.
LEMMA HoldsGrow ==
    ASSUME TypeInv, NEW p \in Procs
    PROVE  /\ \A o : Read(p, o) => HoldsOnly(p) /\ holds'[p] = {o}
           /\ \A o : holds' = Bumped(o) => \A q \in Procs : holds'[q] \subseteq holds[q]
           /\ Abort(p) => HoldsOnly(p)
BY DEF TypeInv, TypeOK, Read, Bumped, Abort, HoldsOnly

\* RecoverRow takes one operation of its list: to put it back or to end it.
LEMMA CallRecovers ==
    ASSUME TypeInv, NEW c \in Clients, RecoverRow(c)
    PROVE  /\ ProcOnly(c) /\ HoldsOnly(c) /\ UNCHANGED row
           /\ \/ proc'[c] = Idle /\ UNCHANGED lock
              \/ \E o \in proc[c].todo :
                   /\ proc'[c].op = o /\ proc'[c].todo = proc[c].todo \ {o}
                   /\ proc'[c].mode = proc[c].mode /\ lock' = Freed(o)
                   /\ \/ proc'[c].pc = "finish"
                      \/ proc'[c].pc = "recoverRequeue" /\ ~row[o].cancel /\ RunsAgain(o)
<1>1. c \in Procs /\ proc[c] \in Calls
  BY DEF Procs, TypeInv, TypeOK
<1> DEFINE next(o, pc, s) ==
             [proc[c] EXCEPT !.pc = pc, !.op = o, !.goal = s, !.todo = proc[c].todo \ {o}]
<1>2. UNCHANGED row
  BY DEF RecoverRow
<1>3. PICK o \in proc[c].todo :
        \/ Abort(c) /\ UNCHANGED lock
        \/ /\ lock' = Freed(o) /\ Read(c, o)
           /\ \/ proc' = [proc EXCEPT ![c] = next(o, "finish", "cancelled")]
              \/ proc' = [proc EXCEPT ![c] = next(o, "finish", "failed")]
              \/ /\ ~row[o].cancel /\ RunsAgain(o)
                 /\ proc' = [proc EXCEPT ![c] = next(o, "recoverRequeue", "failed")]
  BY DEF RecoverRow
<1>4. ASSUME NEW x, NEW s
      PROVE  /\ next(o, x, s).pc = x /\ next(o, x, s).op = o
             /\ next(o, x, s).mode = proc[c].mode /\ next(o, x, s).todo = proc[c].todo \ {o}
  BY <1>1 DEF Calls
<1>5. CASE Abort(c) /\ UNCHANGED lock
  BY <1>1, <1>2, <1>5, CallReturns DEF Abort, HoldsOnly, TypeInv, TypeOK
<1>6. CASE Read(c, o) /\ \E x, s : proc' = [proc EXCEPT ![c] = next(o, x, s)]
  <2>1. HoldsOnly(c) /\ ProcOnly(c)
    <3>1. PICK x, s : proc' = [proc EXCEPT ![c] = next(o, x, s)]
      BY <1>6
    <3> QED
      BY <1>1, <1>6, <3>1, CallSet DEF HoldsOnly, Read, TypeInv, TypeOK
  <2>2. \A x, s : proc' = [proc EXCEPT ![c] = next(o, x, s)] => proc'[c] = next(o, x, s)
    BY <1>1, CallSet
  <2> HIDE DEF next
  <2>3. CASE lock' = Freed(o) /\ proc'[c] = next(o, "recoverRequeue", "failed")
             /\ ~row[o].cancel /\ RunsAgain(o)
    BY <1>2, <1>4, <2>1, <2>3
  <2>4. CASE lock' = Freed(o) /\ \E s : proc'[c] = next(o, "finish", s)
    BY <1>2, <1>4, <2>1, <2>4
  <2> QED
    BY <1>3, <1>5, <2>2, <2>3, <2>4
<1> QED
  <2> HIDE DEF next
  <2> QED
    BY <1>3, <1>5, <1>6

-----------------------------------------------------------------------------
(* Who has read a row and will put its operation back: a recovery never    *)
(* puts back what somebody has asked to cancel, and a retry by hand only   *)
(* what has ended with an attempt left.                                    *)

\* A recovery that is about to put an operation back, and whose read of it is
\* current, knows that nobody has asked to cancel it.
RequeuesWanted ==
    \A c \in Clients :
        proc[c].pc = "recoverRequeue" /\ proc[c].op \in holds[c] => ~row[proc[c].op].cancel

WantedInv == TypeInv /\ RequeuesWanted

\* A client that is about to retry an operation, and whose read of it is current, knows that
\* it has ended and may start again.
Retried == {"failed", "cancelled", "timed_out"}
RetriesCounted ==
    \A c \in Clients :
        proc[c].pc = "retryWrite" /\ proc[c].op \in holds[c] =>
            /\ row[proc[c].op].state \in Retried
            /\ row[proc[c].op].attempt < MaxAttempts[proc[c].op]

\* A recovery gets there by RecoverRow alone, a retry by Retry, and neither holds more later
\* than then; and only who has retried clears the request.
Arrives(p) ==
    \/ proc'[p].pc \notin {"recoverRequeue", "retryWrite", "retryClear", "clear"}
    \/ proc'[p] = proc[p] /\ holds'[p] \subseteq holds[p]
    \/ proc'[p].pc = "retryClear" /\ proc[p].pc = "retryWrite"
    \/ proc'[p].pc = "clear" /\ proc[p].pc = "clear" /\ proc'[p].todo \subseteq proc[p].todo
    \/ p \in Clients /\ proc'[p].pc \notin {"retryWrite", "clear"} /\ RecoverRow(p)
    \/ p \in Clients /\ proc'[p].pc \notin {"recoverRequeue", "clear"} /\ Retry(p, proc'[p].op)
    \/ p \in Clients /\ proc'[p].pc = "clear" /\ ClearCompleted(p)

\* No other step brings a process to a write that puts an operation back.
LEMMA ArrivesByRecovery ==
    ASSUME TypeInv, [Next]_vars, NEW r \in Procs
    PROVE  Arrives(r)
<1>1. ASSUME NEW p \in Procs, ProcOnly(p), HoldsOnly(p), Arrives(p) PROVE Arrives(r)
  BY <1>1 DEF Arrives, ProcOnly, HoldsOnly
<1>2. ASSUME NEW p \in Procs, ProcOnly(p),
             \/ proc'[p].pc \notin {"recoverRequeue", "retryWrite", "retryClear", "clear"}
             \/ proc'[p].pc = "retryClear" /\ proc[p].pc = "retryWrite"
             \/ /\ proc'[p].pc = "clear" /\ proc[p].pc = "clear"
                /\ proc'[p].todo \subseteq proc[p].todo,
             HoldsOnly(p) \/ UNCHANGED holds \/ \E o : holds' = Bumped(o)
      PROVE  Arrives(r)
  BY <1>1, <1>2, HoldsGrow DEF Arrives, HoldsOnly
<1>3. ASSUME NEW p \in Procs, UNCHANGED proc, UNCHANGED holds \/ \E o : holds' = Bumped(o)
      PROVE  Arrives(r)
  BY <1>3, HoldsGrow DEF Arrives
<1>4. Idle.pc = "idle"
  BY DEF Idle
<1>5. ASSUME NEW p \in Procs, InsertJob(p) \/ Release(p) PROVE Arrives(r)
  <2>1. CASE InsertJob(p)
    <3>1. UNCHANGED holds /\ (Return(p) \/ BeginsList(p, "scan", {proc[p].op}))
      BY <2>1 DEF InsertJob, BeginsList
    <3>2. BeginsList(p, "scan", {proc[p].op}) => Begun(p, "scan", NoOp, "none", 0, {proc[p].op})
      BY CallBegins
    <3> QED
      BY <1>2, <1>4, <3>1, <3>2, CallReturns DEF Begun
  <2>2. CASE Release(p)
    <3>1. UNCHANGED holds /\ (Return(p) \/ Goto(p, "recover"))
      BY <2>2 DEF Release
    <3> QED
      BY <1>2, <1>4, <3>1, CallReturns, CallGoes
  <2> QED
    BY <1>5, <2>1, <2>2
<1>6. ASSUME NEW p \in Procs, Thrown(p) PROVE Arrives(r)
  BY <1>2, <1>4, <1>6, CallThrows
<1>7. ASSUME NEW p \in Procs, FinishRead(p) PROVE Arrives(r)
  <2>1. Thrown(p) \/ (Read(p, proc[p].op) /\ Goto(p, "write"))
    BY <1>7 DEF FinishRead
  <2> QED
    BY <1>2, <1>6, <2>1, CallGoes, HoldsGrow
<1>8. ASSUME NEW p \in Procs, FinishWrite(p) PROVE Arrives(r)
  <2>1. Thrown(p) \/ (holds' = Bumped(proc[p].op) /\ Goto(p, "release"))
    BY <1>8 DEF FinishWrite, Move
  <2> QED
    BY <1>2, <1>6, <2>1, CallGoes
<1>9. ASSUME NEW p \in Procs, Abort(p) PROVE Arrives(r)
  BY <1>2, <1>4, <1>9, CallReturns, HoldsGrow DEF Abort
<1>10. ASSUME NEW p \in Procs, RequeueRead(p) \/ RequeueWrite(p) \/ RequeueDelay(p) PROVE Arrives(r)
  <2>1. \/ Abort(p)
        \/ /\ \E pc \in {"requeueWrite", "requeueDelay", "release"} : Goto(p, pc)
           /\ Read(p, proc[p].op) \/ holds' = Bumped(proc[p].op) \/ UNCHANGED holds
    BY <1>10 DEF RequeueRead, RequeueWrite, RequeueDelay, Move
  <2> QED
    BY <1>2, <1>9, <2>1, CallGoes, HoldsGrow
<1>11. ASSUME NEW p \in Procs, StartScan(p) PROVE Arrives(r)
  <2>1. UNCHANGED holds /\ BeginsList(p, "scan", FirstCandidates)
    BY <1>11 DEF StartScan, BeginsList
  <2>2. Begun(p, "scan", NoOp, "none", 0, FirstCandidates)
    BY <2>1, CallBegins
  <2> QED
    BY <1>2, <2>1, <2>2 DEF Begun
<1>12. ASSUME NEW p \in Procs, Claim(p) PROVE Arrives(r)
  <2>1. PICK o : ClaimSkips(p, o) \/ ClaimCancels(p, o) \/ ClaimThrows(p, o) \/ ClaimSucceeds(p, o)
    BY <1>12 DEF Claim
  <2>2. CASE NextCandidate(p, o) /\ (UNCHANGED holds \/ holds' = Bumped(o))
    BY <1>2, <1>4, <1>12, <2>2, CallNext DEF Claim
  <2>3. CASE ClaimThrows(p, o)
    BY <1>2, <1>4, <2>3, CallReturns DEF ClaimThrows
  <2>4. CASE ClaimSucceeds(p, o)
    <3>1. holds' = Bumped(o) /\ BeginsRun(p, o, row[o].attempt + 1)
      BY <2>4 DEF ClaimSucceeds, BeginsRun
    <3> QED
      BY <1>2, <3>1, CallBegins DEF Begun
  <2> QED
    BY <2>1, <2>2, <2>3, <2>4 DEF ClaimSkips, ClaimCancels, Move
<1>13. ASSUME NEW p \in Procs, HandlerReturns(p) \/ HandlerThrows(p) \/ HandlerAborted(p) \/ TrackedReturns(p)
       PROVE  Arrives(r)
  <2>1. UNCHANGED holds /\ (Return(p) \/ Goto(p, "requeue") \/ \E s, m : Conclude(p, s, m))
    BY <1>13 DEF HandlerReturns, HandlerThrows, HandlerAborted, TrackedReturns
  <2> QED
    BY <1>2, <1>4, <2>1, CallReturns, CallGoes, CallConcludes
<1>14. ASSUME NEW p \in Procs, RetryWrite(p) \/ RetryClear(p) PROVE Arrives(r)
  <2>1. \/ Abort(p)
        \/ Goto(p, "retryClear") /\ holds' = Bumped(proc[p].op) /\ proc[p].pc = "retryWrite"
        \/ Return(p) /\ UNCHANGED holds
    BY <1>14 DEF RetryWrite, RetryClear, Move
  <2> QED
    BY <1>2, <1>4, <1>9, <2>1, CallGoes, CallReturns
<1>15. ASSUME NEW p \in Clients, RecoverRow(p) PROVE Arrives(r)
  <2>1. p \in Procs
    BY DEF Procs
  <2> QED
    BY <1>1, <1>4, <1>15, <2>1, CallRecovers DEF Arrives
<1>16. ASSUME NEW p \in Procs, RecoverRequeue(p) PROVE Arrives(r)
  <2>1. Abort(p) \/ (Goto(p, "recover") /\ holds' = Bumped(proc[p].op))
    BY <1>16 DEF RecoverRequeue, Move
  <2> QED
    BY <1>2, <1>9, <2>1, CallGoes
<1>17. ASSUME NEW p \in Procs, Reconcile(p) PROVE Arrives(r)
  <2>1. \/ Abort(p)
        \/ /\ BeginsList(p, "reconcile", Expired)
           /\ holds' = [holds EXCEPT ![p] = Expired]
    BY <1>17 DEF Reconcile, BeginsList
  <2>2. BeginsList(p, "reconcile", Expired) => Begun(p, "reconcile", NoOp, "none", 0, Expired)
    BY CallBegins
  <2>3. holds' = [holds EXCEPT ![p] = Expired] => HoldsOnly(p)
    BY DEF HoldsOnly, TypeInv, TypeOK
  <2> QED
    BY <1>2, <1>9, <2>1, <2>2, <2>3 DEF Begun
<1>18. ASSUME NEW p \in Procs, ReconcileRow(p) PROVE Arrives(r)
  <2>1. Abort(p) \/ \E o : NextCandidate(p, o) /\ holds' = Bumped(o)
    BY <1>18 DEF ReconcileRow, Move
  <2> QED
    BY <1>2, <1>4, <1>9, <1>18, <2>1, CallNext DEF ReconcileRow
<1>19. ASSUME NEW p \in Procs, RecoverExpired(p) \/ ClientCrash(p) PROVE Arrives(r)
  <2>1. \/ Abort(p)
        \/ /\ UNCHANGED holds
           /\ BeginsRecovery(p, {o \in Expired : job[o] # "none"})
    BY <1>19 DEF RecoverExpired, ClientCrash, BeginsRecovery
  <2> QED
    BY <1>2, <1>9, <2>1, CallBegins DEF Begun
<1>20. ASSUME NEW p \in Procs, NEW o \in Ops, Enqueue(p, o) \/ EnqueueAgain(p, o) \/ RequestCancellation(p, o)
       PROVE  Arrives(r)
  <2>1. CASE Enqueue(p, o) \/ EnqueueAgain(p, o)
    <3>1. UNCHANGED holds /\ BeginsOn(p, "insertJob", o)
      BY <2>1 DEF Enqueue, EnqueueAgain, BeginsOn
    <3>2. Begun(p, "insertJob", o, "none", 0, {})
      BY <3>1, CallBegins
    <3> QED
      BY <1>2, <3>1, <3>2 DEF Begun
  <2>2. CASE RequestCancellation(p, o)
    <3>1. holds' = Bumped(o)
      BY <2>2 DEF RequestCancellation
    <3>2. UNCHANGED proc \/ BeginsEnd(p, o)
      BY <2>2 DEF RequestCancellation, BeginsEnd
    <3> QED
      BY <1>2, <1>3, <3>1, <3>2, CallBegins DEF Begun
  <2> QED
    BY <1>20, <2>1, <2>2
<1>21. ASSUME NEW l \in Lanes, NEW o, Heartbeat(l, o) \/ HandlerStops(l, o) PROVE Arrives(r)
  BY <1>3, <1>21 DEF Heartbeat, HandlerStops
<1>22. ASSUME NEW x, BecomesDue(x) \/ LeaseLapses(x) \/ LockLapses(x)
       PROVE  Arrives(r)
  BY <1>3, <1>22 DEF BecomesDue, LeaseLapses, LockLapses
<1>23. ASSUME NEW w, Crash(w) PROVE Arrives(r)
  BY <1>4, <1>23 DEF Crash, Arrives
<1>24. CASE UNCHANGED vars
  BY <1>3, <1>24 DEF vars
<1>25. ASSUME NEW p \in Clients, NEW o \in Ops, Retry(p, o) PROVE Arrives(r)
  <2>1. Read(p, o) /\ BeginsOn(p, "retryWrite", o) /\ p \in Procs
    BY <1>25 DEF Retry, BeginsOn, Procs
  <2>2. Begun(p, "retryWrite", o, "none", 0, {})
    BY <2>1, CallBegins
  <2>3. Arrives(p) /\ HoldsOnly(p) /\ ProcOnly(p)
    BY <1>25, <2>1, <2>2, HoldsGrow DEF Begun, Arrives
  <2> QED
    BY <1>1, <2>1, <2>3
<1>26. Lanes \subseteq Procs /\ Clients \subseteq Procs
  BY DEF Procs
<1>27. ASSUME NEW p \in Clients, ClearCompleted(p) PROVE Arrives(r)
  <2>1. PICK found \in SUBSET Forgettable : BeginsList(p, "clear", found)
    BY <1>27 DEF ClearCompleted, BeginsList
  <2>2. Begun(p, "clear", NoOp, "none", 0, found) /\ UNCHANGED holds
    BY <1>26, <1>27, <2>1, CallBegins DEF ClearCompleted
  <2>3. ProcOnly(p) /\ HoldsOnly(p) /\ Arrives(p)
    BY <1>27, <2>2 DEF Begun, HoldsOnly, Arrives
  <2> QED
    BY <1>1, <1>26, <2>3
<1>28. ASSUME NEW p \in Clients, ClearRow(p) PROVE Arrives(r)
  <2>1. PICK o : NextCandidate(p, o) /\ holds' = Bumped(o) /\ proc[p].pc = "clear"
    BY <1>28 DEF ClearRow
  <2> QED
    BY <1>2, <1>4, <1>26, <2>1, CallNext
<1> QED
  BY <1>5, <1>7, <1>8, <1>10, <1>11, <1>12, <1>13, <1>14, <1>15, <1>16, <1>17, <1>18, <1>19,
     <1>20, <1>21, <1>22, <1>23, <1>24, <1>25, <1>26, <1>27, <1>28
  DEF Next, ProcStep, LaneStep, ClientStep, ClockStep

\* Whoever starts or ends an operation, puts it back or deletes it, makes everybody's read of
\* the row a stale one.
LEMMA MoveBumps ==
    ASSUME TypeInv, [Next]_vars, NEW o \in Ops, NEW p \in Procs, o \in holds'[p],
           row[o].state # "absent"
    PROVE  row'[o].state = row[o].state /\ row'[o].attempt = row[o].attempt
<1>1. row \in [Ops -> Rows] /\ row[o] \in Rows
  BY DEF TypeInv, TypeOK
<1>2. holds' # Bumped(o)
  BY DEF Bumped
<1>3. ASSUME NEW q \in Ops, RowStep(q)
      PROVE  row'[o].state = row[o].state /\ row'[o].attempt = row[o].attempt
  <2>1. CASE q # o
    BY <1>1, <1>3, <2>1, RowStepFields
  <2>2. CASE q = o
    <3>1. Leased(o) \/ Flagged(o)
      BY <1>2, <1>3, <2>2 DEF RowStep, Created, Forgotten, Moved, Started
    <3>2. CASE Leased(o)
      BY <1>1, <3>2 DEF Leased, Rows
    <3>3. CASE Flagged(o)
      BY <1>1, <3>3 DEF Flagged, Rows
    <3> QED
      BY <3>1, <3>2, <3>3
  <2> QED
    BY <2>1, <2>2
<1> QED
  BY <1>3, RowSteps

\* Every step keeps what a retry knows of the operation that it has read.
LEMMA StepRetries ==
    ASSUME TypeInv, TypeInv', RetriesCounted, [Next]_vars
    PROVE  RetriesCounted'
<1>1. ASSUME NEW c \in Clients, proc'[c].pc = "retryWrite", proc'[c].op \in holds'[c]
      PROVE  /\ row'[proc'[c].op].state \in Retried
             /\ row'[proc'[c].op].attempt < MaxAttempts[proc'[c].op]
  <2>1. c \in Procs /\ proc'[c].op \in Ops
    BY <1>1 DEF Procs, TypeInv, BusyOK, Busy
  <2>2. CASE proc'[c] = proc[c] /\ holds'[c] \subseteq holds[c]
    <3>1. /\ row[proc'[c].op].state \in Retried
          /\ row[proc'[c].op].attempt < MaxAttempts[proc'[c].op]
      BY <1>1, <2>2 DEF RetriesCounted
    <3> QED
      BY <1>1, <2>1, <3>1, MoveBumps DEF Retried
  <2>3. CASE Retry(c, proc'[c].op)
    BY <2>3 DEF Retry, Retried
  <2> QED
    BY <1>1, <2>1, <2>2, <2>3, ArrivesByRecovery DEF Arrives
<1> QED
  BY <1>1 DEF RetriesCounted

\* A request to cancel makes everybody's read of the row a stale one.
LEMMA CancelBumps ==
    ASSUME TypeInv, [Next]_vars, NEW o \in Ops, row'[o].cancel
    PROVE  row[o].cancel \/ \A q \in Procs : o \notin holds'[q]
<1>1. row \in [Ops -> Rows] /\ row[o] \in Rows
  BY DEF TypeInv, TypeOK
<1>2. CASE UNCHANGED row
  BY <1>2
<1>3. ASSUME NEW q \in Ops, RowStep(q)
      PROVE  row[o].cancel \/ \A p \in Procs : o \notin holds'[p]
  <2>1. CASE q # o
    BY <1>1, <1>3, <2>1, RowStepFields
  <2>2. CASE q = o /\ Flagged(o)
    <3>1. PICK b \in BOOLEAN : row' = [row EXCEPT ![o].cancel = b] /\ (b => holds' = Bumped(o))
      BY <2>2 DEF Flagged
    <3>2. row'[o].cancel = b
      BY <1>1, <3>1 DEF Rows
    <3> QED
      BY <3>1, <3>2 DEF Bumped
  <2>3. CASE q = o /\ ~Flagged(o)
    <3>1. CASE Created(o) \/ Leased(o)
      BY <1>1, <3>1 DEF Created, Leased, Rows
    <3>4. CASE Forgotten(o)
      <4>1. row'[o] = [NoRow EXCEPT !.state = "deleted", !.attempt = row[o].attempt]
        BY <1>1, <3>4 DEF Forgotten
      <4> QED
        BY <4>1 DEF NoRow
    <3>2. CASE \E s \in States : Moved(o, s)
      BY <1>1, <3>2 DEF Moved, Cleared, Rows
    <3>3. CASE Started(o)
      BY <1>1, <3>3 DEF Started, Rows
    <3> QED
      BY <1>3, <2>3, <3>1, <3>2, <3>3, <3>4 DEF RowStep
  <2> QED
    BY <2>1, <2>2, <2>3
<1> QED
  BY <1>2, <1>3, RowSteps

\* Every step keeps the wish of a recovery to put back what nobody has cancelled.
LEMMA StepWanted == WantedInv /\ [Next]_vars => WantedInv'
<1> SUFFICES ASSUME WantedInv, [Next]_vars PROVE WantedInv'
  OBVIOUS
<1>1. TypeInv /\ TypeInv'
  BY StepType DEF WantedInv
<1>2. ASSUME NEW c \in Clients, proc'[c].pc = "recoverRequeue", proc'[c].op \in holds'[c]
      PROVE  ~row'[proc'[c].op].cancel
  <2>1. c \in Procs /\ proc'[c].op \in Ops
    BY <1>1, <1>2 DEF Procs, TypeInv, BusyOK, Busy
  <2>2. row'[proc'[c].op].cancel => row[proc'[c].op].cancel
    BY <1>1, <1>2, <2>1, CancelBumps
  <2>3. CASE proc'[c] = proc[c] /\ holds'[c] \subseteq holds[c]
    BY <1>2, <2>2, <2>3 DEF WantedInv, RequeuesWanted
  <2>4. CASE RecoverRow(c)
    BY <1>1, <1>2, <2>2, <2>4, CallRecovers DEF Idle
  <2> QED
    BY <1>1, <1>2, <2>1, <2>3, <2>4, ArrivesByRecovery DEF Arrives
<1> QED
  BY <1>1, <1>2 DEF WantedInv, RequeuesWanted

\* No step of a recovery puts back an operation whose cancellation has been requested,
\* also not between its read of the row and its write (recoverExpired).
THEOREM RecoveryHeedsCancellation == Spec => RecoveryKeepsCancellation
<1> DEFINE A == \A c \in Clients : RecoverRequeue(c) /\ row[proc[c].op].cancel => UNCHANGED row
<1>1. ASSUME WantedInv PROVE A
  BY <1>1 DEF WantedInv, RequeuesWanted, RecoverRequeue, CanMove
<1>2. Init => WantedInv
  BY InitType DEF Init, WantedInv, RequeuesWanted, Idle, Procs
<1>3. Spec => []WantedInv
  BY <1>2, StepWanted, PTL DEF Spec
<1> QED
  BY <1>1, <1>3, PTL DEF RecoveryKeepsCancellation, A

-----------------------------------------------------------------------------
(* The abstract life cycle, where nobody puts back what a client deletes.  *)

\* What has ended stays so, unless somebody is about to put it back.
LEMMA EndedStays ==
    ASSUME TypeInv, [Next]_vars, NEW o \in Ops, Ended(o), ~Reviving(o)
    PROVE  Ended(o)'
<1>1. CASE UNCHANGED row
  BY <1>1 DEF Ended
<1>2. ASSUME NEW q \in Ops, RowStep(q) PROVE Ended(o)'
  <2>1. CASE q # o
    BY <1>2, <2>1, RowStepFields DEF Ended
  <2>2. CASE q = o
    <3>1. row[o].state \in States
      BY DEF TypeInv, TypeOK, Rows
    <3> QED
      BY <1>2, <2>2, <3>1, RowStepFields, TransitionTargets DEF Ended, IsRunning, Terminal
  <2> QED
    BY <2>1, <2>2
<1> QED
  BY <1>1, <1>2, RowSteps

\* Every step keeps what a client deletes among what has ended.
LEMMA StepHistory ==
    ASSUME TypeInv, HistoryEnded, HistoryUndisturbed, [Next]_vars
    PROVE  HistoryEnded'
<1> SUFFICES ASSUME NEW c \in Clients, proc'[c].pc = "clear", NEW o \in proc'[c].todo
             PROVE  Ended(o)'
  BY DEF HistoryEnded
<1>1. c \in Procs /\ proc[c].todo \subseteq Ops
  BY DEF Procs, TypeInv, TypeOK, Calls
<1>2. CASE proc[c].pc = "clear" /\ proc'[c].todo \subseteq proc[c].todo
  <2>1. o \in Ops /\ Ended(o) /\ ~Reviving(o)
    BY <1>1, <1>2 DEF HistoryEnded, HistoryUndisturbed, Reviving
  <2> QED
    BY <2>1, EndedStays
<1>3. CASE ClearCompleted(c)
  <2>1. o \in Forgettable /\ UNCHANGED row
    BY <1>1, <1>3, CallSet DEF ClearCompleted, Idle
  <2> QED
    BY <2>1 DEF Forgettable, Ended
<1> QED
  BY <1>1, <1>2, <1>3, ArrivesByRecovery DEF Arrives

\* The queue implements the documented life cycle, as long as nobody puts back what a client
\* is clearing: operations are created once, start only from the queue, count every start,
\* end once per start, never leave success, and are forgotten only when they have ended.
THEOREM LifecycleImplemented == Spec /\ []HistoryUndisturbed => ImplementsLifecycle
<1>1. Init => Lifecycle!Init
  BY DEF Init, Lifecycle!Init, NoRow
<1>2. Init => TypeInv /\ HistoryEnded
  BY InitType DEF Init, HistoryEnded, Idle, Procs
<1>3. TypeInv /\ HistoryEnded /\ HistoryUndisturbed /\ [Next]_vars => TypeInv' /\ HistoryEnded'
  BY StepType, StepHistory
<1>4. Spec /\ []HistoryUndisturbed => [](TypeInv /\ HistoryEnded)
  BY <1>2, <1>3, PTL DEF Spec
<1> QED BY <1>1, <1>4, StepLifecycle, PTL DEF Spec, ImplementsLifecycle, Lifecycle!Spec

-----------------------------------------------------------------------------
(* Exclusive, covered execution.  The conditions: lanes heartbeat in time, *)
(* no operation is run by a request, one client recovers, and no retry by  *)
(* hand is disturbed (RetriesUndisturbed).                                 *)

OrderlyUse ==
    /\ Stalling = {} /\ Tracked = {}
    /\ \A c, d \in Recoverers : c = d

Waiting(o) == row[o].state \in {"absent", "queued"}
Withdrawn(o) == (row[o].cancel /\ ~IsRunning(o)) \/ row[o].state = "deleted"

\* Nobody executes it, and nobody but the recovery ends it or puts it back.
Lost(o) == IsRunning(o) /\ \A l \in Lanes : ~Executed(l, o)

Locked(o) == LockKey[o] # NoKey => lock[LockKey[o]] = [op |-> o, live |-> TRUE]
CoveredBy(l, o) ==
    Owns(l, o) /\ row[o].leased /\ row[o].attempt = proc[l].try /\ Locked(o)

\* The lock is also of a lane that has put the operation back and not yet deleted it: it is
\* what keeps other lanes from claiming the operation in between.
PutBack(l, o) ==
    proc[l].op = o /\ proc[l].pc \in {"requeueDelay", "release"} /\ Waiting(o)
Holding(l, o) == Executed(l, o) \/ (LockKey[o] # NoKey /\ PutBack(l, o))

\* What is true of the tables wherever a lane is in its call ...
LaneKnows(l) ==
    /\ proc[l].pc \in {"idle", "scan", "run", "finish", "write", "release",
                       "requeue", "requeueWrite", "requeueDelay"}
    /\ proc[l].mode # "recover"
    /\ \A o \in Ops : /\ Executed(l, o) => CoveredBy(l, o)
                      /\ Holding(l, o) => Locked(o)
    /\ proc[l].pc \in {"requeue", "requeueWrite"} => proc[l].try < MaxAttempts[proc[l].op]
    /\ proc[l].pc \in {"requeueDelay", "release"} =>
         LockKey[proc[l].op] = NoKey \/ ~IsRunning(proc[l].op)

\* ... and wherever a client is: cancelling a waiting operation, recovering, retrying, or
\* deleting what has ended.
InRecovery(c) == proc[c].pc \in {"recover", "recoverRequeue", "reconcile"} \/ proc[c].mode = "recover"
ClientKnows(c) ==
    /\ proc[c].pc \in {"idle", "insertJob", "finish", "write", "release",
                       "recover", "recoverRequeue", "reconcile", "retryWrite", "retryClear",
                       "clear"}
    /\ proc[c].pc \in {"retryWrite", "retryClear", "clear"} => ~InRecovery(c)
    /\ proc[c].pc = "clear" => \A o \in proc[c].todo : Ended(o)
    /\ proc[c].pc \in {"finish", "write", "release"} => proc[c].mode \in {"call", "recover"}
    /\ proc[c].pc \in {"recover", "recoverRequeue"} => proc[c].mode = "recover"
    /\ proc[c].pc \in {"finish", "write"} /\ proc[c].mode = "call" => Withdrawn(proc[c].op)
    /\ proc[c].pc = "release" => Ended(proc[c].op)
    /\ InRecovery(c) => c \in Recoverers /\ \A o \in proc[c].todo : Lost(o)
    /\ InRecovery(c) /\ proc[c].pc \in {"finish", "write", "recoverRequeue"} =>
         Lost(proc[c].op) /\ proc[c].op \notin proc[c].todo
    /\ proc[c].pc = "recoverRequeue" => row[proc[c].op].attempt < MaxAttempts[proc[c].op]

AttemptsLeft ==
    \A o \in Ops : /\ row[o].attempt <= MaxAttempts[o]
                   /\ Waiting(o) => row[o].attempt < MaxAttempts[o]

OneHolder == \A l, m \in Lanes, o \in Ops : Holding(l, o) /\ Holding(m, o) => l = m

CoverInv ==
    /\ TypeInv /\ RetriesCounted /\ OneHolder /\ AttemptsLeft
    /\ \A l \in Lanes : LaneKnows(l)
    /\ \A c \in Clients : ClientKnows(c)

-----------------------------------------------------------------------------
(* A step of some processes P - one, or none when it is a handler's that   *)
(* was given up, the clock's or a crash - leaves to others what they know. *)

RowKept(o) ==
    /\ row'[o].state = row[o].state /\ row'[o].owner = row[o].owner
    /\ row'[o].attempt = row[o].attempt /\ (row[o].leased => row'[o].leased)
LockKept(o) ==
    LockKey[o] # NoKey /\ lock[LockKey[o]] = [op |-> o, live |-> TRUE]
        => lock'[LockKey[o]] = [op |-> o, live |-> TRUE]

ExecutedBeside(P, o) == \E l \in Lanes \ P : Executed(l, o)
HeldBeside(P, o) == \E l \in Lanes \ P : Holding(l, o)
Recovers(P) == \E c \in P \cap Clients : InRecovery(c)
Retries(P, pc, o) == \E c \in P \cap Clients : proc[c].pc = pc /\ proc[c].op = o
PutsBack(P, o) ==
    \/ \E c \in P \cap Clients : proc[c].pc = "recoverRequeue" /\ proc[c].op = o
    \/ \E c \in P \cap Clients : proc[c].pc = "retryWrite" /\ proc[c].op = o /\ o \in holds[c]
    \/ \E l \in P \cap Lanes : proc[l].pc = "requeueWrite" /\ proc[l].op = o

RowSpared(P, o) ==
    /\ ExecutedBeside(P, o) => RowKept(o)
    /\ HeldBeside(P, o) /\ Waiting(o) => ~IsRunning(o)'
    /\ Ended(o) => Ended(o)' \/ Retries(P, "retryWrite", o)
    /\ Withdrawn(o) => Withdrawn(o)' \/ Retries(P, "retryClear", o)
    /\ Lost(o) => IsRunning(o)' \/ Recovers(P)
    /\ Waiting(o)' => Waiting(o) \/ PutsBack(P, o)
    /\ \/ row'[o].attempt = row[o].attempt
       \/ row[o].state = "queued" /\ IsRunning(o)' /\ row'[o].attempt = row[o].attempt + 1

RowsSpared(P) == \A o \in Ops : RowSpared(P, o)
LocksSpared(P) == \A o \in Ops : HeldBeside(P, o) => LockKept(o)
CallsSpared(P) ==
    /\ \A q \in Procs \ P : proc'[q] = proc[q] \/ proc'[q] = Idle
    /\ \A l \in P \cap Lanes, o \in Ops :
         Holding(l, o)' => Holding(l, o) \/ (Waiting(o) /\ ~HeldBeside(P, o))

Spares(P) == RowsSpared(P) /\ LocksSpared(P) /\ CallsSpared(P)

\* An idle process knows nothing.
LEMMA IdleKnows ==
    /\ \A p : Idle.pc = "idle" /\ (proc'[p] = Idle => ~InRecovery(p)' /\ \A o : ~Holding(p, o)')
    /\ \A l \in Lanes : proc'[l] = Idle => LaneKnows(l)'
    /\ \A c \in Clients : proc'[c] = Idle => ClientKnows(c)'
BY DEF Idle, LaneKnows, ClientKnows, Executed, PutBack, Holding, InRecovery

\* An operation that a lane holds runs or waits, and is held by no other; one that a lane
\* executes runs.
LEMMA HoldingFacts ==
    ASSUME CoverInv, NEW l \in Lanes, NEW o \in Ops, Holding(l, o)
    PROVE  /\ Locked(o) /\ ~Ended(o) /\ ~Lost(o)
           /\ IsRunning(o) => Executed(l, o)
           /\ \A m \in Lanes : Holding(m, o) => m = l
<1>1. LaneKnows(l) /\ \A m \in Lanes : Holding(m, o) => m = l
  BY DEF CoverInv, OneHolder
<1>2. CASE Executed(l, o)
  BY <1>1, <1>2 DEF LaneKnows, CoveredBy, Owns, IsRunning, Ended, Lost, Terminal
<1>3. CASE PutBack(l, o)
  BY <1>1, <1>3 DEF LaneKnows, PutBack, Waiting, IsRunning, Ended, Lost, Terminal
<1> QED
  BY <1>1, <1>2, <1>3 DEF Holding

LEMMA ExecutedRuns ==
    ASSUME CoverInv, NEW l \in Lanes, NEW o \in Ops, Executed(l, o)
    PROVE  /\ CoveredBy(l, o) /\ IsRunning(o) /\ row[o].leased
           /\ ~Waiting(o) /\ ~Ended(o) /\ ~Withdrawn(o) /\ ~Lost(o)
           /\ \A m \in Lanes : Holding(m, o) => m = l
<1>1. CoveredBy(l, o)
  BY DEF CoverInv, LaneKnows
<1>2. Holding(l, o)
  BY DEF Holding
<1> QED
  BY <1>1, <1>2, HoldingFacts DEF CoveredBy, Owns, IsRunning, Waiting, Withdrawn

\* What runs, or is lost, or has ended, is held by those alone who execute it.
LEMMA HeldIsExecuted ==
    ASSUME CoverInv, NEW P, NEW o \in Ops
    PROVE  /\ Ended(o) \/ Lost(o) => ~HeldBeside(P, o)
           /\ IsRunning(o) => (HeldBeside(P, o) <=> ExecutedBeside(P, o))
           /\ ExecutedBeside(P, o) => HeldBeside(P, o)
BY HoldingFacts DEF HeldBeside, ExecutedBeside, Holding

\* A lane that takes no part in a step holds afterwards what it has held; and what it has yet
\* to free does not run.
LEMMA HoldingStays ==
    ASSUME CoverInv, RetriesUndisturbed, NEW P, NEW l \in Lanes \ P, Spares(P),
           proc'[l] = proc[l], NEW o \in Ops, proc[l].op = o,
           LockKey[o] # NoKey, proc[l].pc \in {"requeueDelay", "release"}
    PROVE  ~IsRunning(o)' /\ (Waiting(o)' => Holding(l, o))
<1>1. RowSpared(P, o) /\ ~IsRunning(o) /\ l \in Procs
  BY DEF Spares, RowsSpared, CoverInv, LaneKnows, Procs
<1>2. Waiting(o) \/ Ended(o)
  BY <1>1 DEF CoverInv, TypeInv, TypeOK, Rows, States, Waiting, Ended, IsRunning
<1>3. CASE Waiting(o)
  <2>1. Holding(l, o)
    BY <1>3 DEF Holding, PutBack
  <2> QED
    BY <1>1, <1>3, <2>1 DEF RowSpared, HeldBeside
<1>4. CASE Ended(o)
  <2>1. ~Retries(P, "retryWrite", o)
    BY <1>1 DEF Retries, RetriesUndisturbed
  <2>2. Ended(o)'
    BY <1>1, <1>4, <2>1 DEF RowSpared
  <2> QED
    BY <2>2 DEF Ended, Waiting, IsRunning, Terminal
<1> QED
  BY <1>2, <1>3, <1>4

LEMMA HoldingIsOld ==
    ASSUME CoverInv, RetriesUndisturbed, NEW P, NEW l \in Lanes \ P, Spares(P),
           NEW o \in Ops, Holding(l, o)'
    PROVE  proc'[l] = proc[l] /\ Holding(l, o)
<1>1. proc'[l] = proc[l]
  BY IdleKnows DEF Spares, CallsSpared, Procs
<1>2. CASE Executed(l, o)'
  BY <1>1, <1>2 DEF Executed, Holding
<1>3. CASE LockKey[o] # NoKey /\ PutBack(l, o)'
  BY <1>1, <1>3, HoldingStays DEF PutBack
<1> QED
  BY <1>1, <1>2, <1>3 DEF Holding

\* What a lane knows, if it takes no part in a step that spares it.
LEMMA LaneStillKnows ==
    ASSUME CoverInv, RetriesUndisturbed, NEW P, NEW l \in Lanes \ P, Spares(P)
    PROVE  LaneKnows(l)'
<1>1. l \in Procs /\ LaneKnows(l)
  BY DEF Procs, CoverInv
<1>2. CASE proc'[l] = Idle
  BY <1>2, IdleKnows
<1>3. CASE proc'[l] = proc[l]
  <2>1. ASSUME NEW o \in Ops, Holding(l, o)' PROVE Locked(o)'
    <3>1. Holding(l, o)
      BY <2>1, HoldingIsOld
    <3>2. Locked(o) /\ LockKept(o)
      BY <3>1, HoldingFacts DEF Spares, LocksSpared, HeldBeside
    <3> QED
      BY <3>2 DEF Locked, LockKept
  <2>2. ASSUME NEW o \in Ops, Executed(l, o)' PROVE CoveredBy(l, o)'
    <3>1. Executed(l, o) /\ CoveredBy(l, o)
      BY <1>1, <1>3, <2>2 DEF Executed, LaneKnows
    <3>2. RowKept(o)
      BY <3>1 DEF Spares, RowsSpared, RowSpared, ExecutedBeside
    <3>3. Owns(l, o)' /\ row'[o].leased /\ row'[o].attempt = proc'[l].try
      BY <1>3, <3>1, <3>2 DEF CoveredBy, RowKept, Owns, IsRunning
    <3>4. Locked(o)'
      BY <2>1, <2>2 DEF Holding
    <3> QED
      BY <3>3, <3>4 DEF CoveredBy
  <2>3. proc[l].pc \in {"requeueDelay", "release"} => proc[l].op \in Ops
    BY <1>1 DEF CoverInv, TypeInv, BusyOK, Busy
  <2>4. proc'[l].pc \in {"requeueDelay", "release"} =>
          LockKey[proc'[l].op] = NoKey \/ ~IsRunning(proc[l].op)'
    BY <1>3, <2>3, HoldingStays
  <2>5. ASSUME NEW o, ~IsRunning(o)' PROVE o = proc'[l].op => ~IsRunning(proc[l].op)'
    BY <1>3, <2>5 DEF IsRunning
  <2>6. /\ proc'[l].pc \in {"requeueDelay", "release"} =>
             LockKey[proc'[l].op] = NoKey \/ row'[proc'[l].op].state # "running"
        /\ proc'[l].pc \in {"requeue", "requeueWrite"} => proc'[l].try < MaxAttempts[proc'[l].op]
    BY <1>1, <1>3, <2>4 DEF IsRunning, LaneKnows
  <2> QED
    BY <1>1, <1>3, <2>1, <2>2, <2>6 DEF LaneKnows, IsRunning
<1> QED
  BY <1>1, <1>2, <1>3 DEF Spares, CallsSpared

\* What is lost stays so, unless a recovery takes part.
LEMMA LostStays ==
    ASSUME CoverInv, NEW P, Spares(P), NEW o \in Ops, Lost(o), ~Recovers(P)
    PROVE  Lost(o)'
<1>1. IsRunning(o)'
  BY DEF Spares, RowsSpared, RowSpared
<1>2. ASSUME NEW l \in Lanes, Executed(l, o)' PROVE FALSE
  <2>1. ~Holding(l, o) /\ ~Waiting(o) /\ l \in Procs
    BY HoldingFacts DEF Lost, IsRunning, Waiting, Procs
  <2>2. Holding(l, o)'
    BY <1>2 DEF Holding
  <2>3. CASE l \in P
    BY <2>1, <2>2, <2>3 DEF Spares, CallsSpared
  <2>4. CASE l \notin P
    BY <1>2, <2>1, <2>2, <2>4, IdleKnows DEF Spares, CallsSpared, Executed, Holding
  <2> QED
    BY <2>3, <2>4
<1> QED
  BY <1>1, <1>2 DEF Lost

\* What a client knows, if it takes no part in a step that spares it.
LEMMA ClientStillKnows ==
    ASSUME OrderlyUse, CoverInv, RetriesUndisturbed, HistoryUndisturbed,
           NEW P, NEW c \in Clients \ P, Spares(P)
    PROVE  ClientKnows(c)'
<1>1. /\ c \in Procs /\ ClientKnows(c) /\ proc[c].todo \subseteq Ops
      /\ proc[c].pc \in {"finish", "write", "release", "recoverRequeue"} => proc[c].op \in Ops
  BY DEF Procs, CoverInv, TypeInv, TypeOK, Calls, BusyOK, Busy
<1>2. CASE proc'[c] = Idle
  BY <1>2, IdleKnows
<1>3. CASE proc'[c] = proc[c]
  <2>1. ASSUME InRecovery(c) PROVE ~Recovers(P)
    <3>1. \A d \in Clients : InRecovery(d) => d \in Recoverers
      BY DEF CoverInv, ClientKnows
    <3> QED
      BY <2>1, <3>1 DEF Recovers, OrderlyUse
  <2>2. ASSUME NEW o \in Ops
        PROVE  /\ proc[c].op = o /\ proc[c].pc = "release" /\ Ended(o) => Ended(o)'
               /\ proc[c].op = o /\ proc[c].pc \in {"finish", "write"} /\ Withdrawn(o) => Withdrawn(o)'
               /\ InRecovery(c) /\ Lost(o) => Lost(o)' /\ row'[o].attempt = row[o].attempt
               /\ o \in proc[c].todo /\ proc[c].pc = "clear" /\ Ended(o) => Ended(o)'
    <3>1. RowSpared(P, o)
      BY DEF Spares, RowsSpared
    <3>2. /\ proc[c].op = o /\ proc[c].pc = "release" => ~Retries(P, "retryWrite", o)
          /\ proc[c].op = o /\ proc[c].pc \in {"finish", "write"} => ~Retries(P, "retryClear", o)
      BY <1>1 DEF Retries, RetriesUndisturbed
    <3>3. o \in proc[c].todo /\ proc[c].pc = "clear" => ~Retries(P, "retryWrite", o)
      BY DEF Retries, HistoryUndisturbed, Procs
    <3> QED
      BY <2>1, <3>1, <3>2, <3>3, LostStays DEF RowSpared, Lost, IsRunning
  <2>3. InRecovery(c)' <=> InRecovery(c)
    BY <1>3 DEF InRecovery
  <2>4. \A o \in proc'[c].todo : InRecovery(c) => Lost(o)'
    BY <1>1, <1>3, <2>2 DEF ClientKnows
  <2>5. proc'[c].pc = "release" => Ended(proc[c].op)'
    BY <1>1, <1>3, <2>2 DEF ClientKnows, Ended
  <2>6. proc'[c].pc \in {"finish", "write"} /\ proc'[c].mode = "call" => Withdrawn(proc[c].op)'
    BY <1>1, <1>3, <2>2 DEF ClientKnows, Withdrawn, IsRunning
  <2>7. InRecovery(c) /\ proc'[c].pc \in {"finish", "write", "recoverRequeue"}
          => Lost(proc[c].op)' /\ proc'[c].op \notin proc'[c].todo
    <3>1. ASSUME NEW o, Lost(o)', o = proc'[c].op PROVE Lost(proc[c].op)'
      BY <3>1 DEF Lost, IsRunning, Executed
    <3> QED
      BY <1>1, <1>3, <2>2, <3>1 DEF ClientKnows
  <2>8. proc'[c].pc = "recoverRequeue" => row'[proc'[c].op].attempt < MaxAttempts[proc'[c].op]
    BY <1>1, <1>3, <2>2 DEF ClientKnows, InRecovery
  <2>9. proc'[c].pc = "clear" => \A o \in proc'[c].todo : Ended(o)'
    BY <1>1, <1>3, <2>2 DEF ClientKnows
  <2> QED
    BY <1>1, <1>3, <2>3, <2>4, <2>5, <2>6, <2>7, <2>8, <2>9 DEF ClientKnows
<1> QED
  BY <1>1, <1>2, <1>3 DEF Spares, CallsSpared

\* The invariant, from what the actor knows afterwards.
LEMMA CoverKept ==
    ASSUME OrderlyUse, CoverInv, RetriesUndisturbed, HistoryUndisturbed,
           TypeInv', RetriesCounted',
           NEW P, \A p, q \in P : p = q, Spares(P),
           \A l \in P \cap Lanes : LaneKnows(l)', \A c \in P \cap Clients : ClientKnows(c)'
    PROVE  CoverInv'
<1>1. \A l \in Lanes : LaneKnows(l)'
  BY LaneStillKnows
<1>2. \A c \in Clients : ClientKnows(c)'
  BY ClientStillKnows
<1>3. ASSUME NEW l \in Lanes, NEW m \in Lanes, NEW o \in Ops, Holding(l, o)', Holding(m, o)'
      PROVE  l = m
  <2>1. \A n \in Lanes \ P : Holding(n, o)' => Holding(n, o)
    BY HoldingIsOld
  <2>2. \A n \in P \cap Lanes : Holding(n, o)' =>
          Holding(n, o) \/ \A k \in Lanes \ P : ~Holding(k, o)
    BY DEF Spares, CallsSpared, HeldBeside
  <2>3. \A n, k \in Lanes : Holding(n, o) /\ Holding(k, o) => k = n
    BY HoldingFacts
  <2> QED
    BY <1>3, <2>1, <2>2, <2>3
<1>4. ASSUME NEW o \in Ops
      PROVE  /\ row'[o].attempt <= MaxAttempts[o]
             /\ Waiting(o)' => row'[o].attempt < MaxAttempts[o]
  <2>1. /\ row[o].attempt \in Nat /\ row'[o].attempt \in Nat /\ MaxAttempts[o] \in Nat
        /\ row[o].attempt <= MaxAttempts[o]
        /\ Waiting(o) => row[o].attempt < MaxAttempts[o]
    BY ConstantsAssumption DEF CoverInv, AttemptsLeft, TypeInv, TypeOK, Rows
  <2>2. CASE row'[o].attempt = row[o].attempt
    <3>1. PutsBack(P, o) => row[o].attempt < MaxAttempts[o]
      <4>1. ASSUME NEW l \in Lanes, proc[l].pc = "requeueWrite", proc[l].op = o
            PROVE  row[o].attempt < MaxAttempts[o]
        BY <4>1, ExecutedRuns DEF CoverInv, LaneKnows, Executed, CoveredBy
      <4> QED
        BY <4>1 DEF PutsBack, CoverInv, ClientKnows, RetriesCounted
    <3>2. Waiting(o)' => Waiting(o) \/ PutsBack(P, o)
      BY DEF Spares, RowsSpared, RowSpared
    <3> QED
      BY <2>1, <2>2, <3>1, <3>2
  <2>3. CASE row[o].state = "queued" /\ IsRunning(o)' /\ row'[o].attempt = row[o].attempt + 1
    <3>1. Waiting(o) /\ ~Waiting(o)'
      BY <2>3 DEF Waiting, IsRunning
    <3> QED
      BY <2>1, <2>3, <3>1
  <2> QED
    BY <2>2, <2>3 DEF Spares, RowsSpared, RowSpared
<1> QED
  BY <1>1, <1>2, <1>3, <1>4 DEF CoverInv, OneHolder, AttemptsLeft

-----------------------------------------------------------------------------
(* What the steps do to the tables.                                        *)

\* Deleting expired locks takes none that a lane holds, for those have not expired.
LEMMA TablesStay ==
    ASSUME CoverInv, NEW P
    PROVE  /\ UNCHANGED row => RowsSpared(P)
           /\ UNCHANGED lock \/ lock' = Unexpired => LocksSpared(P)
<1>1. LockKey \in [Ops -> Keys \cup {NoKey}] /\ lock \in [Keys -> Locks]
  BY ConstantsAssumption DEF CoverInv, TypeInv, TypeOK
<1>2. UNCHANGED row => RowsSpared(P)
  BY DEF RowsSpared, RowSpared, RowKept, Ended, Withdrawn, Lost, IsRunning, Waiting
<1>3. UNCHANGED lock => LocksSpared(P)
  BY DEF LocksSpared, LockKept
<1>4. lock' = Unexpired => LocksSpared(P)
  BY <1>1 DEF LocksSpared, LockKept, Unexpired
<1> QED
  BY <1>2, <1>3, <1>4

\* Deleting the locks of an operation that nobody else holds.
LEMMA FreedSpares ==
    ASSUME CoverInv, NEW P, NEW x, LockKey[x] = NoKey \/ ~HeldBeside(P, x), lock' = Freed(x)
    PROVE  LocksSpared(P)
<1>1. LockKey \in [Ops -> Keys \cup {NoKey}] /\ lock \in [Keys -> Locks]
  BY ConstantsAssumption DEF CoverInv, TypeInv, TypeOK
<1> SUFFICES ASSUME NEW o \in Ops, HeldBeside(P, o), LockKey[o] # NoKey PROVE LockKept(o)
  BY DEF LocksSpared, LockKept
<1>2. o # x
  OBVIOUS
<1> QED
  BY <1>1, <1>2 DEF LockKept, Freed

\* The operation that a step is about; the others keep their rows.
LEMMA OneRowSpared ==
    ASSUME CoverInv, NEW P, NEW x \in Ops, \A o \in Ops \ {x} : row'[o] = row[o],
           RowSpared(P, x)
    PROVE  RowsSpared(P)
<1>1. ASSUME NEW o \in Ops, row'[o] = row[o] PROVE RowSpared(P, o)
  BY <1>1 DEF RowSpared, RowKept, Ended, Withdrawn, Lost, IsRunning, Waiting
<1> QED
  BY <1>1 DEF RowsSpared

\* A transition: by the lane that executes the operation, by the recovery of a lost one, of
\* one that is not running, or by a retry of one that has ended.
LEMMA MoveSpares ==
    ASSUME CoverInv, NEW P, NEW x \in Ops, NEW s \in Terminal \cup {"queued"}, Move(x, s),
           s \in Transitions[row[x].state], ~ExecutedBeside(P, x),
           Lost(x) => Recovers(P),
           s = "queued" => PutsBack(P, x) /\ (IsRunning(x) \/ Retries(P, "retryWrite", x))
    PROVE  RowsSpared(P) /\ (s \in Terminal => Ended(x)')
<1>1. row \in [Ops -> Rows] /\ row[x] \in Rows
  BY DEF CoverInv, TypeInv, TypeOK
<1>2. /\ \A o \in Ops \ {x} : row'[o] = row[o]
      /\ row'[x] = [row[x] EXCEPT !.state = s, !.owner = NoWorker, !.leased = FALSE]
  BY <1>1 DEF Move
<1>3. row'[x].state = s /\ row'[x].cancel = row[x].cancel /\ row'[x].attempt = row[x].attempt
  BY <1>1, <1>2 DEF Rows
<1>4. s # "running" /\ s # "absent"
  BY DEF Terminal
<1>5. Ended(x) => s = "queued"
  <2>1. row[x].state \in States
    BY <1>1 DEF Rows
  <2> QED
    BY <2>1, TransitionTargets DEF Ended, Terminal
<1>6. Ended(x) => Retries(P, "retryWrite", x)
  BY <1>5 DEF Ended, IsRunning, Terminal
<1>8. row[x].state # "deleted"
  BY TransitionTargets DEF States
<1>7. RowSpared(P, x)
  BY <1>3, <1>4, <1>6, <1>8 DEF RowSpared, Withdrawn, IsRunning, Waiting, Terminal
<1> QED
  BY <1>2, <1>3, <1>7, OneRowSpared DEF Ended

\* The rest: an operation is created or forgotten, its lease renewed or given up, its
\* cancellation requested or cleared.
LEMMA RowChangeSpares ==
    ASSUME CoverInv, NEW P, NEW x \in Ops,
           \/ Created(x) \/ (Forgotten(x) /\ Ended(x))
           \/ IsRunning(x) /\ row' = [row EXCEPT ![x].leased = TRUE]
           \/ IsRunning(x) /\ ~ExecutedBeside(P, x) /\ row' = [row EXCEPT ![x].leased = FALSE]
           \/ \E b \in BOOLEAN : row' = [row EXCEPT ![x].cancel = b] /\ (b \/ Retries(P, "retryClear", x))
    PROVE  RowsSpared(P)
<1>1. row \in [Ops -> Rows] /\ row[x] \in Rows
  BY DEF CoverInv, TypeInv, TypeOK
<1>2. ExecutedBeside(P, x) => IsRunning(x)
  BY ExecutedRuns DEF ExecutedBeside
<1>3. CASE Created(x)
  <2>1. /\ \A o \in Ops \ {x} : row'[o] = row[o]
        /\ row'[x] = [row[x] EXCEPT !.state = "queued"]
    BY <1>1, <1>3 DEF Created
  <2>2. row'[x].state = "queued" /\ row'[x].cancel = row[x].cancel /\ row'[x].attempt = row[x].attempt
    BY <1>1, <2>1 DEF Rows
  <2>3. RowSpared(P, x)
    BY <1>2, <1>3, <2>2 DEF Created, RowSpared, Ended, Withdrawn, Lost, IsRunning, Waiting, Terminal
  <2> QED
    BY <2>1, <2>3, OneRowSpared
<1>4. CASE Forgotten(x) /\ Ended(x)
  <2>1. /\ \A o \in Ops \ {x} : row'[o] = row[o]
        /\ row'[x] = [NoRow EXCEPT !.state = "deleted", !.attempt = row[x].attempt]
    BY <1>1, <1>4 DEF Forgotten
  <2>2. row'[x].state = "deleted" /\ row'[x].attempt = row[x].attempt
    BY <2>1 DEF NoRow
  <2>3. RowSpared(P, x)
    BY <1>2, <1>4, <2>2 DEF Forgotten, RowSpared, Ended, Withdrawn, Lost, IsRunning, Waiting, Terminal
  <2> QED
    BY <2>1, <2>3, OneRowSpared
<1>5. ASSUME NEW b \in BOOLEAN, IsRunning(x), b \/ ~ExecutedBeside(P, x),
             row' = [row EXCEPT ![x].leased = b]
      PROVE  RowsSpared(P)
  <2>1. /\ \A o \in Ops \ {x} : row'[o] = row[o]
        /\ row'[x] = [row[x] EXCEPT !.leased = b]
    BY <1>1, <1>5
  <2>2. /\ row'[x].state = row[x].state /\ row'[x].cancel = row[x].cancel
        /\ row'[x].attempt = row[x].attempt /\ row'[x].owner = row[x].owner
        /\ row'[x].leased = b
    BY <1>1, <2>1 DEF Rows
  <2>3. RowSpared(P, x)
    BY <1>5, <2>2 DEF RowSpared, RowKept, Ended, Withdrawn, Lost, IsRunning, Waiting
  <2> QED
    BY <2>1, <2>3, OneRowSpared
<1>6. ASSUME NEW b \in BOOLEAN, row' = [row EXCEPT ![x].cancel = b],
             b \/ Retries(P, "retryClear", x)
      PROVE  RowsSpared(P)
  <2>1. /\ \A o \in Ops \ {x} : row'[o] = row[o]
        /\ row'[x] = [row[x] EXCEPT !.cancel = b]
    BY <1>1, <1>6
  <2>2. /\ row'[x].state = row[x].state /\ row'[x].cancel = b
        /\ row'[x].attempt = row[x].attempt /\ row'[x].owner = row[x].owner
        /\ row'[x].leased = row[x].leased
    BY <1>1, <2>1 DEF Rows
  <2>3. RowSpared(P, x)
    BY <1>6, <2>2 DEF RowSpared, RowKept, Ended, Withdrawn, Lost, IsRunning, Waiting
  <2> QED
    BY <2>1, <2>3, OneRowSpared
<1>7. CASE \E b \in BOOLEAN : row' = [row EXCEPT ![x].cancel = b] /\ (b \/ Retries(P, "retryClear", x))
  BY <1>6, <1>7
<1>8. CASE IsRunning(x) /\ row' = [row EXCEPT ![x].leased = TRUE]
  BY <1>5, <1>8
<1>9. CASE IsRunning(x) /\ ~ExecutedBeside(P, x) /\ row' = [row EXCEPT ![x].leased = FALSE]
  BY <1>5, <1>9
<1> QED
  BY <1>3, <1>4, <1>7, <1>8, <1>9

\* One process moves on; a lane begins to hold nothing but what was waiting and free.
LEMMA OneCallSpares ==
    ASSUME NEW p \in Procs, ProcOnly(p),
           p \in Lanes => \A o \in Ops :
             Holding(p, o)' => Holding(p, o) \/ (Waiting(o) /\ ~HeldBeside({p}, o))
    PROVE  CallsSpared({p})
BY DEF CallsSpared, ProcOnly

-----------------------------------------------------------------------------
(* The steps, one by one, and what the actor knows afterwards.             *)

Covers(P) ==
    /\ Spares(P)
    /\ \A l \in P \cap Lanes : LaneKnows(l)'
    /\ \A c \in P \cap Clients : ClientKnows(c)'

\* What there is to show of a step of one lane ...
LEMMA LaneActs ==
    ASSUME NEW l \in Lanes, ProcOnly(l), RowsSpared({l}), LocksSpared({l}), LaneKnows(l)',
           \A o \in Ops : Holding(l, o)' => Holding(l, o) \/ (Waiting(o) /\ ~HeldBeside({l}, o))
    PROVE  Covers({l})
<1>1. l \in Procs /\ l \notin Clients
  BY ConstantsAssumption DEF Procs
<1> QED
  BY <1>1, OneCallSpares DEF Covers, Spares

\* ... of one client ...
LEMMA ClientActs ==
    ASSUME NEW c \in Clients, ProcOnly(c), RowsSpared({c}), LocksSpared({c}), ClientKnows(c)'
    PROVE  Covers({c})
<1>1. c \in Procs /\ c \notin Lanes
  BY ConstantsAssumption DEF Procs
<1> QED
  BY <1>1, OneCallSpares DEF Covers, Spares

\* ... and of a step that leaves all calls alone, or drops some.
LEMMA NobodyActs ==
    ASSUME RowsSpared({}), LocksSpared({}),
           UNCHANGED proc \/ \A q \in Procs : proc'[q] = proc[q] \/ proc'[q] = Idle
    PROVE  Covers({})
BY DEF Covers, Spares, CallsSpared

\* A lane that looks for work, or has none.
LEMMA LaneLooks ==
    ASSUME CoverInv, NEW l \in Lanes, ProcOnly(l), RowsSpared({l}), LocksSpared({l}),
           proc'[l] = Idle \/ (proc'[l].pc = "scan" /\ proc'[l].mode # "recover")
    PROVE  Covers({l})
<1>1. (\A o \in Ops : ~Executed(l, o)' /\ ~Holding(l, o)') /\ LaneKnows(l)'
  BY IdleKnows DEF Executed, PutBack, Holding, LaneKnows
<1> QED
  BY <1>1, LaneActs

\* A lane on its way from its handler to writing the outcome.
LEMMA LaneGoesOn ==
    ASSUME CoverInv, NEW l \in Lanes, ProcOnly(l), UNCHANGED <<row, lock>>, SameCall(l),
           proc[l].pc \in {"run", "finish", "write", "requeue"},
           proc'[l].pc \in {"finish", "write", "requeue", "requeueWrite"},
           proc'[l].pc \in {"requeue", "requeueWrite"} => proc[l].try < MaxAttempts[proc[l].op],
           proc'[l].mode # "recover"
    PROVE  Covers({l})
<1>1. RowsSpared({l}) /\ LocksSpared({l})
  BY TablesStay
<1>2. ASSUME NEW o \in Ops, Holding(l, o)' PROVE Executed(l, o) /\ Executed(l, o)' /\ CoveredBy(l, o)'
  <2>1. Executed(l, o)' /\ Executed(l, o)
    BY <1>2 DEF Holding, PutBack, Executed, SameCall
  <2>2. CoveredBy(l, o)
    BY <2>1, ExecutedRuns
  <2> QED
    BY <2>1, <2>2 DEF CoveredBy, Locked, Owns, IsRunning, SameCall
<1>3. LaneKnows(l)'
  <2>1. \A o \in Ops : (Executed(l, o)' => Holding(l, o)') /\ (CoveredBy(l, o)' => Locked(o)')
    BY DEF Holding, CoveredBy
  <2> QED
    BY <1>2, <2>1 DEF LaneKnows, SameCall
<1> QED
  BY <1>1, <1>2, <1>3, LaneActs DEF Holding

\* Who is about to end an operation in a lane, or to put it back, executes it, alone.
LEMMA LaneExecutes ==
    ASSUME CoverInv, NEW l \in Lanes,
           proc[l].pc \in {"run", "finish", "write", "requeue", "requeueWrite"},
           NEW x, x = proc[l].op
    PROVE  /\ x \in Ops /\ Executed(l, x) /\ IsRunning(x) /\ ~Lost(x)
           /\ ~ExecutedBeside({l}, x) /\ l \in Procs
<1>1. l \in Procs /\ x \in Ops
  BY DEF Procs, CoverInv, TypeInv, BusyOK, Busy
<1>2. Executed(l, x)
  BY DEF Executed
<1> QED
  BY <1>1, <1>2, ExecutedRuns DEF ExecutedBeside, Holding

\* A claim gives a lane an operation that nobody executes, and a lock that nobody has.
LEMMA ClaimCovers ==
    ASSUME OrderlyUse, CoverInv, NEW l \in Lanes, Claim(l)
    PROVE  Covers({l})
<1>1. l \in Procs /\ TypeInv /\ proc[l].mode # "recover" /\ proc[l].pc = "scan"
  BY DEF Procs, CoverInv, LaneKnows, Claim
<1>2. PICK o \in proc[l].todo : (ClaimSkips(l, o) \/ ClaimCancels(l, o))
                                \/ (ClaimThrows(l, o) \/ ClaimSucceeds(l, o))
  BY DEF Claim
<1>3. o \in Ops /\ row \in [Ops -> Rows] /\ row[o] \in Rows /\ lock \in [Keys -> Locks]
  BY <1>1 DEF TypeInv, TypeOK, Calls
<1>4. row[o].state = "queued" => ~ExecutedBeside({l}, o) /\ ~Lost(o) /\ ~Executed(l, o)
  BY <1>3, ExecutedRuns DEF ExecutedBeside, Lost, IsRunning
<1>5. CASE ClaimSkips(l, o)
  <2>1. UNCHANGED row /\ lock' = Unexpired /\ NextCandidate(l, o)
    BY <1>5 DEF ClaimSkips
  <2> QED
    BY <1>1, <2>1, TablesStay, CallNext, LaneLooks
<1>6. CASE ClaimCancels(l, o)
  <2>1. /\ Move(o, "cancelled") /\ lock' = Unexpired /\ NextCandidate(l, o)
        /\ row[o].state = "queued"
    BY <1>6 DEF ClaimCancels, Claimable
  <2>2. "cancelled" \in Transitions[row[o].state] /\ "cancelled" \in Terminal
    BY <2>1 DEF Transitions, States, Terminal
  <2>3. RowsSpared({l})
    BY <1>3, <1>4, <2>1, <2>2, MoveSpares
  <2> QED
    BY <1>1, <2>1, <2>3, TablesStay, CallNext, LaneLooks
<1>7. CASE ClaimThrows(l, o)
  <2>1. UNCHANGED <<row, lock>> /\ Return(l)
    BY <1>7 DEF ClaimThrows
  <2> QED
    BY <1>1, <2>1, TablesStay, CallReturns, LaneLooks
<1>8. CASE ClaimSucceeds(l, o)
  <2>1. /\ row[o].state = "queued" /\ ~row[o].cancel /\ ~BlockedByLock(o) /\ ~InsertConflicts(o)
        /\ lock' = [k \in Keys |-> IF k = LockKey[o] THEN [op |-> o, live |-> TRUE]
                                                     ELSE Unexpired[k]]
        /\ BeginsRun(l, o, row[o].attempt + 1)
    BY <1>8 DEF ClaimSucceeds, Grantable, Claimable, BlockReason, BeginsRun
  <2>2. Begun(l, "run", o, "none", row[o].attempt + 1, {})
    BY <1>1, <2>1, CallBegins
  <2>3. /\ \A q \in Ops \ {o} : row'[q] = row[q]
        /\ row'[o] = [row[o] EXCEPT !.state = "running", !.owner = WorkerOf[l],
                                    !.attempt = row[o].attempt + 1, !.leased = TRUE]
    BY <1>3, <1>8 DEF ClaimSucceeds
  <2>4. /\ row'[o].state = "running" /\ row'[o].owner = WorkerOf[l] /\ row'[o].leased
        /\ row'[o].attempt = row[o].attempt + 1
    BY <1>3, <2>3 DEF Rows
  <2>6. LockKey \in [Ops -> Keys \cup {NoKey}] /\ NoKey \notin Keys /\ NoOp \notin Ops
    BY ConstantsAssumption
  <2>11. ~HeldBeside({l}, o)
    <3> SUFFICES ASSUME NEW m \in Lanes, Holding(m, o) PROVE FALSE
      BY DEF HeldBeside
    <3>1. ~Executed(m, o) /\ Locked(o)
      <4>1. ~IsRunning(o)
        BY <2>1 DEF IsRunning
      <4> QED
        BY <1>3, <4>1, ExecutedRuns, HoldingFacts
    <3>2. LockKey[o] \in Keys /\ lock[LockKey[o]] = [op |-> o, live |-> TRUE]
      BY <1>3, <2>6, <3>1 DEF Holding, Locked
    <3>3. Unexpired[LockKey[o]] = lock[LockKey[o]] /\ lock[LockKey[o]].op = o
      BY <3>2 DEF Unexpired
    <3> QED
      BY <2>1, <2>6, <3>2, <3>3 DEF InsertConflicts
  <2>5. RowsSpared({l})
    <3>1. RowSpared({l}, o)
      BY <1>4, <2>1, <2>4, <2>11
      DEF RowSpared, Ended, Withdrawn, Waiting, IsRunning, Terminal
    <3> QED
      BY <1>3, <2>3, <3>1, OneRowSpared
  <2>7. LocksSpared({l})
    <3> SUFFICES ASSUME NEW q \in Ops, HeldBeside({l}, q), LockKey[q] # NoKey,
                        lock[LockKey[q]] = [op |-> q, live |-> TRUE]
                 PROVE  lock'[LockKey[q]] = [op |-> q, live |-> TRUE]
      BY DEF LocksSpared, LockKept
    <3>1. q # o /\ LockKey[q] \in Keys
      BY <2>6, <2>11
    <3>2. Unexpired[LockKey[q]] = lock[LockKey[q]] /\ lock[LockKey[q]].op = q
      BY <3>1 DEF Unexpired
    <3>3. LockKey[q] # LockKey[o]
      BY <2>1, <2>6, <3>1, <3>2 DEF BlockedByLock
    <3> QED
      BY <2>1, <3>1, <3>2, <3>3
  <2>8. ASSUME NEW q \in Ops, Executed(l, q)' \/ Holding(l, q)' PROVE q = o
    BY <2>2, <2>8 DEF Executed, PutBack, Holding, Begun
  <2>9. CoveredBy(l, o)'
    <3>1. Owns(l, o)' /\ row'[o].leased /\ row'[o].attempt = proc'[l].try
      BY <2>2, <2>4 DEF Owns, IsRunning, Begun
    <3>2. LockKey[o] # NoKey => lock'[LockKey[o]] = [op |-> o, live |-> TRUE]
      BY <1>3, <2>1, <2>6
    <3> QED
      BY <3>1, <3>2 DEF CoveredBy, Locked
  <2>10. LaneKnows(l)'
    <3>1. Locked(o)'
      BY <2>9 DEF CoveredBy
    <3> QED
      BY <2>2, <2>8, <2>9, <3>1 DEF LaneKnows, Begun
  <2>12. Waiting(o) /\ ProcOnly(l)
    BY <2>1, <2>2 DEF Begun, Waiting
  <2> QED
    BY <2>5, <2>7, <2>8, <2>10, <2>11, <2>12, LaneActs
<1> QED
  BY <1>2, <1>5, <1>6, <1>7, <1>8

\* The steps of a lane.
LEMMA LaneCovers ==
    ASSUME OrderlyUse, CoverInv, NEW l \in Lanes, LaneStep(l) \/ ProcStep(l)
    PROVE  Covers({l})
<1>1. l \in Procs /\ TypeInv /\ proc[l].mode # "recover"
      /\ proc[l].pc \notin {"insertJob", "retryWrite", "retryClear"} /\ LaneKnows(l)
  BY DEF Procs, CoverInv, LaneKnows
<1>2. PICK x : x = proc[l].op
  OBVIOUS
<1>3. CASE StartScan(l)
  <2>1. BeginsList(l, "scan", FirstCandidates) /\ UNCHANGED <<row, lock>>
    BY <1>3 DEF StartScan, BeginsList
  <2>2. Begun(l, "scan", NoOp, "none", 0, FirstCandidates)
    BY <1>1, <2>1, CallBegins
  <2> QED
    BY <2>1, <2>2, TablesStay, LaneLooks DEF Begun
<1>4. CASE HandlerReturns(l) \/ HandlerThrows(l) \/ HandlerAborted(l) \/ TrackedReturns(l)
  <2>1. /\ proc[l].pc = "run" /\ UNCHANGED <<row, lock>>
        /\ \/ \E s : \E m \in {"try", "catch"} : Conclude(l, s, m)
           \/ Goto(l, "requeue") /\ proc[l].try < MaxAttempts[proc[l].op]
    BY <1>4 DEF HandlerReturns, HandlerThrows, HandlerAborted, TrackedReturns, OrderlyUse
  <2>2. CASE \E s : \E m \in {"try", "catch"} : Conclude(l, s, m)
    BY <1>1, <2>1, <2>2, CallConcludes, LaneGoesOn
  <2>3. CASE Goto(l, "requeue") /\ proc[l].try < MaxAttempts[proc[l].op]
    BY <1>1, <2>1, <2>3, CallGoes, LaneGoesOn
  <2> QED
    BY <2>1, <2>2, <2>3
<1>5. CASE FinishRead(l)
  <2>1. proc[l].pc = "finish" /\ row[x].state # "deleted"
    BY <1>2, <1>5, LaneExecutes DEF FinishRead, IsRunning
  <2>2. Goto(l, "write") /\ UNCHANGED <<row, lock>>
    BY <1>2, <1>5, <2>1 DEF FinishRead
  <2> QED
    BY <1>1, <2>1, <2>2, CallGoes, LaneGoesOn
<1>6. CASE FinishWrite(l)
  <2>1. proc[l].pc = "write" /\ UNCHANGED lock
    BY <1>6 DEF FinishWrite
  <2>2. x \in Ops /\ ~Lost(x) /\ ~ExecutedBeside({l}, x) /\ proc[l].goal \in Terminal
    BY <1>1, <1>2, <2>1, LaneExecutes DEF TypeInv, TypeOK, Calls
  <2>3. CASE CanMove(l, x, proc[l].goal) /\ Move(x, proc[l].goal) /\ Goto(l, "release")
    <3>1. PICK s \in Terminal : s = proc[l].goal
      BY <2>2
    <3>2. s # "queued" /\ s \in Transitions[row[x].state] /\ Move(x, s)
      BY <2>3, <3>1 DEF CanMove, Terminal
    <3>3. RowsSpared({l}) /\ Ended(x)'
      BY <2>2, <3>2, MoveSpares
    <3>4. /\ proc'[l].pc = "release" /\ proc'[l].op = x /\ proc'[l].mode # "recover"
          /\ ProcOnly(l)
      BY <1>1, <1>2, <2>3, CallGoes DEF SameCall
    <3>5. ~Waiting(x)' /\ ~IsRunning(x)'
      BY <3>3 DEF Ended, Waiting, IsRunning, Terminal
    <3>6. \A o \in Ops : ~Executed(l, o)' /\ ~Holding(l, o)'
      BY <3>4, <3>5 DEF Executed, PutBack, Holding, Waiting
    <3>7. LaneKnows(l)'
      BY <3>4, <3>5, <3>6 DEF LaneKnows, IsRunning
    <3> QED
      BY <2>1, <3>3, <3>4, <3>6, <3>7, TablesStay, LaneActs
  <2>4. CASE Thrown(l) /\ UNCHANGED row
    <3>1. \/ proc'[l] = Idle
          \/ proc'[l].mode = "catch" /\ proc'[l].pc = "finish" /\ SameCall(l)
      BY <1>1, <2>4, CallThrows
    <3>2. ProcOnly(l)
      BY <1>1, <2>4, CallThrows
    <3> QED
      BY <2>1, <2>4, <3>1, <3>2, TablesStay, LaneLooks, LaneGoesOn
  <2> QED
    BY <1>2, <1>6, <2>3, <2>4 DEF FinishWrite
<1>7. CASE Release(l)
  <2>1. /\ x \in Ops /\ lock' = Freed(x) /\ UNCHANGED row /\ Return(l) /\ proc[l].pc = "release"
        /\ LockKey[x] = NoKey \/ ~IsRunning(x)
    BY <1>1, <1>2, <1>7 DEF Release, LaneKnows, TypeInv, BusyOK, Busy
  <2>2. LockKey[x] = NoKey \/ ~HeldBeside({l}, x)
    <3>1. CASE Ended(x)
      BY <2>1, <3>1, HeldIsExecuted
    <3>2. CASE Waiting(x) /\ LockKey[x] # NoKey
      <4>1. Holding(l, x)
        BY <1>2, <2>1, <3>2 DEF Holding, PutBack
      <4> QED
        BY <2>1, <4>1, HoldingFacts DEF HeldBeside
    <3>3. Ended(x) \/ Waiting(x) \/ IsRunning(x)
      BY <1>1, <2>1 DEF TypeInv, TypeOK, Rows, States, Ended, Waiting, IsRunning
    <3> QED
      BY <2>1, <3>1, <3>2, <3>3
  <2>3. LocksSpared({l}) /\ RowsSpared({l})
    BY <2>1, <2>2, FreedSpares, TablesStay
  <2> QED
    BY <1>1, <2>1, <2>3, CallReturns, LaneLooks
<1>8. CASE RequeueRead(l)
  <2>1. proc[l].pc = "requeue" /\ Goto(l, "requeueWrite") /\ UNCHANGED <<row, lock>>
    BY <1>8 DEF RequeueRead
  <2>2. proc[l].try < MaxAttempts[proc[l].op]
    BY <1>1, <2>1 DEF LaneKnows
  <2> QED
    BY <1>1, <2>1, <2>2, CallGoes, LaneGoesOn
<1>9. CASE RequeueWrite(l)
  <2>1. proc[l].pc = "requeueWrite" /\ UNCHANGED lock
    BY <1>9 DEF RequeueWrite
  <2>2. x \in Ops /\ Executed(l, x) /\ IsRunning(x) /\ ~Lost(x) /\ ~ExecutedBeside({l}, x)
    BY <1>2, <2>1, LaneExecutes
  <2>3. CASE CanMove(l, x, "queued") /\ Move(x, "queued") /\ Goto(l, "requeueDelay")
    <3>1. PutsBack({l}, x)
      BY <1>2, <2>1 DEF PutsBack
    <3>2. RowsSpared({l})
      BY <2>2, <2>3, <3>1, MoveSpares DEF CanMove
    <3>3. ~IsRunning(x)'
      <4>1. row \in [Ops -> Rows] /\ row[x] \in Rows
        BY <1>1, <2>2 DEF TypeInv, TypeOK
      <4> QED
        BY <2>2, <2>3, <4>1 DEF Move, Rows, IsRunning
    <3>4. /\ proc'[l].pc = "requeueDelay" /\ proc'[l].op = x /\ proc'[l].mode # "recover"
          /\ ProcOnly(l)
      BY <1>1, <1>2, <2>3, CallGoes DEF SameCall
    <3>5. Holding(l, x) /\ Locked(x)
      BY <2>2, HoldingFacts DEF Holding
    <3>6. ASSUME NEW o \in Ops, Holding(l, o)' PROVE Holding(l, o) /\ Locked(o)'
      <4>1. o = x
        BY <3>4, <3>6 DEF Holding, Executed, PutBack
      <4> QED
        BY <2>1, <3>5, <4>1 DEF Locked
    <3>7. LaneKnows(l)'
      <4>1. \A o \in Ops : ~Executed(l, o)'
        BY <3>4 DEF Executed
      <4> QED
        BY <3>3, <3>4, <3>6, <4>1 DEF LaneKnows, IsRunning
    <3> QED
      BY <2>1, <3>2, <3>4, <3>6, <3>7, TablesStay, LaneActs
  <2>4. CASE Abort(l) /\ UNCHANGED row
    BY <1>1, <2>1, <2>4, TablesStay, CallReturns, LaneLooks DEF Abort
  <2> QED
    BY <1>2, <1>9, <2>3, <2>4 DEF RequeueWrite
<1>10. CASE RequeueDelay(l)
  <2>1. proc[l].pc = "requeueDelay" /\ Goto(l, "release") /\ UNCHANGED <<row, lock>>
    BY <1>10 DEF RequeueDelay
  <2>2. /\ proc'[l].pc = "release" /\ proc'[l].op = proc[l].op /\ proc'[l].mode # "recover"
        /\ ProcOnly(l)
    BY <1>1, <2>1, CallGoes DEF SameCall
  <2>3. \A o \in Ops : ~Executed(l, o)' /\ (Holding(l, o)' => Holding(l, o))
    BY <2>1, <2>2 DEF Holding, PutBack, Executed, Waiting
  <2>4. LaneKnows(l)'
    BY <1>1, <2>1, <2>2, <2>3 DEF LaneKnows, Locked, IsRunning
  <2> QED
    BY <2>1, <2>2, <2>3, <2>4, TablesStay, LaneActs
<1> QED
  BY <1>1, <1>3, <1>4, <1>5, <1>6, <1>7, <1>8, <1>9, <1>10, ClaimCovers
  DEF LaneStep, ProcStep, InsertJob

\* What is lost stays so beside a client that leaves its row alone.
LEMMA LostBeside ==
    ASSUME NEW c \in Clients, ProcOnly(c), NEW o, Lost(o), row'[o].state = row[o].state
    PROVE  Lost(o)'
<1>1. \A l \in Lanes : l \in Procs \ {c}
  BY ConstantsAssumption DEF Procs
<1> QED
  BY <1>1 DEF ProcOnly, Lost, IsRunning, Executed

\* Expired operations are executed by nobody: lanes keep their leases.
LEMMA ExpiredIsLost ==
    ASSUME CoverInv, NEW o \in Expired
    PROVE  o \in Ops /\ Lost(o)
BY ExecutedRuns DEF Expired, Lost

\* A client that is back from its call, and one that starts a call about no operation
\* that others know of.
LEMMA ClientReturns ==
    ASSUME CoverInv, NEW c \in Clients, ProcOnly(c), RowsSpared({c}), LocksSpared({c}),
           proc'[c] = Idle \/ (proc'[c].pc = "insertJob" /\ proc'[c].mode = "none")
    PROVE  Covers({c})
<1>1. ClientKnows(c)'
  BY IdleKnows DEF ClientKnows, InRecovery
<1> QED
  BY <1>1, ClientActs

\* A recovery, between two operations of its list.
LEMMA ClientRecovers ==
    ASSUME CoverInv, NEW c \in Clients, ProcOnly(c), RowsSpared({c}), LocksSpared({c}),
           c \in Recoverers, \A o \in proc'[c].todo : Lost(o) /\ row'[o].state = row[o].state,
           \/ proc'[c].pc = "recover" /\ proc'[c].mode = "recover"
           \/ proc'[c].pc = "reconcile"
    PROVE  Covers({c})
<1>1. \A o \in proc'[c].todo : Lost(o)'
  BY LostBeside
<1>2. ClientKnows(c)'
  BY <1>1 DEF ClientKnows, InRecovery
<1> QED
  BY <1>2, ClientActs

\* A recovery takes the next operation of its list and deletes its lock.
LEMMA RecoverRowCovers ==
    ASSUME OrderlyUse, CoverInv, NEW c \in Clients, RecoverRow(c)
    PROVE  Covers({c})
<1>1. c \in Procs /\ TypeInv /\ proc[c].pc = "recover" /\ proc[c].todo \subseteq Ops
  BY DEF Procs, CoverInv, TypeInv, TypeOK, Calls, RecoverRow
<1>2. c \in Recoverers /\ proc[c].mode = "recover" /\ \A o \in proc[c].todo : Lost(o)
  BY <1>1 DEF CoverInv, ClientKnows, InRecovery
<1>3. ProcOnly(c) /\ UNCHANGED row /\ RowsSpared({c})
  BY <1>1, CallRecovers, TablesStay
<1>4. CASE proc'[c] = Idle /\ UNCHANGED lock
  BY <1>3, <1>4, TablesStay, ClientReturns
<1>5. ASSUME NEW o \in proc[c].todo,
             proc'[c].op = o, proc'[c].todo = proc[c].todo \ {o}, proc'[c].mode = proc[c].mode,
             lock' = Freed(o),
             \/ proc'[c].pc = "finish"
             \/ proc'[c].pc = "recoverRequeue" /\ RunsAgain(o)
      PROVE  Covers({c})
  <2>1. LocksSpared({c})
    <3>1. o \in Ops /\ Lost(o)
      BY <1>1, <1>2
    <3>2. ~HeldBeside({c}, o)
      BY <3>1, HeldIsExecuted
    <3> QED
      BY <1>5, <3>2, FreedSpares
  <2>2. Lost(o)' /\ \A q \in proc'[c].todo : Lost(q)'
    BY <1>2, <1>3, <1>5, LostBeside
  <2>3. Lost(proc[c].op)' /\ proc'[c].op \notin proc'[c].todo
    BY <1>5, <2>2 DEF Lost, IsRunning, Executed
  <2>4. proc'[c].pc = "recoverRequeue" => row'[proc'[c].op].attempt < MaxAttempts[proc'[c].op]
    BY <1>3, <1>5 DEF RunsAgain
  <2>5. ClientKnows(c)'
    BY <1>2, <1>5, <2>2, <2>3, <2>4 DEF ClientKnows, InRecovery
  <2> QED
    BY <1>3, <2>1, <2>5, ClientActs
<1> QED
  BY <1>1, <1>4, <1>5, CallRecovers

\* The recovery ends an operation, or puts it back, and goes on with the others.
LEMMA RecoverRequeueCovers ==
    ASSUME OrderlyUse, CoverInv, NEW c \in Clients, RecoverRequeue(c)
    PROVE  Covers({c})
<1>1. PICK x : x = proc[c].op
  OBVIOUS
<1>2. /\ c \in Procs /\ TypeInv /\ proc[c].pc = "recoverRequeue" /\ x \in Ops
      /\ proc[c].todo \subseteq Ops
  BY <1>1 DEF Procs, CoverInv, TypeInv, TypeOK, Calls, BusyOK, Busy, RecoverRequeue
<1>3. /\ c \in Recoverers /\ proc[c].mode = "recover" /\ \A o \in proc[c].todo : Lost(o)
      /\ Lost(x) /\ x \notin proc[c].todo
  BY <1>1, <1>2 DEF CoverInv, ClientKnows, InRecovery
<1>4. UNCHANGED lock /\ LocksSpared({c})
  BY TablesStay DEF RecoverRequeue
<1>5. CASE Abort(c) /\ UNCHANGED row
  BY <1>2, <1>4, <1>5, TablesStay, CallReturns, ClientReturns DEF Abort
<1>6. CASE CanMove(c, x, "queued") /\ Move(x, "queued") /\ Goto(c, "recover")
  <2>1. /\ ProcOnly(c) /\ proc'[c].pc = "recover" /\ proc'[c].mode = "recover"
        /\ proc'[c].todo = proc[c].todo
    BY <1>2, <1>3, <1>6, CallGoes DEF SameCall
  <2>2. IsRunning(x) /\ ~ExecutedBeside({c}, x)
    BY <1>3 DEF Lost, ExecutedBeside
  <2>3. Recovers({c}) /\ PutsBack({c}, x)
    BY <1>1, <1>2 DEF Recovers, PutsBack, InRecovery
  <2>4. RowsSpared({c})
    BY <1>2, <1>6, <2>2, <2>3, MoveSpares DEF CanMove
  <2>5. \A o \in proc'[c].todo : Lost(o) /\ row'[o].state = row[o].state
    BY <1>2, <1>3, <1>6, <2>1 DEF Move, TypeInv, TypeOK
  <2> QED
    BY <1>3, <1>4, <2>1, <2>4, <2>5, ClientRecovers
<1> QED
  BY <1>1, <1>5, <1>6 DEF RecoverRequeue

\* What a recovery has not put back or ended fails.
LEMMA ReconcileCovers ==
    ASSUME OrderlyUse, CoverInv, NEW c \in Clients, Reconcile(c) \/ ReconcileRow(c)
    PROVE  Covers({c})
<1>1. /\ c \in Procs /\ TypeInv /\ proc[c].todo \subseteq Ops
      /\ proc[c].pc \in {"recover", "reconcile"} /\ UNCHANGED lock /\ LocksSpared({c})
  BY TablesStay DEF Procs, CoverInv, TypeInv, TypeOK, Calls, Reconcile, ReconcileRow
<1>2. c \in Recoverers /\ (\A o \in proc[c].todo : Lost(o)) /\ InRecovery(c)
  BY <1>1 DEF CoverInv, ClientKnows, InRecovery
<1>3. ASSUME Abort(c), UNCHANGED row PROVE Covers({c})
  BY <1>1, <1>3, TablesStay, CallReturns, ClientReturns DEF Abort
<1>4. CASE Reconcile(c)
  <2>1. UNCHANGED row /\ (Abort(c) \/ BeginsList(c, "reconcile", Expired))
    BY <1>4 DEF Reconcile, BeginsList
  <2>2. ASSUME BeginsList(c, "reconcile", Expired) PROVE Covers({c})
    <3>1. Begun(c, "reconcile", NoOp, "none", 0, Expired)
      BY <1>1, <2>2, CallBegins
    <3>2. ProcOnly(c) /\ proc'[c].pc = "reconcile" /\ proc'[c].todo = Expired
      BY <3>1 DEF Begun
    <3>3. \A o \in Expired : Lost(o) /\ row'[o].state = row[o].state
      BY <2>1, ExpiredIsLost
    <3> QED
      BY <1>1, <1>2, <2>1, <3>2, <3>3, TablesStay, ClientRecovers
  <2> QED
    BY <1>3, <2>1, <2>2
<1>5. CASE ReconcileRow(c)
  <2>1. PICK o \in proc[c].todo : \/ CanMove(c, o, "failed") /\ Move(o, "failed") /\ NextCandidate(c, o)
                                  \/ Abort(c) /\ UNCHANGED row
    BY <1>5 DEF ReconcileRow
  <2>2. o \in Ops /\ Lost(o) /\ proc[c].pc = "reconcile"
    BY <1>1, <1>2, <1>5 DEF ReconcileRow
  <2>3. CASE CanMove(c, o, "failed") /\ Move(o, "failed") /\ NextCandidate(c, o)
    <3>1. /\ ProcOnly(c)
          /\ proc'[c] = Idle \/ (proc'[c].pc = "reconcile" /\ proc'[c].todo = proc[c].todo \ {o})
      BY <1>1, <2>2, <2>3, CallNext
    <3>2. ~ExecutedBeside({c}, o) /\ Recovers({c})
      BY <1>2, <2>2 DEF Lost, ExecutedBeside, Recovers
    <3>3. RowsSpared({c})
      BY <2>2, <2>3, <3>2, MoveSpares DEF CanMove, Terminal
    <3>4. \A q \in proc[c].todo \ {o} : Lost(q) /\ row'[q].state = row[q].state
      BY <1>1, <1>2, <2>3 DEF Move, TypeInv, TypeOK
    <3> QED
      BY <1>1, <1>2, <3>1, <3>3, <3>4, ClientReturns, ClientRecovers
  <2> QED
    BY <1>3, <2>1, <2>3
<1> QED
  BY <1>4, <1>5

\* Ending an operation: of a client's own call, or of the recovery.
LEMMA FinishCovers ==
    ASSUME OrderlyUse, CoverInv, NEW c \in Clients, FinishRead(c) \/ FinishWrite(c) \/ Release(c)
    PROVE  Covers({c})
<1>1. PICK x : x = proc[c].op
  OBVIOUS
<1>2. /\ c \in Procs /\ TypeInv /\ proc[c].todo \subseteq Ops
      /\ proc[c].pc \in {"finish", "write", "release"} /\ x \in Ops
  BY <1>1 DEF Procs, CoverInv, TypeInv, TypeOK, Calls, BusyOK, Busy, FinishRead, FinishWrite, Release
<1>3. proc[c].mode \in {"call", "recover"} /\ ClientKnows(c)
  BY <1>2 DEF CoverInv, ClientKnows
<1>4. /\ proc[c].mode = "recover" => c \in Recoverers /\ InRecovery(c) /\ \A o \in proc[c].todo : Lost(o)
      /\ proc[c].pc \in {"finish", "write"} =>
           /\ proc[c].mode = "call" => Withdrawn(x)
           /\ proc[c].mode = "recover" => Lost(x) /\ x \notin proc[c].todo
      /\ proc[c].pc = "release" => Ended(x)
  BY <1>1, <1>3 DEF ClientKnows, InRecovery
<1>5. ASSUME Thrown(c), UNCHANGED <<row, lock>> PROVE Covers({c})
  <2>1. ProcOnly(c) /\ proc'[c] = Idle
    BY <1>2, <1>3, <1>5, CallThrows
  <2> QED
    BY <1>5, <2>1, TablesStay, ClientReturns
<1>6. CASE FinishRead(c)
  <2>1. UNCHANGED <<row, lock>> /\ proc[c].pc = "finish" /\ (Thrown(c) \/ Goto(c, "write"))
    BY <1>6 DEF FinishRead
  <2>2. ASSUME Goto(c, "write") PROVE Covers({c})
    <3>1. /\ ProcOnly(c) /\ proc'[c].pc = "write" /\ proc'[c].mode = proc[c].mode
          /\ proc'[c].op = x /\ proc'[c].todo = proc[c].todo
      BY <1>1, <1>2, <2>2, CallGoes DEF SameCall
    <3>2. /\ Withdrawn(x) => Withdrawn(x)'
          /\ Lost(x) => Lost(x)'
          /\ \A o \in proc[c].todo : Lost(o) => Lost(o)'
      BY <2>1, <3>1, LostBeside DEF Withdrawn, IsRunning
    <3>3. /\ proc'[c].mode = "call" => Withdrawn(proc[c].op)'
          /\ proc'[c].mode = "recover" => Lost(proc[c].op)'
      BY <1>4, <2>1, <3>1, <3>2 DEF Withdrawn, Lost, IsRunning, Executed
    <3>4. ClientKnows(c)'
      BY <1>3, <1>4, <2>1, <3>1, <3>2, <3>3 DEF ClientKnows, InRecovery
    <3> QED
      BY <2>1, <3>1, <3>4, TablesStay, ClientActs
  <2> QED
    BY <1>5, <2>1, <2>2
<1>7. CASE FinishWrite(c)
  <2>1. /\ UNCHANGED lock /\ proc[c].pc = "write" /\ proc[c].goal \in Terminal
        /\ \/ CanMove(c, x, proc[c].goal) /\ Move(x, proc[c].goal) /\ Goto(c, "release")
           \/ Thrown(c) /\ UNCHANGED row
    BY <1>1, <1>2, <1>7 DEF FinishWrite, TypeInv, TypeOK, Calls
  <2>2. ASSUME CanMove(c, x, proc[c].goal), Move(x, proc[c].goal), Goto(c, "release")
        PROVE  Covers({c})
    <3>1. PICK s \in Terminal : s = proc[c].goal
      BY <2>1
    <3>2. s # "queued" /\ s \in Transitions[row[x].state] /\ Move(x, s)
      BY <2>2, <3>1 DEF CanMove, Terminal
    <3>3. ~ExecutedBeside({c}, x) /\ (Lost(x) => Recovers({c}))
      BY <1>2, <1>3, <1>4, <2>1, ExecutedRuns
      DEF ExecutedBeside, Recovers, Lost, Withdrawn, IsRunning
    <3>4. RowsSpared({c}) /\ Ended(x)'
      BY <1>2, <3>2, <3>3, MoveSpares
    <3>5. /\ ProcOnly(c) /\ proc'[c].pc = "release" /\ proc'[c].mode = proc[c].mode
          /\ proc'[c].op = x /\ proc'[c].todo = proc[c].todo
      BY <1>1, <1>2, <2>2, CallGoes DEF SameCall
    <3>6. \A o \in proc[c].todo : proc[c].mode = "recover" => Lost(o)'
      <4>1. \A o \in Ops \ {x} : row'[o] = row[o]
        BY <1>2, <2>2 DEF Move, TypeInv, TypeOK
      <4> QED
        BY <1>2, <1>4, <2>1, <3>5, <4>1, LostBeside
    <3>7. ClientKnows(c)'
      BY <1>3, <1>4, <3>4, <3>5, <3>6 DEF ClientKnows, InRecovery, Ended
    <3> QED
      BY <2>1, <3>4, <3>5, <3>7, TablesStay, ClientActs
  <2> QED
    BY <1>5, <2>1, <2>2
<1>8. CASE Release(c)
  <2>1. /\ Ended(x) /\ lock' = Freed(x) /\ UNCHANGED row
        /\ Return(c) \/ (proc[c].mode = "recover" /\ Goto(c, "recover"))
    BY <1>1, <1>4, <1>8 DEF Release
  <2>2. LocksSpared({c}) /\ RowsSpared({c})
    <3>1. ~HeldBeside({c}, x)
      BY <1>2, <2>1, HeldIsExecuted
    <3> QED
      BY <2>1, <3>1, FreedSpares, TablesStay
  <2>3. ASSUME proc[c].mode = "recover", Goto(c, "recover") PROVE Covers({c})
    <3>1. /\ ProcOnly(c) /\ proc'[c].pc = "recover" /\ proc'[c].mode = "recover"
          /\ proc'[c].todo = proc[c].todo
      BY <1>2, <2>3, CallGoes DEF SameCall
    <3> QED
      BY <1>4, <2>1, <2>2, <2>3, <3>1, ClientRecovers
  <2> QED
    BY <1>2, <2>1, <2>2, <2>3, CallReturns, ClientReturns
<1> QED
  BY <1>6, <1>7, <1>8

\* A retry by hand puts back what has ended, and then clears the request to cancel.
LEMMA RetryCovers ==
    ASSUME CoverInv, NEW c \in Clients, RetryWrite(c) \/ RetryClear(c)
    PROVE  Covers({c})
<1>1. PICK x : x = proc[c].op
  OBVIOUS
<1>2. /\ c \in Procs /\ TypeInv /\ x \in Ops /\ UNCHANGED lock /\ LocksSpared({c})
      /\ proc[c].pc \in {"retryWrite", "retryClear"}
  BY <1>1, TablesStay DEF Procs, CoverInv, TypeInv, BusyOK, Busy, RetryWrite, RetryClear
<1>3. ~InRecovery(c)
  BY <1>2 DEF CoverInv, ClientKnows
<1>4. CASE RetryWrite(c)
  <2>1. proc[c].pc = "retryWrite"
    BY <1>4 DEF RetryWrite
  <2>2. CASE CanMove(c, x, "queued") /\ Move(x, "queued") /\ Goto(c, "retryClear")
    <3>1. x \in holds[c] /\ "queued" \in Transitions[row[x].state]
      BY <2>2 DEF CanMove
    <3>2. Ended(x) /\ ~Lost(x)
      BY <1>1, <2>1, <3>1 DEF CoverInv, RetriesCounted, Retried, Ended, Terminal, Lost, IsRunning
    <3>3. ~ExecutedBeside({c}, x)
      BY <1>2, <3>2, HeldIsExecuted
    <3>4. PutsBack({c}, x) /\ Retries({c}, "retryWrite", x)
      BY <1>1, <2>1, <3>1 DEF PutsBack, Retries
    <3>5. RowsSpared({c})
      BY <1>2, <2>2, <3>1, <3>2, <3>3, <3>4, MoveSpares
    <3>6. ProcOnly(c) /\ proc'[c].pc = "retryClear" /\ proc'[c].mode = proc[c].mode
      BY <1>2, <2>2, CallGoes
    <3>7. ClientKnows(c)'
      BY <1>3, <3>6 DEF ClientKnows, InRecovery
    <3> QED
      BY <1>2, <3>5, <3>6, <3>7, ClientActs
  <2>3. CASE Abort(c) /\ UNCHANGED row
    BY <1>2, <2>3, TablesStay, CallReturns, ClientReturns DEF Abort
  <2> QED
    BY <1>1, <1>4, <2>2, <2>3 DEF RetryWrite
<1>5. CASE RetryClear(c)
  <2>1. /\ proc[c].pc = "retryClear" /\ Return(c)
        /\ row' = [row EXCEPT ![x].cancel = FALSE]
    BY <1>1, <1>5 DEF RetryClear
  <2>2. Retries({c}, "retryClear", x)
    BY <1>1, <2>1 DEF Retries
  <2>3. RowsSpared({c})
    BY <1>2, <2>1, <2>2, RowChangeSpares
  <2> QED
    BY <1>2, <2>1, <2>3, CallReturns, ClientReturns
<1> QED
  BY <1>4, <1>5

\* The calls that a client begins.
LEMMA ClientBegins ==
    ASSUME OrderlyUse, CoverInv, NEW c \in Clients, NEW o,
           \/ /\ o \in Ops
              /\ \/ Enqueue(c, o) \/ EnqueueAgain(c, o) \/ RequestCancellation(c, o) \/ Retry(c, o)
           \/ RecoverExpired(c) \/ InsertJob(c) \/ ClientCrash(c)
    PROVE  Covers({c}) \/ Covers({})
<1>1. c \in Procs /\ TypeInv
  BY DEF Procs, CoverInv
<1>2. CASE o \in Ops /\ (Enqueue(c, o) \/ EnqueueAgain(c, o))
  <2>1. BeginsOn(c, "insertJob", o) /\ UNCHANGED lock /\ (UNCHANGED row \/ Created(o))
    BY <1>2 DEF Enqueue, EnqueueAgain, BeginsOn, Created
  <2>2. Begun(c, "insertJob", o, "none", 0, {})
    BY <1>1, <2>1, CallBegins
  <2> QED
    BY <1>2, <2>1, <2>2, TablesStay, RowChangeSpares, ClientReturns DEF Begun
<1>3. CASE o \in Ops /\ RequestCancellation(c, o)
  <2>1. /\ row' = [row EXCEPT ![o].cancel = TRUE] /\ UNCHANGED lock
        /\ UNCHANGED proc \/ (BeginsEnd(c, o) /\ row[o].state = "queued")
    BY <1>3 DEF RequestCancellation, BeginsEnd
  <2>2. \A P : RowsSpared(P) /\ LocksSpared(P)
    BY <1>3, <2>1, TablesStay, RowChangeSpares
  <2>3. CASE UNCHANGED proc
    BY <2>2, <2>3, NobodyActs
  <2>4. CASE BeginsEnd(c, o) /\ row[o].state = "queued"
    <3>1. Begun(c, "finish", o, "call", 0, {})
      BY <1>1, <2>4, CallBegins
    <3>2. row'[o].cancel /\ row'[o].state = "queued"
      <4>1. row \in [Ops -> Rows] /\ row[o] \in Rows
        BY <1>1, <1>3 DEF TypeInv, TypeOK
      <4> QED
        BY <1>3, <2>1, <2>4, <4>1 DEF Rows
    <3>3. ClientKnows(c)'
      BY <3>1, <3>2 DEF ClientKnows, InRecovery, Begun, Withdrawn, IsRunning
    <3> QED
      BY <2>2, <3>1, <3>3, ClientActs DEF Begun
  <2> QED
    BY <2>1, <2>3, <2>4
<1>4. CASE RecoverExpired(c)
  <2>1. /\ BeginsRecovery(c, {q \in Expired : job[q] # "none"})
        /\ UNCHANGED <<row, lock>> /\ c \in Recoverers
    BY <1>4 DEF RecoverExpired, BeginsRecovery
  <2>2. Begun(c, "recover", NoOp, "recover", 0, {q \in Expired : job[q] # "none"})
    BY <1>1, <2>1, CallBegins
  <2>3. ProcOnly(c) /\ proc'[c].pc = "recover" /\ proc'[c].mode = "recover"
        /\ proc'[c].todo \subseteq Expired
    BY <2>2 DEF Begun
  <2>4. \A q \in proc'[c].todo : Lost(q) /\ row'[q].state = row[q].state
    BY <2>1, <2>3, ExpiredIsLost
  <2> QED
    BY <2>1, <2>3, <2>4, TablesStay, ClientRecovers
<1>5. CASE InsertJob(c)
  <2>1. Return(c) /\ UNCHANGED <<row, lock>>
    BY <1>5 DEF InsertJob, OrderlyUse
  <2> QED
    BY <1>1, <2>1, CallReturns, TablesStay, ClientReturns
<1>6. CASE ClientCrash(c)
  <2>1. Return(c) /\ UNCHANGED <<row, lock>>
    BY <1>6 DEF ClientCrash, Abort
  <2> QED
    BY <1>1, <2>1, CallReturns, TablesStay, ClientReturns
<1>7. CASE o \in Ops /\ Retry(c, o)
  <2>1. BeginsOn(c, "retryWrite", o) /\ UNCHANGED <<row, lock>>
    BY <1>7 DEF Retry, BeginsOn
  <2>2. Begun(c, "retryWrite", o, "none", 0, {})
    BY <1>1, <2>1, CallBegins
  <2>3. ClientKnows(c)'
    BY <2>2 DEF Begun, ClientKnows, InRecovery
  <2> QED
    BY <2>1, <2>2, <2>3, TablesStay, ClientActs DEF Begun
<1> QED
  BY <1>2, <1>3, <1>4, <1>5, <1>6, <1>7

\* Handlers that run on, the clock and crashes.
LEMMA OthersCover ==
    ASSUME OrderlyUse, CoverInv,
           \/ \E o \in Ops : \/ \E l \in Lanes : Heartbeat(l, o) \/ HandlerStops(l, o)
                             \/ BecomesDue(o) \/ LeaseLapses(o)
           \/ \E k \in Keys : LockLapses(k)
           \/ \E w : Crash(w)
           \/ UNCHANGED vars
    PROVE  Covers({})
<1>1. /\ lock \in [Keys -> Locks] /\ LockKey \in [Ops -> Keys \cup {NoKey}]
      /\ \A q \in Ops : HeldBeside({}, q) => KeptAlive(q)
  <2>1. ASSUME NEW q \in Ops, NEW l \in Lanes, Holding(l, q) PROVE KeptAlive(q)
    BY <2>1 DEF OrderlyUse, KeptAlive, Holding, Executed, PutBack
  <2> QED
    BY <2>1, ConstantsAssumption DEF CoverInv, TypeInv, TypeOK, HeldBeside
<1>2. ASSUME UNCHANGED <<row, lock, proc>> PROVE Covers({})
  BY <1>2, TablesStay, NobodyActs
<1>3. ASSUME NEW l \in Lanes, NEW o \in Ops, Heartbeat(l, o) PROVE Covers({})
  <2>1. /\ UNCHANGED proc /\ IsRunning(o) /\ row' = [row EXCEPT ![o].leased = TRUE]
        /\ lock' = [k \in Keys |-> IF lock[k].op = o THEN [op |-> o, live |-> TRUE] ELSE lock[k]]
    BY <1>3 DEF Heartbeat, Owns
  <2>2. LocksSpared({})
    <3> SUFFICES ASSUME NEW q \in Ops, LockKey[q] # NoKey,
                        lock[LockKey[q]] = [op |-> q, live |-> TRUE]
                 PROVE  lock'[LockKey[q]] = [op |-> q, live |-> TRUE]
      BY DEF LocksSpared, LockKept
    <3>1. LockKey[q] \in Keys /\ lock[LockKey[q]].op = q
      BY <1>1
    <3> QED
      BY <2>1, <3>1
  <2> QED
    BY <2>1, <2>2, RowChangeSpares, NobodyActs
<1>5. ASSUME NEW o \in Ops, LeaseLapses(o) PROVE Covers({})
  <2>1. /\ UNCHANGED proc /\ IsRunning(o) /\ ~KeptAlive(o)
        /\ row' = [row EXCEPT ![o].leased = FALSE]
        /\ lock' = [k \in Keys |-> IF lock[k].op = o THEN [op |-> o, live |-> FALSE] ELSE lock[k]]
    BY <1>5 DEF LeaseLapses
  <2>2. ~HeldBeside({}, o) /\ ~ExecutedBeside({}, o)
    BY <1>1, <2>1, HeldIsExecuted
  <2>3. LocksSpared({})
    <3> SUFFICES ASSUME NEW q \in Ops, HeldBeside({}, q) PROVE LockKept(q)
      BY DEF LocksSpared
    <3>1. q # o
      BY <2>2
    <3> QED
      BY <1>1, <2>1, <3>1 DEF LockKept
  <2> QED
    BY <2>1, <2>2, <2>3, RowChangeSpares, NobodyActs
<1>6. ASSUME NEW k \in Keys, LockLapses(k) PROVE Covers({})
  <2>1. /\ UNCHANGED <<row, proc>> /\ ~KeptAlive(lock[k].op)
        /\ lock' = [lock EXCEPT ![k].live = FALSE]
    BY <1>6 DEF LockLapses
  <2>2. LocksSpared({})
    <3> SUFFICES ASSUME NEW q \in Ops, HeldBeside({}, q), LockKey[q] # NoKey,
                        lock[LockKey[q]] = [op |-> q, live |-> TRUE]
                 PROVE  lock'[LockKey[q]] = [op |-> q, live |-> TRUE]
      BY DEF LocksSpared, LockKept
    <3>1. LockKey[q] # k
      BY <1>1, <2>1
    <3> QED
      BY <1>1, <2>1, <3>1
  <2> QED
    BY <2>1, <2>2, TablesStay, NobodyActs
<1>7. ASSUME NEW w, Crash(w) PROVE Covers({})
  <2>1. UNCHANGED <<row, lock>> /\ \A q \in Procs : proc'[q] = proc[q] \/ proc'[q] = Idle
    BY <1>7 DEF Crash
  <2> QED
    BY <2>1, TablesStay, NobodyActs
<1> QED
  BY <1>2, <1>3, <1>5, <1>6, <1>7 DEF HandlerStops, BecomesDue, vars

\* A client that clears history deletes what has ended, and that nobody holds.
LEMMA ClearCovers ==
    ASSUME CoverInv, NEW c \in Clients, ClearCompleted(c) \/ ClearRow(c)
    PROVE  Covers({c})
<1>1. c \in Procs /\ TypeInv /\ ClientKnows(c)
  BY DEF Procs, CoverInv
<1>2. CASE ClearCompleted(c)
  <2>1. PICK found \in SUBSET Forgettable : BeginsList(c, "clear", found)
    BY <1>2 DEF ClearCompleted, BeginsList
  <2>2. Begun(c, "clear", NoOp, "none", 0, found) /\ UNCHANGED <<row, lock>>
    BY <1>1, <1>2, <2>1, CallBegins DEF ClearCompleted
  <2>3. \A o \in found : Ended(o)'
    BY <2>2 DEF Forgettable, Ended
  <2>4. ClientKnows(c)'
    BY <2>2, <2>3 DEF Begun, ClientKnows, InRecovery
  <2> QED
    BY <2>2, <2>4, TablesStay, ClientActs DEF Begun
<1>3. CASE ClearRow(c)
  <2>1. PICK o \in proc[c].todo :
          /\ row' = [row EXCEPT ![o] = [NoRow EXCEPT !.state = "deleted", !.attempt = row[o].attempt]]
          /\ holds' = Bumped(o) /\ lock' = Freed(o) /\ NextCandidate(c, o)
    BY <1>3 DEF ClearRow
  <2>2. proc[c].pc = "clear" /\ proc[c].todo \subseteq Ops /\ \A q \in proc[c].todo : Ended(q)
    BY <1>1, <1>3 DEF ClearRow, ClientKnows, TypeInv, TypeOK, Calls
  <2>3. Forgotten(o) /\ o \in Ops /\ Ended(o) /\ ~HeldBeside({c}, o)
    BY <2>1, <2>2, HeldIsExecuted DEF Forgotten
  <2>4. RowsSpared({c}) /\ LocksSpared({c})
    BY <2>1, <2>3, RowChangeSpares, FreedSpares
  <2>5. ASSUME NEW q \in Ops, Ended(q) PROVE Ended(q)'
    BY <2>1, <2>3, <2>5 DEF Ended, NoRow, CoverInv, TypeInv, TypeOK
  <2>6. /\ ProcOnly(c)
        /\ \/ proc'[c] = Idle
           \/ /\ proc'[c].pc = "clear" /\ proc'[c].mode = proc[c].mode
              /\ proc'[c].todo \subseteq proc[c].todo
    BY <1>1, <2>1, <2>2, CallNext
  <2>7. ClientKnows(c)'
    <3>1. CASE proc'[c] = Idle
      BY <3>1, IdleKnows
    <3>2. CASE proc'[c].pc = "clear" /\ proc'[c].mode = proc[c].mode
               /\ proc'[c].todo \subseteq proc[c].todo
      BY <1>1, <2>2, <2>5, <3>2 DEF ClientKnows, InRecovery
    <3> QED
      BY <2>6, <3>1, <3>2
  <2> QED
    BY <2>4, <2>6, <2>7, ClientActs
<1> QED
  BY <1>2, <1>3

\* Every step: one process acts, or none.
LEMMA StepCovers ==
    ASSUME OrderlyUse, CoverInv, [Next]_vars
    PROVE  Covers({}) \/ \E p \in Procs : Covers({p})
<1>1. Procs = Lanes \cup Clients
  BY DEF Procs
<1>2. ASSUME NEW l \in Lanes, LaneStep(l) \/ ProcStep(l) PROVE Covers({l})
  BY <1>2, LaneCovers
<1>3. ASSUME NEW c \in Clients, ProcStep(c) \/ ClientStep(c) PROVE Covers({c}) \/ Covers({})
  BY <1>3, FinishCovers, ClientBegins, RetryCovers, RecoverRowCovers, RecoverRequeueCovers,
     ReconcileCovers, ClearCovers
  DEF ProcStep, ClientStep
<1>4. ASSUME NEW c \in Clients, RecoverExpired(c) \/ ClearCompleted(c) \/ ClientCrash(c)
      PROVE  Covers({c}) \/ Covers({})
  BY <1>4, ClientBegins, ClearCovers
<1>5. ASSUME NEW p \in Procs, NEW o \in Ops, Enqueue(p, o) PROVE Covers({p}) \/ Covers({})
  <2>1. p \in Clients
    BY <1>5 DEF Enqueue, Enqueuers, OrderlyUse
  <2> QED
    BY <1>5, <2>1, ClientBegins
<1>6. ASSUME NEW c \in Clients, NEW o \in Ops,
             EnqueueAgain(c, o) \/ RequestCancellation(c, o) \/ Retry(c, o)
      PROVE  Covers({c}) \/ Covers({})
  BY <1>6, ClientBegins
<1>7. ASSUME NEW l \in Lanes, NEW o \in Ops, Heartbeat(l, o) \/ HandlerStops(l, o) PROVE Covers({})
  BY <1>7, OthersCover
<1>8. ASSUME ClockStep \/ (\E w : Crash(w)) \/ UNCHANGED vars
      PROVE  Covers({})
  BY <1>8, OthersCover DEF ClockStep
<1> QED
  BY <1>1, <1>2, <1>3, <1>4, <1>5, <1>6, <1>7, <1>8 DEF Next

\* Every step keeps the invariant.
LEMMA StepCover ==
    ASSUME OrderlyUse, CoverInv, RetriesUndisturbed, HistoryUndisturbed, [Next]_vars
    PROVE  CoverInv'
<1>1. TypeInv' /\ RetriesCounted'
  BY StepType, StepRetries DEF CoverInv
<1>2. ASSUME NEW P, \A p, q \in P : p = q, Covers(P) PROVE CoverInv'
  BY <1>1, <1>2, CoverKept DEF Covers
<1> QED
  BY <1>2, StepCovers

\* The invariant holds before anything is enqueued.
LEMMA InitCover == Init => CoverInv
<1> SUFFICES ASSUME Init PROVE CoverInv
  OBVIOUS
<1>1. TypeInv
  BY InitType
<1>2. \A p \in Procs : proc[p].pc = "idle" /\ proc[p].mode = "none"
  BY DEF Init, Idle
<1>3. Lanes \subseteq Procs /\ Clients \subseteq Procs
  BY DEF Procs
<1>4. \A l \in Lanes : LaneKnows(l) /\ \A o \in Ops : ~Holding(l, o)
  BY <1>2, <1>3 DEF LaneKnows, Holding, Executed, PutBack
<1>5. RetriesCounted /\ \A c \in Clients : ClientKnows(c)
  BY <1>2, <1>3 DEF RetriesCounted, ClientKnows, InRecovery
<1>6. AttemptsLeft
  BY ConstantsAssumption DEF Init, NoRow, AttemptsLeft
<1> QED
  BY <1>1, <1>4, <1>5, <1>6 DEF CoverInv, OneHolder

\* Executing lanes have the locks of their operations, so there is one for each.
LEMMA CoverExcludes == CoverInv => ExecutionIsCovered /\ HandlersExclusive /\ AttemptsBounded
<1> SUFFICES ASSUME CoverInv PROVE ExecutionIsCovered /\ HandlersExclusive /\ AttemptsBounded
  OBVIOUS
<1>1. \A l \in Lanes, o \in Ops : Executed(l, o) => CoveredBy(l, o)
  BY ExecutedRuns
<1>2. ASSUME NEW l \in Lanes, NEW m \in Lanes, NEW o \in Ops, NEW q \in Ops,
             Executing(l, o), Executing(m, q), l # m
      PROVE  o # q /\ (LockKey[o] # NoKey => LockKey[o] # LockKey[q])
  <2>1. Executed(l, o) /\ Executed(m, q)
    BY <1>2 DEF Executing, Executed
  <2>2. o # q
    BY <1>2, <2>1 DEF CoverInv, OneHolder, Holding
  <2>3. CoveredBy(l, o) /\ CoveredBy(m, q)
    BY <1>1, <2>1
  <2> QED
    BY <2>2, <2>3 DEF CoveredBy, Locked
<1> QED
  BY <1>1, <1>2 DEF ExecutionIsCovered, CoveredBy, Locked, HandlersExclusive, AttemptsBounded, CoverInv, AttemptsLeft

\* The invariant always holds where neither retries by hand nor the clearing of history are
\* disturbed.
LEMMA CoverIsInvariant ==
    ASSUME OrderlyUse
    PROVE  Spec /\ []RetriesUndisturbed /\ []HistoryUndisturbed => []CoverInv
<1>1. CoverInv /\ RetriesUndisturbed /\ HistoryUndisturbed /\ [Next]_vars => CoverInv'
  BY StepCover
<1> QED
  BY <1>1, InitCover, PTL DEF Spec

\* Where no job allow-lists a retry class, nobody retries ...
NoRetries == \A c \in Clients : proc[c].pc \notin {"retryWrite", "retryClear"}

LEMMA NobodyRetries ==
    ASSUME Retryable = {}
    PROVE  Spec => []NoRetries
<1>1. Init => TypeInv /\ NoRetries
  BY InitType DEF Init, Idle, Procs, NoRetries
<1>2. ASSUME TypeInv, NoRetries, [Next]_vars PROVE TypeInv' /\ NoRetries'
  <2>1. TypeInv'
    BY <1>2, StepType
  <2>2. ASSUME NEW c \in Clients PROVE proc'[c].pc \notin {"retryWrite", "retryClear"}
    <3>1. c \in Procs
      BY DEF Procs
    <3>2. ~Retry(c, proc'[c].op)
      BY DEF Retry
    <3>3. RecoverRow(c) => proc'[c].pc \in {"idle", "finish", "recoverRequeue"}
      BY <1>2, CallRecovers DEF Idle
    <3> QED
      BY <1>2, <3>1, <3>2, <3>3, ArrivesByRecovery DEF Arrives, NoRetries
  <2> QED
    BY <2>1, <2>2 DEF NoRetries
<1> QED
  BY <1>1, <1>2, PTL DEF Spec

\* ... and then nothing that a client clears is put back: a recovery and a lane put back
\* what runs.
LEMMA NobodyDisturbs ==
    ASSUME CoverInv, NoRetries
    PROVE  RetriesUndisturbed /\ HistoryUndisturbed
<1>1. RetriesUndisturbed
  BY DEF NoRetries, RetriesUndisturbed
<1>2. ASSUME NEW c \in Clients, proc[c].pc = "clear", NEW p \in Procs,
             proc[p].pc \in {"retryWrite", "recoverRequeue", "requeueWrite"},
             proc[p].op \in proc[c].todo
      PROVE  FALSE
  <2>1. proc[p].op \in Ops /\ Ended(proc[p].op)
    BY <1>2 DEF CoverInv, ClientKnows, TypeInv, BusyOK, Busy
  <2>2. CASE p \in Clients
    <3>1. proc[p].pc = "recoverRequeue" /\ proc[p].mode = "recover"
      BY <1>2, <2>2 DEF CoverInv, ClientKnows, NoRetries
    <3>2. Lost(proc[p].op)
      BY <2>2, <3>1 DEF CoverInv, ClientKnows, InRecovery
    <3> QED
      BY <2>1, <3>2 DEF Lost, Ended, IsRunning, Terminal
  <2>3. CASE p \in Lanes
    <3>1. Executed(p, proc[p].op)
      BY <1>2, <2>3 DEF CoverInv, LaneKnows, Executed
    <3> QED
      BY <2>1, <2>3, <3>1, ExecutedRuns
  <2> QED
    BY <2>2, <2>3 DEF Procs
<1> QED
  BY <1>1, <1>2 DEF HistoryUndisturbed

\* From its claim until it has written the outcome, a lane has everything that the claim
\* gave it - owner, lease, attempt, lock - whatever other processes claim, cancel, recover,
\* clear or retry by hand, and wherever they crash; its own retry after a failed attempt
\* included (claim, heartbeat, finish, recoverExpired, runOne).
THEOREM ExecutionCovered ==
    OrderlyUse =>
      (Spec /\ []RetriesUndisturbed /\ []HistoryUndisturbed => []ExecutionIsCovered)
<1> SUFFICES ASSUME OrderlyUse
             PROVE  Spec /\ []RetriesUndisturbed /\ []HistoryUndisturbed => []ExecutionIsCovered
  OBVIOUS
<1>1. CoverInv => ExecutionIsCovered
  BY CoverExcludes
<1>2. Spec /\ []RetriesUndisturbed /\ []HistoryUndisturbed => []CoverInv
  BY CoverIsInvariant
<1> QED
  BY <1>1, <1>2, PTL

\* Handlers of the same operation, or with the same resource lock, never run at the same
\* time (claim).
THEOREM HandlersExclude ==
    OrderlyUse =>
      (Spec /\ []RetriesUndisturbed /\ []HistoryUndisturbed => []HandlersExclusive)
<1> SUFFICES ASSUME OrderlyUse
             PROVE  Spec /\ []RetriesUndisturbed /\ []HistoryUndisturbed => []HandlersExclusive
  OBVIOUS
<1>1. CoverInv => HandlersExclusive
  BY CoverExcludes
<1>2. Spec /\ []RetriesUndisturbed /\ []HistoryUndisturbed => []CoverInv
  BY CoverIsInvariant
<1> QED
  BY <1>1, <1>2, PTL

\* No operation is started more often than its job allows: a lane, a retry by hand and a
\* recovery put back only what has an attempt left (runOne, retry, recoverExpired).
THEOREM AttemptsStayBounded ==
    OrderlyUse =>
      (Spec /\ []RetriesUndisturbed /\ []HistoryUndisturbed => []AttemptsBounded)
<1> SUFFICES ASSUME OrderlyUse
             PROVE  Spec /\ []RetriesUndisturbed /\ []HistoryUndisturbed => []AttemptsBounded
  OBVIOUS
<1>1. CoverInv => AttemptsBounded
  BY CoverExcludes
<1>2. Spec /\ []RetriesUndisturbed /\ []HistoryUndisturbed => []CoverInv
  BY CoverIsInvariant
<1> QED
  BY <1>1, <1>2, PTL

\* All three need neither condition where no job allow-lists a retry class (backups and
\* scheduled jobs do, tracked operations do not).
COROLLARY OrderlyWithoutRetries ==
    OrderlyUse /\ Retryable = {} =>
      (Spec => [](ExecutionIsCovered /\ HandlersExclusive /\ AttemptsBounded))
<1> SUFFICES ASSUME OrderlyUse, Retryable = {}
             PROVE  Spec => [](ExecutionIsCovered /\ HandlersExclusive /\ AttemptsBounded)
  OBVIOUS
<1>1. Spec => []NoRetries
  BY NobodyRetries
<1>2. CoverInv /\ NoRetries /\ [Next]_vars => CoverInv'
  BY StepCover, NobodyDisturbs
<1>3. Spec => []CoverInv
  BY <1>1, <1>2, InitCover, PTL DEF Spec
<1> QED
  BY <1>3, CoverExcludes, PTL
=============================================================================
