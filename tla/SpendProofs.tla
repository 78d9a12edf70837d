----------------------------- MODULE SpendProofs -----------------------------
(***************************************************************************)
(* Theorems about SpendEnforcement, for any caps, processes, records and   *)
(* number of troubles.                                                     *)
(*                                                                         *)
(* The tables are well typed whatever happens.  Cycles exclude each other  *)
(* when a cycle ends before the lease does (Slow = {}): a loop that works  *)
(* holds the lease.  When nobody works without the lease either            *)
(* (Unleased = {}), one process at a time writes records and traffic, and  *)
(* an active record is in force.                                           *)
(***************************************************************************)
EXTENDS SpendEnforcement, TLAPS

Carrying == {"open", "apply", "activate", "restore", "close", "lifted"}

\* A process that carries out a decision knows its cap and its record.
CycleHasRow ==
    \A p \in Processes : cycle[p].pc \in Carrying =>
        cycle[p].cap \in Caps /\ cycle[p].row \in RowIds

Typed == SpendTypeOK /\ CycleHasRow

CycleType == [pc : Steps \cup {"rest"},
              todo : SUBSET [cap : Caps, kind : {"apply", "lift", "note"}],
              cap : Caps \cup {Nobody}, row : RowIds \cup {0}]
RowStates == LiveStates \cup {"none", "released", "failed"}

\* A trouble is counted up to the bound of the model.
LEMMA TroubleTyped == ASSUME SpendTypeOK, Trouble PROVE troubles' \in 0..MaxTroubles
BY SpendAssumption DEF SpendTypeOK, Trouble, SpendAssumption

\* A process that rests has nothing to do.
LEMMA RestingTyped == Resting \in CycleType /\ Resting.pc = "rest"
BY DEF Resting, CycleType

\* The initial state is well typed (no budget is overspent, nobody holds the lease).
LEMMA SpendInitTyped == SpendInit => Typed
<1> SUFFICES ASSUME SpendInit PROVE Typed
    OBVIOUS
<1>1. cycle \in [Processes -> CycleType]
    BY RestingTyped DEF SpendInit
<1>2. record \in [Caps -> [RowIds -> RowStates]]
    BY DEF SpendInit, RowStates
<1>3. 0 \in 0..MaxTroubles
    BY SpendAssumption DEF SpendAssumption
<1>4. SpendTypeOK
    BY <1>1, <1>2, <1>3 DEF SpendInit, SpendTypeOK, CycleType, RowStates
<1>5. CycleHasRow
    BY RestingTyped DEF SpendInit, CycleHasRow, Carrying
<1> QED
    BY <1>4, <1>5 DEF Typed

-----------------------------------------------------------------------------
(* The helpers of a cycle.                                                 *)

\* The decision goes on at pc, with the cap and the record it has.
LEMMA MoveToTyped ==
    ASSUME Typed, NEW p \in Processes, NEW pc \in Steps, MoveTo(p, pc),
           pc \in Carrying => cycle[p].pc \in Carrying
    PROVE  /\ cycle' \in [Processes -> CycleType] /\ CycleHasRow'
           /\ cycle'[p] = [cycle[p] EXCEPT !.pc = pc]
           /\ \A q \in Processes \ {p} : cycle'[q] = cycle[q]
<1>1. cycle \in [Processes -> CycleType]
    BY DEF Typed, SpendTypeOK, CycleType
<1>2. cycle' = [cycle EXCEPT ![p] = [cycle[p] EXCEPT !.pc = pc]]
    BY DEF MoveTo
<1>3. [cycle[p] EXCEPT !.pc = pc] \in CycleType
    BY <1>1 DEF CycleType
<1>4. cycle' \in [Processes -> CycleType]
    BY <1>1, <1>2, <1>3
<1>5. /\ cycle'[p] = [cycle[p] EXCEPT !.pc = pc]
      /\ \A q \in Processes \ {p} : cycle'[q] = cycle[q]
    BY <1>1, <1>2
<1>6. cycle'[p].pc = pc /\ cycle'[p].cap = cycle[p].cap /\ cycle'[p].row = cycle[p].row
    BY <1>1, <1>5 DEF CycleType
<1>7. CycleHasRow'
    BY <1>5, <1>6 DEF Typed, CycleHasRow
<1> QED
    BY <1>4, <1>5, <1>7

\* A process goes to rest.
LEMMA RestTyped ==
    ASSUME Typed, NEW p \in Processes, cycle' = [cycle EXCEPT ![p] = Resting]
    PROVE  cycle' \in [Processes -> CycleType] /\ CycleHasRow'
<1>1. cycle \in [Processes -> CycleType]
    BY DEF Typed, SpendTypeOK, CycleType
<1> QED
    BY <1>1, RestingTyped DEF Typed, CycleHasRow, Carrying

\* A row is written.
LEMMA WriteTyped ==
    ASSUME SpendTypeOK, NEW c \in Caps, NEW i \in RowIds, NEW s \in RowStates, Write(c, i, s)
    PROVE  /\ record' \in [Caps -> [RowIds -> RowStates]]
           /\ record'[c][i] = s
           /\ \A j \in RowIds \ {i} : record'[c][j] = record[c][j]
           /\ \A d \in Caps \ {c} : record'[d] = record[d]
<1>1. record \in [Caps -> [RowIds -> RowStates]]
    BY DEF SpendTypeOK, RowStates
<1>2. record' = [record EXCEPT ![c] = [record[c] EXCEPT ![i] = s]]
    BY DEF Write
<1> QED
    BY <1>1, <1>2

\* A transition writes its row and goes on, or ends the cycle and writes nothing.
LEMMA TransitionTyped ==
    ASSUME Typed, NEW p \in Processes, NEW s \in RowStates, cycle[p].pc \in Carrying,
           Transition(p, s, "choose")
    PROVE  /\ record' \in [Caps -> [RowIds -> RowStates]]
           /\ cycle' \in [Processes -> CycleType] /\ CycleHasRow'
<1>1. cycle[p].cap \in Caps /\ cycle[p].row \in RowIds
    BY DEF Typed, CycleHasRow
<1>2. CASE cycle' = [cycle EXCEPT ![p] = Resting] /\ UNCHANGED record
    BY <1>2, RestTyped DEF Typed, SpendTypeOK, RowStates
<1>3. CASE Write(cycle[p].cap, cycle[p].row, s) /\ MoveTo(p, "choose")
  <2>1. "choose" \in Steps /\ "choose" \notin Carrying
      BY DEF Steps, Carrying
  <2> QED
      BY <1>1, <1>3, <2>1, WriteTyped, MoveToTyped DEF Typed
<1> QED
    BY <1>2, <1>3 DEF Transition

\* A decision is taken up, with its cap and a record.
LEMMA TakeTyped ==
    ASSUME Typed, NEW p \in Processes, NEW t \in cycle[p].todo, NEW pc \in {"open", "restore"},
           NEW i \in RowIds, Take(p, t, pc, i)
    PROVE  cycle' \in [Processes -> CycleType] /\ CycleHasRow'
<1>1. cycle \in [Processes -> CycleType]
    BY DEF Typed, SpendTypeOK, CycleType
<1>2. cycle[p].todo \subseteq [cap : Caps, kind : {"apply", "lift", "note"}]
    BY <1>1 DEF CycleType
<1>3. t.cap \in Caps
    BY <1>2
<1> DEFINE new == [pc |-> pc, todo |-> cycle[p].todo \ {t}, cap |-> t.cap, row |-> i]
<1>4. new \in CycleType
    BY <1>2, <1>3 DEF CycleType, Steps
<1>5. cycle' = [cycle EXCEPT ![p] = new]
    BY DEF Take
<1>6. cycle' \in [Processes -> CycleType]
    BY <1>1, <1>4, <1>5
<1>7. cycle'[p] = new /\ \A q \in Processes \ {p} : cycle'[q] = cycle[q]
    BY <1>1, <1>5
<1>8. CycleHasRow'
    BY <1>3, <1>7 DEF Typed, CycleHasRow
<1> QED
    BY <1>6, <1>8

\* A decision is dropped.
LEMMA DropTyped ==
    ASSUME Typed, NEW p \in Processes, NEW t, Drop(p, t)
    PROVE  /\ cycle' \in [Processes -> CycleType] /\ CycleHasRow'
           /\ cycle'[p].pc = cycle[p].pc
           /\ \A q \in Processes \ {p} : cycle'[q] = cycle[q]
<1>1. cycle \in [Processes -> CycleType]
    BY DEF Typed, SpendTypeOK, CycleType
<1> DEFINE new == [cycle[p] EXCEPT !.todo = cycle[p].todo \ {t}]
<1>2. cycle' = [cycle EXCEPT ![p] = new]
    BY DEF Drop
<1>3. /\ new \in CycleType /\ new.pc = cycle[p].pc
      /\ new.cap = cycle[p].cap /\ new.row = cycle[p].row
    BY <1>1 DEF CycleType
<1>4. cycle' \in [Processes -> CycleType]
    BY <1>1, <1>2, <1>3
<1>5. cycle'[p] = new /\ \A q \in Processes \ {p} : cycle'[q] = cycle[q]
    BY <1>1, <1>2
<1>6. CycleHasRow'
    BY <1>3, <1>5 DEF Typed, CycleHasRow
<1> QED
    BY <1>3, <1>4, <1>5, <1>6

-----------------------------------------------------------------------------
(* Every step keeps the tables well typed.                                 *)

Tables == record \in [Caps -> [RowIds -> RowStates]] /\ cycle \in [Processes -> CycleType] /\ CycleHasRow

\* To take up or drop a decision.
LEMMA ChooseTyped ==
    ASSUME Typed, NEW p \in Processes, Choose(p)
    PROVE  Tables'
<1>1. PICK t \in cycle[p].todo : OpenRecord(p, t) \/ MarkReleasing(p, t)
    BY DEF Choose
<1>2. t.cap \in Caps /\ UNCHANGED <<spend, budget, gate, waived, cut, lease, troubles>>
    BY <1>1 DEF OpenRecord, MarkReleasing, Typed, SpendTypeOK
<1>3. record \in [Caps -> [RowIds -> RowStates]]
    BY DEF Typed, SpendTypeOK, RowStates
<1>4. {"pending", "releasing", "released"} \subseteq RowStates
    BY DEF RowStates, LiveStates
<1>5. CASE UNCHANGED record /\ Drop(p, t)
    BY <1>3, <1>5, DropTyped DEF Tables
<1>6. CASE UNCHANGED record /\ cycle' = [cycle EXCEPT ![p] = Resting]
    BY <1>3, <1>6, RestTyped DEF Tables
<1>7. CASE UNCHANGED record /\ \E i \in RowIds : Take(p, t, "open", i)
    BY <1>3, <1>7, TakeTyped DEF Tables
<1>8. CASE \E i \in RowIds : Write(t.cap, i, "pending") /\ Take(p, t, "open", i)
    BY <1>2, <1>4, <1>8, WriteTyped, TakeTyped DEF Tables, Typed
<1>9. CASE \E i \in RowIds : Write(t.cap, i, "releasing") /\ Take(p, t, "restore", i)
    BY <1>2, <1>4, <1>9, WriteTyped, TakeTyped DEF Tables, Typed
<1>10. CASE \E i \in RowIds : Write(t.cap, i, "released") /\ Drop(p, t)
    BY <1>2, <1>4, <1>10, WriteTyped, DropTyped DEF Tables, Typed
<1> QED
    BY <1>1, <1>5, <1>6, <1>7, <1>8, <1>9, <1>10
    DEF OpenRecord, MarkReleasing, Live, FreeRow, Mark

\* A step of a cycle.
LEMMA CycleStepTyped ==
    ASSUME Typed, NEW p \in Processes, CycleStep(p)
    PROVE  Typed'
<1>0. /\ record \in [Caps -> [RowIds -> RowStates]]
      /\ {"failed", "active", "releasing", "released"} \subseteq RowStates
      /\ cycle[p].pc \in Carrying => cycle[p].cap \in Caps
    BY DEF Typed, SpendTypeOK, RowStates, LiveStates, CycleHasRow
<1>1. CASE Evaluate(p)
  <2> DEFINE work == {[cap |-> c, kind |-> "apply"] : c \in ToApply} \cup
                     {[cap |-> c, kind |-> IF budget[c] = "dry_run" THEN "note" ELSE "lift"] : c \in ToLift}
             new == [cycle[p] EXCEPT !.pc = "choose", !.todo = work]
  <2>1. cycle \in [Processes -> CycleType]
      BY DEF Typed, SpendTypeOK, CycleType
  <2>2. work \subseteq [cap : Caps, kind : {"apply", "lift", "note"}]
      BY DEF ToApply, ToLift
  <2>3. new \in CycleType /\ new.pc = "choose"
      BY <2>1, <2>2 DEF CycleType, Steps
  <2>4. cycle' = [cycle EXCEPT ![p] = new]
      BY <1>1 DEF Evaluate
  <2>5. cycle' \in [Processes -> CycleType] /\ CycleHasRow'
      BY <2>1, <2>3, <2>4 DEF Typed, CycleHasRow, Carrying
  <2> QED
      BY <1>1, <2>5 DEF Evaluate, Typed, SpendTypeOK, CycleType
<1>2. CASE Choose(p)
  <2>1. Tables'
      BY <1>2, ChooseTyped
  <2>2. UNCHANGED <<spend, budget, gate, waived, cut, lease, troubles>>
      BY <1>2 DEF Choose, OpenRecord, MarkReleasing
  <2> QED
      BY <2>1, <2>2 DEF Tables, Typed, SpendTypeOK, CycleType, RowStates
<1>3. CASE OpenGate(p)
  <2>1. cycle' \in [Processes -> CycleType] /\ CycleHasRow'
      BY <1>3, MoveToTyped DEF OpenGate, Steps, Carrying
  <2> QED
      BY <1>0, <1>3, <2>1 DEF OpenGate, Carrying, Typed, SpendTypeOK, CycleType
<1>4. CASE CutTraffic(p)
  <2>1. cycle[p].pc \in Carrying
      BY <1>4 DEF CutTraffic, Carrying
  <2>2. Tables'
    <3>1. CASE Transition(p, "failed", "choose")
        BY <1>0, <2>1, <3>1, TransitionTyped DEF Tables
    <3>2. CASE MoveTo(p, "activate") /\ UNCHANGED record
        BY <1>0, <2>1, <3>2, MoveToTyped DEF Tables, Steps
    <3> QED
        BY <1>4, <3>1, <3>2 DEF CutTraffic
  <2>3. troubles' \in 0..MaxTroubles
      BY <1>4, TroubleTyped DEF CutTraffic, Typed, SpendTypeOK
  <2>4. cut' \subseteq Caps
      BY <1>0, <1>4, <2>1 DEF CutTraffic, Typed, SpendTypeOK
  <2> QED
      BY <1>4, <2>2, <2>3, <2>4 DEF CutTraffic, Tables, Typed, SpendTypeOK, CycleType, RowStates
<1>5. CASE Activate(p)
  <2>1. Tables'
      BY <1>0, <1>5, TransitionTyped DEF Activate, Carrying, Tables
  <2> QED
      BY <1>5, <2>1 DEF Activate, Tables, Typed, SpendTypeOK, CycleType, RowStates
<1>6. CASE RestoreTraffic(p)
  <2>1. cycle[p].pc \in Carrying
      BY <1>6 DEF RestoreTraffic, Carrying
  <2>2. Tables'
    <3>1. CASE Transition(p, "releasing", "choose")
        BY <1>0, <2>1, <3>1, TransitionTyped DEF Tables
    <3>2. CASE MoveTo(p, "close") /\ UNCHANGED record
        BY <1>0, <2>1, <3>2, MoveToTyped DEF Tables, Steps
    <3> QED
        BY <1>6, <3>1, <3>2 DEF RestoreTraffic
  <2>3. troubles' \in 0..MaxTroubles
      BY <1>6, TroubleTyped DEF RestoreTraffic, Typed, SpendTypeOK
  <2>4. cut' \subseteq Caps
      BY <1>6 DEF RestoreTraffic, Typed, SpendTypeOK
  <2> QED
      BY <1>6, <2>2, <2>3, <2>4 DEF RestoreTraffic, Tables, Typed, SpendTypeOK, CycleType, RowStates
<1>7. CASE CloseGate(p)
  <2>1. cycle' \in [Processes -> CycleType] /\ CycleHasRow'
      BY <1>7, MoveToTyped DEF CloseGate, Steps, Carrying
  <2> QED
      BY <1>7, <2>1 DEF CloseGate, Typed, SpendTypeOK, CycleType
<1>8. CASE Released(p)
  <2>1. Tables'
      BY <1>0, <1>8, TransitionTyped DEF Released, Carrying, Tables
  <2> QED
      BY <1>8, <2>1 DEF Released, Tables, Typed, SpendTypeOK, CycleType, RowStates
<1>9. CASE Reconcile(p)
  <2>1. PICK pc \in {"rest", "evaluate"} : cycle' = [cycle EXCEPT ![p] = [Resting EXCEPT !.pc = pc]]
      BY <1>9 DEF Reconcile
  <2>2. cycle \in [Processes -> CycleType]
      BY DEF Typed, SpendTypeOK, CycleType
  <2>3. [Resting EXCEPT !.pc = pc] \in CycleType /\ [Resting EXCEPT !.pc = pc].pc \notin Carrying
      BY RestingTyped DEF Resting, CycleType, Steps, Carrying
  <2>4. cycle' \in [Processes -> CycleType] /\ CycleHasRow'
      BY <2>1, <2>2, <2>3 DEF Typed, CycleHasRow
  <2> QED
      BY <1>9, <2>4 DEF Reconcile, Typed, SpendTypeOK, CycleType
<1> QED
    BY <1>1, <1>2, <1>3, <1>4, <1>5, <1>6, <1>7, <1>8, <1>9 DEF CycleStep

\* Every step of the system.
LEMMA SpendTypedInductive == Typed /\ [SpendNext]_spendVars => Typed'
<1> SUFFICES ASSUME Typed, [SpendNext]_spendVars PROVE Typed'
    OBVIOUS
<1>0. cycle \in [Processes -> CycleType] /\ \A p \in Loops : p \in Processes
    BY DEF Typed, SpendTypeOK, CycleType, Processes
<1>1. ASSUME NEW p \in Processes, Tick(p) PROVE Typed'
  <2>1. troubles' \in 0..MaxTroubles
      BY <1>1, TroubleTyped DEF Tick, Typed, SpendTypeOK
  <2>2. cycle' \in [Processes -> CycleType] /\ CycleHasRow'
    <3> DEFINE new == [cycle[p] EXCEPT !.pc = "evaluate"]
    <3>1. new \in CycleType /\ new.pc = "evaluate"
        BY <1>0 DEF CycleType, Steps
    <3>2. cycle' = [cycle EXCEPT ![p] = new]
        BY <1>1 DEF Tick
    <3> QED
        BY <1>0, <3>1, <3>2 DEF Typed, CycleHasRow, Carrying
  <2>3. lease' \in [owner : Loops \cup {Nobody}, valid : BOOLEAN] /\ (lease'.valid => lease'.owner # Nobody)
      BY <1>1, SpendAssumption DEF Tick, Typed, SpendTypeOK, SpendAssumption, Processes
  <2> QED
      BY <1>1, <2>1, <2>2, <2>3 DEF Tick, Typed, SpendTypeOK, CycleType
<1>2. CASE LeaseExpires
    BY <1>2 DEF LeaseExpires, Typed, SpendTypeOK, CycleHasRow
<1>3. ASSUME NEW p \in Processes, StopLoop(p) PROVE Typed'
  <2>1. cycle' \in [Processes -> CycleType] /\ CycleHasRow'
      BY <1>0, <1>3, RestTyped DEF StopLoop, Typed, CycleHasRow
  <2>2. troubles' \in 0..MaxTroubles
      BY <1>3, TroubleTyped DEF StopLoop, Typed
  <2>3. lease' \in [owner : Loops \cup {Nobody}, valid : BOOLEAN] /\ (lease'.valid => lease'.owner # Nobody)
      BY <1>3 DEF StopLoop, FreeLease, Typed, SpendTypeOK
  <2> QED
      BY <1>3, <2>1, <2>2, <2>3 DEF StopLoop, Typed, SpendTypeOK, CycleType
<1>4. ASSUME NEW p \in Processes, Crash(p) PROVE Typed'
  <2>1. cycle' \in [Processes -> CycleType] /\ CycleHasRow'
      BY <1>4, RestTyped DEF Crash
  <2>2. troubles' \in 0..MaxTroubles
      BY <1>4, TroubleTyped DEF Crash, Typed
  <2> QED
      BY <1>4, <2>1, <2>2 DEF Crash, Typed, SpendTypeOK, CycleType
<1>5. ASSUME NEW p \in Processes, CycleStep(p) PROVE Typed'
    BY <1>5, CycleStepTyped
<1>6. ASSUME NEW c \in Caps, UsageChanges(c) \/ EditBudget(c) \/ DeleteBudget(c) \/ ReleaseByHand(c)
      PROVE  Typed'
  <2>1. troubles' \in 0..MaxTroubles
      BY <1>6, TroubleTyped DEF UsageChanges, EditBudget, DeleteBudget, ReleaseByHand, Typed, SpendTypeOK
  <2>2. UNCHANGED <<lease, cycle, cut>>
      BY <1>6 DEF UsageChanges, EditBudget, DeleteBudget, ReleaseByHand
  <2>3. gate' \subseteq Caps /\ waived' \subseteq Caps
      BY <1>6 DEF UsageChanges, EditBudget, DeleteBudget, ReleaseByHand, Typed, SpendTypeOK
  <2>4. spend' \in [Caps -> {"over", "near", "below"}]
      BY <1>6 DEF UsageChanges, EditBudget, DeleteBudget, ReleaseByHand, Typed, SpendTypeOK
  <2>5. budget' \in [Caps -> {"enforcing", "dry_run", "disabled", "deleted"}]
      BY <1>6 DEF UsageChanges, EditBudget, DeleteBudget, ReleaseByHand, Typed, SpendTypeOK
  <2>6. record' \in [Caps -> [RowIds -> LiveStates \cup {"none", "released", "failed"}]]
      BY <1>6 DEF UsageChanges, EditBudget, DeleteBudget, ReleaseByHand, Typed, SpendTypeOK
  <2> QED
      BY <2>1, <2>2, <2>3, <2>4, <2>5, <2>6 DEF Typed, SpendTypeOK, CycleHasRow
<1>7. CASE UNCHANGED spendVars
    BY <1>7 DEF spendVars, Typed, SpendTypeOK, CycleHasRow
<1> QED
    BY <1>1, <1>2, <1>3, <1>4, <1>5, <1>6, <1>7 DEF SpendNext

\* Records, gate, traffic, lease and cycles are well typed, and a lease that holds has an owner.
THEOREM SpendTyped == SpendSpec => []SpendTypeOK
<1>1. Typed => SpendTypeOK
    BY DEF Typed
<1> QED
    BY <1>1, SpendInitTyped, SpendTypedInductive, PTL DEF SpendSpec

-----------------------------------------------------------------------------
(* The lease.                                                              *)

\* A loop in a cycle holds the lease.
WorkersHold == \A p \in Loops : Working(p) => lease.valid /\ lease.owner = p

\* The steps of a cycle are those of a process that works, and leave the lease and the other
\* cycles alone.
LEMMA CycleStepIsOwn ==
    ASSUME Typed, NEW p \in Processes, CycleStep(p)
    PROVE  /\ Working(p) /\ UNCHANGED lease
           /\ \A q \in Processes \ {p} : cycle'[q] = cycle[q]
<1>0. cycle \in [Processes -> CycleType]
    BY DEF Typed, SpendTypeOK, CycleType
<1>1. Working(p) /\ UNCHANGED lease
    BY DEF CycleStep, Evaluate, Choose, OpenRecord, MarkReleasing, OpenGate, CutTraffic, Activate,
           RestoreTraffic, CloseGate, Released, Reconcile, Working
<1>2. \E new : cycle' = [cycle EXCEPT ![p] = new]
  <2>1. CASE Evaluate(p) \/ OpenGate(p) \/ CloseGate(p)
      BY <2>1 DEF Evaluate, OpenGate, CloseGate, MoveTo
  <2>2. CASE Choose(p)
      BY <2>2 DEF Choose, OpenRecord, MarkReleasing, Take, Drop
  <2>3. CASE CutTraffic(p) \/ RestoreTraffic(p)
      BY <2>3 DEF CutTraffic, RestoreTraffic, Transition, MoveTo
  <2>4. CASE Activate(p) \/ Released(p)
      BY <2>4 DEF Activate, Released, Transition, MoveTo
  <2>5. CASE Reconcile(p)
      BY <2>5 DEF Reconcile
  <2> QED
      BY <2>1, <2>2, <2>3, <2>4, <2>5 DEF CycleStep
<1> QED
    BY <1>0, <1>1, <1>2

\* The lease passes to another loop only when nobody works.
LEMMA WorkersHoldInductive ==
    ASSUME Slow = {}, Typed, WorkersHold, [SpendNext]_spendVars
    PROVE  WorkersHold'
<1>0. /\ cycle \in [Processes -> CycleType] /\ Loops \subseteq Processes /\ Loops \cap Unleased = {}
      /\ lease.valid => lease.owner \in Loops
      /\ Resting.pc = "rest"
    BY SpendAssumption, RestingTyped DEF Typed, SpendTypeOK, CycleType, Processes, SpendAssumption
<1>1. ASSUME NEW p \in Processes, Tick(p) PROVE WorkersHold'
    BY <1>0, <1>1 DEF Tick, MayHold, WorkersHold, Working, Typed, SpendTypeOK
<1>2. CASE LeaseExpires
    BY <1>0, <1>2 DEF LeaseExpires, WorkersHold, Working
<1>3. ASSUME NEW p \in Processes, StopLoop(p) PROVE WorkersHold'
    BY <1>0, <1>3 DEF StopLoop, WorkersHold, Working
<1>4. ASSUME NEW p \in Processes, Crash(p) PROVE WorkersHold'
    BY <1>0, <1>4 DEF Crash, WorkersHold, Working
<1>5. ASSUME NEW p \in Processes, CycleStep(p) PROVE WorkersHold'
    BY <1>0, <1>5, CycleStepIsOwn DEF WorkersHold, Working
<1>6. ASSUME NEW c \in Caps, UsageChanges(c) \/ EditBudget(c) \/ DeleteBudget(c) \/ ReleaseByHand(c)
      PROVE  WorkersHold'
    BY <1>6 DEF UsageChanges, EditBudget, DeleteBudget, ReleaseByHand, WorkersHold, Working
<1>7. CASE UNCHANGED spendVars
    BY <1>7 DEF spendVars, WorkersHold, Working
<1> QED
    BY <1>1, <1>2, <1>3, <1>4, <1>5, <1>6, <1>7 DEF SpendNext

\* However many processes run the loop, crash and are stopped, two of them are never in a
\* cycle at the same time, as long as no cycle outlasts its lease.
THEOREM LeaseExcludes == Slow = {} => (SpendSpec => []CyclesExclusive)
<1> SUFFICES ASSUME Slow = {} PROVE SpendSpec => []CyclesExclusive
    OBVIOUS
<1>1. SpendInit => Typed /\ WorkersHold
    BY SpendInitTyped, RestingTyped DEF SpendInit, WorkersHold, Working, Processes
<1>2. Typed /\ WorkersHold /\ [SpendNext]_spendVars => Typed' /\ WorkersHold'
    BY SpendTypedInductive, WorkersHoldInductive
<1>3. WorkersHold => CyclesExclusive
    BY DEF WorkersHold, CyclesExclusive
<1> QED
    BY <1>1, <1>2, <1>3, PTL DEF SpendSpec

-----------------------------------------------------------------------------
(* What is in force.                                                       *)

OneLive == \A c \in Caps : \A i, j \in Live(c) : i = j

\* A process that is about to call a cap active has put it in force, and one that restores
\* the traffic or closes the gate has taken back what was active.
HalfDone ==
    \A p \in Processes :
        /\ cycle[p].pc \in {"apply", "activate"} => cycle[p].cap \in gate \cup waived
        /\ cycle[p].pc = "activate" => InForce(cycle[p].cap)
        /\ cycle[p].pc \in {"restore", "close"} => ~IsActive(cycle[p].cap)

ForceInv == OneLive /\ HalfDone /\ ActiveIsInForce

\* A transition writes a live state only where no other row is live.
LEMMA TransitionForce ==
    ASSUME Typed, OneLive, NEW p \in Processes, cycle[p].pc \in Carrying, NEW s \in RowStates,
           s = "active" => InForce(cycle[p].cap), UNCHANGED <<gate, waived, cut>>,
           ActiveIsInForce, Transition(p, s, "choose")
    PROVE  OneLive' /\ ActiveIsInForce' /\ cycle'[p].pc \in {"rest", "choose"}
<1> DEFINE c == cycle[p].cap
           i == cycle[p].row
<1>0. c \in Caps /\ i \in RowIds /\ record \in [Caps -> [RowIds -> RowStates]]
      /\ cycle \in [Processes -> CycleType]
    BY DEF Typed, SpendTypeOK, CycleHasRow, RowStates, CycleType
<1>1. CASE cycle' = [cycle EXCEPT ![p] = Resting] /\ UNCHANGED record
    BY <1>0, <1>1, RestingTyped DEF OneLive, Live, ActiveIsInForce, IsActive, InForce
<1>2. CASE /\ ~(s \in LiveStates /\ Clashes(p))
           /\ Write(c, i, s) /\ MoveTo(p, "choose")
  <2>1. /\ record'[c][i] = s
        /\ \A j \in RowIds \ {i} : record'[c][j] = record[c][j]
        /\ \A d \in Caps \ {c} : record'[d] = record[d]
      BY <1>0, <1>2, WriteTyped DEF Typed
  <2>2. cycle'[p].pc = "choose"
      BY <1>0, <1>2 DEF MoveTo, CycleType
  <2>3. s \in LiveStates => \A j \in RowIds \ {i} : record[c][j] \notin LiveStates
      BY <1>2 DEF Clashes, Live
  <2>4. OneLive'
      BY <1>0, <2>1, <2>3 DEF OneLive, Live
  <2>5. ActiveIsInForce'
      BY <1>0, <2>1, <2>3 DEF ActiveIsInForce, IsActive, InForce, LiveStates
  <2> QED
      BY <2>2, <2>4, <2>5
<1> QED
    BY <1>1, <1>2 DEF Transition

\* One step of the only cycle that runs.
LEMMA CycleStepForce ==
    ASSUME Typed, ForceInv, NEW p \in Processes, CycleStep(p),
           \A q \in Processes \ {p} : ~Working(q)
    PROVE  ForceInv'
<1>0. /\ \A q \in Processes \ {p} : cycle'[q].pc = "rest"
      /\ cycle \in [Processes -> CycleType]
      /\ record \in [Caps -> [RowIds -> RowStates]]
      /\ {"failed", "active", "releasing", "released", "pending"} \subseteq RowStates
    BY CycleStepIsOwn DEF Working, Typed, SpendTypeOK, CycleType, RowStates, LiveStates
<1>1. ASSUME OneLive', ActiveIsInForce', cycle'[p].pc \notin {"apply", "activate", "restore", "close"}
      PROVE  ForceInv'
    BY <1>0, <1>1 DEF ForceInv, HalfDone
<1>2. CASE Evaluate(p)
    BY <1>0, <1>1, <1>2
    DEF Evaluate, CycleType, ForceInv, OneLive, Live, ActiveIsInForce, IsActive, InForce
<1>3. CASE Choose(p)
  <2>1. PICK t \in cycle[p].todo : OpenRecord(p, t) \/ MarkReleasing(p, t)
      BY <1>3 DEF Choose
  <2>2. t.cap \in Caps /\ UNCHANGED <<gate, waived, cut>> /\ cycle[p].pc = "choose"
      BY <1>3, <2>1 DEF Choose, OpenRecord, MarkReleasing, Typed, SpendTypeOK
  <2>3. CASE UNCHANGED record /\ (Drop(p, t) \/ cycle' = [cycle EXCEPT ![p] = Resting]
                                 \/ \E i \in RowIds : Take(p, t, "open", i))
    <3>1. cycle'[p].pc \in {"choose", "rest", "open"}
        BY <1>0, <2>2, <2>3, RestingTyped DEF Drop, Take, CycleType
    <3> QED
        BY <1>1, <2>2, <2>3, <3>1 DEF ForceInv, OneLive, Live, ActiveIsInForce, IsActive, InForce
  <2>4. CASE Live(t.cap) = {} /\ \E i \in RowIds : Write(t.cap, i, "pending") /\ Take(p, t, "open", i)
    <3>1. PICK i \in RowIds : Write(t.cap, i, "pending") /\ Take(p, t, "open", i)
        BY <2>4
    <3>2. /\ record'[t.cap][i] = "pending"
          /\ \A j \in RowIds \ {i} : record'[t.cap][j] = record[t.cap][j]
          /\ \A d \in Caps \ {t.cap} : record'[d] = record[d]
        BY <1>0, <2>2, <3>1, WriteTyped DEF Typed
    <3>3. cycle'[p].pc = "open"
        BY <1>0, <3>1 DEF Take
    <3>4. OneLive'
        BY <2>2, <2>4, <3>2 DEF ForceInv, OneLive, Live
    <3>5. ActiveIsInForce'
        BY <2>2, <3>2 DEF ForceInv, ActiveIsInForce, IsActive, InForce, LiveStates
    <3> QED
        BY <1>1, <3>3, <3>4, <3>5
  <2>5. CASE \E i \in Live(t.cap) : Write(t.cap, i, "released") /\ Drop(p, t)
    <3>1. PICK i \in Live(t.cap) : Write(t.cap, i, "released") /\ Drop(p, t)
        BY <2>5
    <3>2. /\ record'[t.cap][i] = "released"
          /\ \A j \in RowIds \ {i} : record'[t.cap][j] = record[t.cap][j]
          /\ \A d \in Caps \ {t.cap} : record'[d] = record[d]
        BY <1>0, <2>2, <3>1, WriteTyped DEF Typed, Live
    <3>3. cycle'[p].pc = "choose"
        BY <1>0, <2>2, <3>1, DropTyped
    <3>4. OneLive' /\ ActiveIsInForce'
        BY <2>2, <3>2 DEF ForceInv, OneLive, Live, LiveStates, ActiveIsInForce, IsActive, InForce
    <3> QED
        BY <1>1, <3>3, <3>4
  <2>6. CASE \E i \in Live(t.cap) : Write(t.cap, i, "releasing") /\ Take(p, t, "restore", i)
    <3>1. PICK i \in Live(t.cap) : Write(t.cap, i, "releasing") /\ Take(p, t, "restore", i)
        BY <2>6
    <3>2. /\ record'[t.cap][i] = "releasing"
          /\ \A j \in RowIds \ {i} : record'[t.cap][j] = record[t.cap][j]
          /\ \A d \in Caps \ {t.cap} : record'[d] = record[d]
        BY <1>0, <2>2, <3>1, WriteTyped DEF Typed, Live
    <3>3. cycle'[p].pc = "restore" /\ cycle'[p].cap = t.cap
        BY <1>0, <3>1 DEF Take
    <3>4. OneLive' /\ ActiveIsInForce'
        BY <2>2, <3>1, <3>2 DEF ForceInv, OneLive, Live, LiveStates, ActiveIsInForce, IsActive, InForce
    <3>5. \A j \in RowIds : record'[t.cap][j] # "active"
        BY <2>2, <3>1, <3>2 DEF ForceInv, OneLive, Live, LiveStates
    <3>6. HalfDone'
        BY <1>0, <3>3, <3>5 DEF HalfDone, IsActive
    <3> QED
        BY <3>4, <3>6 DEF ForceInv
  <2> QED
      BY <2>1, <2>3, <2>4, <2>5, <2>6 DEF OpenRecord, MarkReleasing, Live, FreeRow, Mark
<1>4. CASE OpenGate(p)
  <2>1. cycle'[p].pc = "apply" /\ cycle'[p].cap = cycle[p].cap /\ UNCHANGED <<record, cut>>
      BY <1>0, <1>4 DEF OpenGate, MoveTo, CycleType
  <2>2. gate' \cup waived' = gate \cup waived \cup {cycle[p].cap}
      BY <1>4 DEF OpenGate
  <2>3. OneLive' /\ ActiveIsInForce'
      BY <2>1, <2>2 DEF ForceInv, OneLive, Live, ActiveIsInForce, IsActive, InForce
  <2> QED
      BY <1>0, <2>1, <2>2, <2>3 DEF ForceInv, HalfDone
<1>10. CASE CloseGate(p)
  <2>1. cycle'[p].pc = "lifted" /\ UNCHANGED <<record, cut, waived>> /\ gate' = gate \ {cycle[p].cap}
      BY <1>0, <1>10 DEF CloseGate, MoveTo, CycleType
  <2>2. ~IsActive(cycle[p].cap)
      BY <1>10 DEF CloseGate, ForceInv, HalfDone
  <2> QED
      BY <1>1, <2>1, <2>2 DEF ForceInv, OneLive, Live, ActiveIsInForce, IsActive, InForce
<1>5. CASE CutTraffic(p)
  <2>1. CASE UNCHANGED cut /\ Transition(p, "failed", "choose")
      BY <1>0, <1>1, <1>5, <2>1, TransitionForce DEF CutTraffic, Carrying, ForceInv
  <2>2. CASE cut' = cut \cup ({cycle[p].cap} \cap Equipped) /\ MoveTo(p, "activate") /\ UNCHANGED record
    <3>1. cycle'[p].pc = "activate" /\ cycle'[p].cap = cycle[p].cap /\ UNCHANGED <<gate, waived>>
        BY <1>0, <1>5, <2>2 DEF CutTraffic, MoveTo, CycleType
    <3>2. cycle[p].cap \in gate \cup waived
        BY <1>5 DEF CutTraffic, ForceInv, HalfDone
    <3>3. OneLive' /\ ActiveIsInForce'
        BY <2>2, <3>1 DEF ForceInv, OneLive, Live, ActiveIsInForce, IsActive, InForce
    <3>4. HalfDone'
        BY <1>0, <2>2, <3>1, <3>2 DEF HalfDone, InForce
    <3> QED
        BY <3>3, <3>4 DEF ForceInv
  <2> QED
      BY <1>5, <2>1, <2>2 DEF CutTraffic
<1>6. CASE Activate(p)
    BY <1>0, <1>1, <1>6, TransitionForce DEF Activate, Carrying, ForceInv, HalfDone
<1>7. CASE RestoreTraffic(p)
  <2>1. CASE UNCHANGED cut /\ Transition(p, "releasing", "choose")
      BY <1>0, <1>1, <1>7, <2>1, TransitionForce DEF RestoreTraffic, Carrying, ForceInv
  <2>2. CASE cut' = cut \ {cycle[p].cap} /\ MoveTo(p, "close") /\ UNCHANGED record
    <3>1. cycle'[p].pc = "close" /\ cycle'[p].cap = cycle[p].cap /\ UNCHANGED <<gate, waived>>
        BY <1>0, <1>7, <2>2 DEF RestoreTraffic, MoveTo, CycleType
    <3>2. ~IsActive(cycle[p].cap)
        BY <1>7 DEF RestoreTraffic, ForceInv, HalfDone
    <3>3. OneLive' /\ ActiveIsInForce'
        BY <2>2, <3>1, <3>2 DEF ForceInv, OneLive, Live, ActiveIsInForce, IsActive, InForce
    <3>4. HalfDone'
        BY <1>0, <2>2, <3>1, <3>2 DEF HalfDone, IsActive
    <3> QED
        BY <3>3, <3>4 DEF ForceInv
  <2> QED
      BY <1>7, <2>1, <2>2 DEF RestoreTraffic
<1>8. CASE Released(p)
    BY <1>0, <1>1, <1>8, TransitionForce DEF Released, Carrying, ForceInv
<1>9. CASE Reconcile(p)
  <2>1. cycle'[p].pc \in {"rest", "evaluate"} /\ UNCHANGED <<record, cut>>
      BY <1>0, <1>9 DEF Reconcile, Resting
  <2>2. gate' \cup waived' = gate \cup waived
      BY <1>9 DEF Reconcile
  <2> QED
      BY <1>1, <2>1, <2>2 DEF ForceInv, OneLive, Live, ActiveIsInForce, IsActive, InForce
<1> QED
    BY <1>2, <1>3, <1>4, <1>5, <1>6, <1>7, <1>8, <1>9, <1>10 DEF CycleStep

\* Any step, when only loops work and hold the lease while they do.
LEMMA ForceInductive ==
    ASSUME Slow = {}, Unleased = {}, Typed, WorkersHold, ForceInv, [SpendNext]_spendVars
    PROVE  ForceInv'
<1>0. /\ cycle \in [Processes -> CycleType] /\ Processes = Loops
      /\ Resting.pc = "rest"
    BY RestingTyped DEF Typed, SpendTypeOK, CycleType, Processes
<1>1. ASSUME UNCHANGED <<record, cut>>, gate \cup waived \subseteq gate' \cup waived',
             \A p \in Processes : cycle'[p].pc \in {"apply", "activate", "restore", "close"} =>
                 cycle'[p] = cycle[p]
      PROVE  ForceInv'
    BY <1>1 DEF ForceInv, OneLive, Live, HalfDone, ActiveIsInForce, IsActive, InForce
<1>2. ASSUME NEW p \in Processes, Tick(p) PROVE ForceInv'
    BY <1>0, <1>1, <1>2 DEF Tick, CycleType
<1>3. CASE LeaseExpires
    BY <1>1, <1>3 DEF LeaseExpires
<1>4. ASSUME NEW p \in Processes, StopLoop(p) \/ Crash(p) PROVE ForceInv'
    BY <1>0, <1>1, <1>4 DEF StopLoop, Crash
<1>5. ASSUME NEW p \in Processes, CycleStep(p) PROVE ForceInv'
  <2>1. \A q \in Processes \ {p} : ~Working(q)
      BY <1>0, <1>5, CycleStepIsOwn DEF WorkersHold
  <2> QED
      BY <1>5, <2>1, CycleStepForce
<1>6. ASSUME NEW c \in Caps, UsageChanges(c) \/ EditBudget(c) \/ ReleaseByHand(c) PROVE ForceInv'
    BY <1>1, <1>6 DEF UsageChanges, EditBudget, ReleaseByHand
<1>7. ASSUME NEW c \in Caps, DeleteBudget(c) PROVE ForceInv'
  <2>1. /\ UNCHANGED <<cut, cycle>> /\ gate' \cup waived' = gate \cup waived \cup {c}
        /\ \A i \in RowIds : record'[c][i] = "none"
        /\ \A d \in Caps \ {c} : record'[d] = record[d]
      BY <1>7 DEF DeleteBudget, Typed, SpendTypeOK
  <2>2. \A d \in Caps, i \in RowIds : record'[d][i] \in LiveStates => record'[d][i] = record[d][i]
      BY <2>1 DEF LiveStates
  <2>3. OneLive'
      BY <2>2 DEF ForceInv, OneLive, Live
  <2>4. ActiveIsInForce'
      BY <2>1, <2>2 DEF ForceInv, ActiveIsInForce, IsActive, InForce, LiveStates
  <2>5. HalfDone'
    <3>1. \A p \in Processes : cycle[p].pc \in Carrying => cycle[p].cap \in Caps
        BY DEF Typed, CycleHasRow
    <3> QED
        BY <2>1, <2>2, <3>1 DEF ForceInv, HalfDone, IsActive, InForce, LiveStates, Carrying
  <2> QED
      BY <2>3, <2>4, <2>5 DEF ForceInv
<1>8. CASE UNCHANGED spendVars
    BY <1>1, <1>8 DEF spendVars
<1> QED
    BY <1>2, <1>3, <1>4, <1>5, <1>6, <1>7, <1>8 DEF SpendNext

\* A record in state active says the truth, whatever crashes and fails, when cycles exclude
\* each other.
THEOREM ActiveMeansInForce == Slow = {} /\ Unleased = {} => (SpendSpec => []ActiveIsInForce)
<1> SUFFICES ASSUME Slow = {}, Unleased = {} PROVE SpendSpec => []ActiveIsInForce
    OBVIOUS
<1>1. SpendInit => Typed /\ WorkersHold /\ ForceInv
  <2>1. SpendInit => WorkersHold /\ HalfDone
      BY RestingTyped DEF SpendInit, WorkersHold, HalfDone, Working, Processes
  <2>2. SpendInit => OneLive /\ ActiveIsInForce
      BY DEF SpendInit, OneLive, Live, LiveStates, ActiveIsInForce, IsActive
  <2> QED
      BY <2>1, <2>2, SpendInitTyped DEF ForceInv
<1>2. Typed /\ WorkersHold /\ ForceInv /\ [SpendNext]_spendVars => Typed' /\ WorkersHold' /\ ForceInv'
    BY SpendTypedInductive, WorkersHoldInductive, ForceInductive
<1>3. ForceInv => ActiveIsInForce
    BY DEF ForceInv
<1> QED
    BY <1>1, <1>2, <1>3, PTL DEF SpendSpec
=============================================================================
