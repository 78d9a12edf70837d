-------------------------- MODULE SpendEnforcement --------------------------
(***************************************************************************)
(* Spend control: the loop that applies and lifts the caps of budgets      *)
(* (spend/*.ts), started by the dashboard and by spend:work, which share a *)
(* lease; the commands that change budgets or lift a cap by hand.          *)
(*                                                                         *)
(* A cap is one enforcing action of one budget.  It leaves traces in three *)
(* places: the records (spend_enforcements), the gate every spending caller*)
(* asks (one setting), and the traffic, which a transport outside of this  *)
(* code cuts and restores.  Where the loops are given none, as in the      *)
(* dashboard and the commands of this code, a cap is in the gate and       *)
(* nowhere else.                                                           *)
(*                                                                         *)
(* Usage, prices, windows, forecasts and grace periods are abstracted to   *)
(* what they decide: a cap is wanted, or is not, or is kept by hysteresis. *)
(***************************************************************************)
EXTENDS Naturals, FiniteSets

CONSTANTS
    Caps,        \* enforcing actions, each of one budget
    Equipped,    \* those that cut traffic with a transport the loops are given
    Loops,       \* processes that run the loop under the lease
    Unleased,    \* processes of spend:work --once and spend:check --apply
    Slow,        \* loops whose cycle may outlast the lease, or go on after stop()
    RowIds,      \* bound of the model: records of a cap at a time
    MaxTroubles, \* bound of the model: crashes, stops, failing transports, commands
    Nobody

Processes == Loops \cup Unleased

ASSUME SpendAssumption ==
    /\ RowIds \subseteq Nat /\ RowIds # {} /\ IsFiniteSet(RowIds) /\ MaxTroubles \in Nat
    /\ Equipped \subseteq Caps /\ Slow \subseteq Loops /\ Loops \cap Unleased = {} /\ Nobody \notin Processes \cup Caps

VARIABLES
    spend,     \* what the evaluation says of a cap's threshold
    budget,    \* the budget of a cap
    record,    \* spend_enforcements: state of every row
    gate,      \* caps with an entry in the gate
    waived,    \* history: caps whose entry an operator took out of the gate, or a budget that
               \* is off, since it was put there
    cut,       \* caps whose traffic the transport has cut
    lease,     \* the setting spend.loop.lease
    cycle,     \* where a process is in its cycle
    troubles

spendVars == <<spend, budget, record, gate, waived, cut, lease, cycle, troubles>>

LiveStates == {"pending", "active", "releasing"}
Steps == {"evaluate", "choose", "open", "apply", "activate", "restore", "close", "lifted"}
Resting == [pc |-> "rest", todo |-> {}, cap |-> Nobody, row |-> 0]

\* The tables, the gate, the lease and the cycles are well typed; a lease that holds has an
\* owner (SpendLoopLease.release).
SpendTypeOK ==
    /\ spend \in [Caps -> {"over", "near", "below"}]
    /\ budget \in [Caps -> {"enforcing", "dry_run", "disabled", "deleted"}]
    /\ record \in [Caps -> [RowIds -> LiveStates \cup {"none", "released", "failed"}]]
    /\ gate \subseteq Caps /\ waived \subseteq Caps /\ cut \subseteq Caps
    /\ lease \in [owner : Loops \cup {Nobody}, valid : BOOLEAN]
    /\ lease.valid => lease.owner # Nobody
    /\ cycle \in [Processes -> [pc : Steps \cup {"rest"},
                                todo : SUBSET [cap : Caps, kind : {"apply", "lift", "note"}],
                                cap : Caps \cup {Nobody}, row : RowIds \cup {0}]]
    /\ troubles \in 0..MaxTroubles

SpendInit ==
    /\ spend = [c \in Caps |-> "below"]
    /\ budget = [c \in Caps |-> "enforcing"]
    /\ record = [c \in Caps |-> [i \in RowIds |-> "none"]]
    /\ gate = {} /\ waived = {} /\ cut = {}
    /\ lease = [owner |-> Nobody, valid |-> FALSE]
    /\ cycle = [p \in Processes |-> Resting]
    /\ troubles = 0

Mutant_FreeLease == [lease EXCEPT !.owner = Nobody]
FreeLease == [owner |-> Nobody, valid |-> FALSE]

Trouble == troubles < MaxTroubles /\ troubles' = troubles + 1
Working(p) == cycle[p].pc # "rest"

-----------------------------------------------------------------------------
(* The lease (SpendLoopLease) and the tick of the loop.                    *)

Mutant_MayHold(p) == p \in Unleased \/ ~lease.valid \/ lease.owner # p
MayHold(p) == p \in Unleased \/ ~lease.valid \/ lease.owner = p

\* The lease is taken or renewed when a tick begins, and never in the middle of its cycle.
Tick(p) ==
    /\ cycle[p].pc = "rest" /\ MayHold(p)
    /\ p \in Unleased => Trouble
    /\ p \notin Unleased => UNCHANGED troubles
    /\ lease' = IF p \in Unleased THEN lease ELSE [owner |-> p, valid |-> TRUE]
    /\ cycle' = [cycle EXCEPT ![p].pc = "evaluate"]
    /\ UNCHANGED <<spend, budget, record, gate, waived, cut>>

\* Its time is over before the holder renews it: the holder is gone, waits for its next
\* tick, or is slow.
LeaseExpires ==
    /\ lease.valid
    /\ Working(lease.owner) => lease.owner \in Slow
    /\ lease' = [lease EXCEPT !.valid = FALSE]
    /\ UNCHANGED <<spend, budget, record, gate, waived, cut, cycle, troubles>>

\* stop(), of a loop that is at rest or whose process then exits, gives the lease back.
StopLoop(p) ==
    /\ p \in Loops /\ Trouble
    /\ lease' = IF lease.owner = p THEN FreeLease ELSE lease
    /\ \/ cycle' = [cycle EXCEPT ![p] = Resting]
       \/ p \in Slow /\ UNCHANGED cycle
    /\ UNCHANGED <<spend, budget, record, gate, waived, cut>>

Crash(p) ==
    /\ Working(p) /\ Trouble
    /\ cycle' = [cycle EXCEPT ![p] = Resting]
    /\ UNCHANGED <<spend, budget, record, gate, waived, cut, lease>>

-----------------------------------------------------------------------------
(* One cycle: the decisions of all budgets are made first, from the records*)
(* in state active; then they are carried out one by one.                  *)

MoveTo(p, pc) == cycle' = [cycle EXCEPT ![p].pc = pc]

Live(c) == {i \in RowIds : record[c][i] \in LiveStates}
IsActive(c) == \E i \in RowIds : record[c][i] = "active"

\* A dry run applies no enforcing action.  What has fallen below its threshold by more than
\* the hysteresis is lifted; in a dry run only its record is.
ToApply == {c \in Caps : budget[c] = "enforcing" /\ spend[c] = "over"}
ToLift == {c \in Caps : budget[c] \in {"enforcing", "dry_run"} /\ spend[c] = "below" /\ IsActive(c)}

Evaluate(p) ==
    /\ cycle[p].pc = "evaluate"
    /\ cycle' = [cycle EXCEPT ![p].pc = "choose",
          ![p].todo = {[cap |-> c, kind |-> "apply"] : c \in ToApply} \cup
                      {[cap |-> c, kind |-> IF budget[c] = "dry_run" THEN "note" ELSE "lift"] :
                          c \in ToLift}]
    /\ UNCHANGED <<spend, budget, record, gate, waived, cut, lease, troubles>>

Take(p, t, pc, i) ==
    cycle' = [cycle EXCEPT ![p] = [pc |-> pc, todo |-> @.todo \ {t}, cap |-> t.cap, row |-> i]]
Drop(p, t) == cycle' = [cycle EXCEPT ![p].todo = @ \ {t}]
Write(c, i, state) == record' = [record EXCEPT ![c][i] = state]

\* A row nobody will write: in the code every record is a new row.
FreeRow(c) == {i \in RowIds :
                 /\ record[c][i] \notin LiveStates
                 /\ \A p \in Processes : cycle[p].cap = c => cycle[p].row # i}

\* openEnforcement: the live record, or a new one.  One that is active has converged;
\* without its budget no record can be inserted, which ends the cycle.
Mutant_Converged(c, i) == record[c][i] # "pending"
Converged(c, i) == record[c][i] = "active"

OpenRecord(p, t) ==
    LET c == t.cap IN
    /\ t \in cycle[p].todo /\ t.kind = "apply"
    /\ \/ \E i \in Live(c) :
            /\ IF Converged(c, i) THEN Drop(p, t) ELSE Take(p, t, "open", i)
            /\ UNCHANGED record
       \/ /\ Live(c) = {} /\ budget[c] # "deleted"
          /\ \E i \in FreeRow(c) :
               /\ \A j \in FreeRow(c) : i <= j
               /\ Write(c, i, "pending") /\ Take(p, t, "open", i)
       \/ /\ budget[c] = "deleted"
          /\ cycle' = [cycle EXCEPT ![p] = Resting] /\ UNCHANGED record
    /\ UNCHANGED <<spend, budget, gate, waived, cut, lease, troubles>>

Mutant_Mark(c, i) == UNCHANGED record
Mark(c, i) == Write(c, i, "releasing")

\* The release finds the live record, whatever its state has become, and marks it before it
\* asks the transport.
MarkReleasing(p, t) ==
    LET c == t.cap IN
    /\ t \in cycle[p].todo /\ t.kind # "apply"
    /\ \/ Live(c) = {} /\ Drop(p, t) /\ UNCHANGED record
       \/ \E i \in Live(c) :
            IF t.kind = "note"
              THEN Write(c, i, "released") /\ Drop(p, t)
              ELSE Mark(c, i) /\ Take(p, t, "restore", i)
    /\ UNCHANGED <<spend, budget, gate, waived, cut, lease, troubles>>

Choose(p) ==
    /\ cycle[p].pc = "choose"
    /\ \E t \in cycle[p].todo : OpenRecord(p, t) \/ MarkReleasing(p, t)

OpenGate(p) ==
    /\ cycle[p].pc = "open"
    /\ gate' = gate \cup {cycle[p].cap} /\ waived' = waived \ {cycle[p].cap}
    /\ MoveTo(p, "apply")
    /\ UNCHANGED <<spend, budget, record, cut, lease, troubles>>

\* What became of the row decides a transition, which otherwise asks for nothing: of a row
\* that is gone it throws, and it may not make a second row live.
Gone(p) == record[cycle[p].cap][cycle[p].row] = "none"
Clashes(p) == Live(cycle[p].cap) \ {cycle[p].row} # {}

Transition(p, state, pc) ==
    LET c == cycle[p].cap IN
    IF Gone(p) \/ (state \in LiveStates /\ Clashes(p))
      THEN cycle' = [cycle EXCEPT ![p] = Resting] /\ UNCHANGED record
      ELSE Write(c, cycle[p].row, state) /\ MoveTo(p, pc)

\* The transport answers; when it fails the record says so, and the gate stays as it is.
\* Without one for the action nothing is cut, and the applier succeeds all the same.
CutTraffic(p) ==
    LET c == cycle[p].cap IN
    /\ cycle[p].pc = "apply"
    /\ \/ /\ cut' = cut \cup ({c} \cap Equipped)
          /\ MoveTo(p, "activate") /\ UNCHANGED <<record, troubles>>
       \/ /\ c \in Equipped /\ Trouble /\ UNCHANGED cut
          /\ Transition(p, "failed", "choose")
    /\ UNCHANGED <<spend, budget, gate, waived, lease>>

\* A record that cannot become active is one that failed.
Activate(p) ==
    /\ cycle[p].pc = "activate"
    /\ Transition(p, IF Clashes(p) THEN "failed" ELSE "active", "choose")
    /\ UNCHANGED <<spend, budget, gate, waived, cut, lease, troubles>>

\* A release that fails stays releasing.
RestoreTraffic(p) ==
    LET c == cycle[p].cap IN
    /\ cycle[p].pc = "restore"
    /\ \/ /\ cut' = cut \ {c}
          /\ MoveTo(p, "close") /\ UNCHANGED <<record, troubles>>
       \/ /\ c \in Equipped /\ Trouble /\ UNCHANGED cut
          /\ Transition(p, "releasing", "choose")
    /\ UNCHANGED <<spend, budget, gate, waived, lease>>

CloseGate(p) ==
    /\ cycle[p].pc = "close"
    /\ gate' = gate \ {cycle[p].cap}
    /\ MoveTo(p, "lifted")
    /\ UNCHANGED <<spend, budget, record, waived, cut, lease, troubles>>

Released(p) ==
    /\ cycle[p].pc = "lifted"
    /\ Transition(p, "released", "choose")
    /\ UNCHANGED <<spend, budget, gate, waived, cut, lease, troubles>>

\* reconcileGate closes the entries of budgets that are gone or disabled.  runAll goes on
\* with the next scope under the same lease.
Reconcile(p) ==
    /\ cycle[p].pc = "choose" /\ cycle[p].todo = {}
    /\ gate' = {c \in gate : budget[c] \notin {"disabled", "deleted"}}
    /\ waived' = waived \cup (gate \ gate')
    /\ \E pc \in {"rest", "evaluate"} : cycle' = [cycle EXCEPT ![p] = [Resting EXCEPT !.pc = pc]]
    /\ UNCHANGED <<spend, budget, record, cut, lease, troubles>>

CycleStep(p) ==
    \/ Evaluate(p)
    \/ Choose(p)
    \/ OpenGate(p)
    \/ CutTraffic(p)
    \/ Activate(p)
    \/ RestoreTraffic(p)
    \/ CloseGate(p)
    \/ Released(p)
    \/ Reconcile(p)

-----------------------------------------------------------------------------
(* Usage, and the commands of operators.                                   *)

UsageChanges(c) ==
    /\ \E s \in {"over", "near", "below"} \ {spend[c]} : spend' = [spend EXCEPT ![c] = s]
    /\ UNCHANGED <<budget, record, gate, waived, cut, lease, cycle, troubles>>

\* updateBudget: enabled, dry_run.
EditBudget(c) ==
    /\ budget[c] # "deleted" /\ Trouble
    /\ \E b \in {"enforcing", "dry_run", "disabled"} \ {budget[c]} : budget' = [budget EXCEPT ![c] = b]
    /\ UNCHANGED <<spend, record, gate, waived, cut, lease, cycle>>

\* budget:delete closes the gate; the records go with the budget.
DeleteBudget(c) ==
    /\ budget[c] # "deleted" /\ Trouble
    /\ gate' = gate \ {c} /\ waived' = waived \cup {c}
    /\ budget' = [budget EXCEPT ![c] = "deleted"]
    /\ record' = [record EXCEPT ![c] = [i \in RowIds |-> "none"]]
    /\ UNCHANGED <<spend, cut, lease, cycle>>

\* spend:release closes the gate, and nothing else.
ReleaseByHand(c) ==
    /\ c \in gate /\ Trouble
    /\ gate' = gate \ {c} /\ waived' = waived \cup {c}
    /\ UNCHANGED <<spend, budget, record, cut, lease, cycle>>

SpendNext ==
    \/ \E p \in Processes : Tick(p)
    \/ LeaseExpires
    \/ \E p \in Processes : StopLoop(p)
    \/ \E p \in Processes : Crash(p)
    \/ \E p \in Processes : CycleStep(p)
    \/ \E c \in Caps : UsageChanges(c)
    \/ \E c \in Caps : EditBudget(c)
    \/ \E c \in Caps : DeleteBudget(c)
    \/ \E c \in Caps : ReleaseByHand(c)

\* A loop ticks every minute, its cycle goes on as long as its process lives, transports
\* answer, and time passes.
SpendFairness ==
    /\ \A p \in Loops : WF_spendVars(Tick(p)) /\ WF_spendVars(CycleStep(p))
    /\ WF_spendVars(LeaseExpires)

SpendSpec == SpendInit /\ [][SpendNext]_spendVars
SpendFairSpec == SpendSpec /\ SpendFairness

-----------------------------------------------------------------------------
(* Properties.                                                             *)

\* Two loops under the lease are never in a cycle at the same time, whatever crashes and
\* stops, as long as a cycle ends before the lease does (lease.ts, startSpendLoop).
CyclesExclusive ==
    \A p, q \in Loops : Working(p) /\ Working(q) => p = q

\* A record in state active says the truth: the gate has the cap, unless an operator or a
\* budget that is off has taken it out again, and the traffic is cut if there is a transport
\* for it.  No failure to apply, no crash and no release that stopped half-way reads as a cap
\* (runEnforcement, createEnforcementHandlers).
InForce(c) == c \in gate \cup waived /\ (c \in Equipped => c \in cut)
ActiveIsInForce ==
    \A c \in Caps : IsActive(c) => InForce(c)

\* An overspent budget is dealt with: its cap becomes active, or a failure to apply it is on
\* record, though the process that holds the lease may die (startSpendLoop, runEnforcement).
OverspendIsAnswered ==
    \A c \in Caps : (c \in ToApply) ~>
        (c \notin ToApply \/ \E i \in RowIds : record[c][i] \in {"active", "failed"})

\* A cap lifted by hand is put back while the budget stays overspent, as spend:release says.
\* It is not: its record is still active, and the next cycle finds nothing to do.
LiftedCapsReturn ==
    \A c \in Caps : (c \in ToApply /\ IsActive(c) /\ c \notin gate) ~> (c \notin ToApply \/ c \in gate)
=============================================================================
