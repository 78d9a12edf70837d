------------------------- MODULE OperationLifecycle -------------------------
(***************************************************************************)
(* What the control plane promises about one operation, whoever runs it:   *)
(* the life cycle of docs/features/deployment-queue.md, with the attempts  *)
(* counted.  It knows no process, lease, lock or version.  DurableQueue    *)
(* implements it.                                                          *)
(***************************************************************************)
EXTENDS Naturals

CONSTANT Ops

VARIABLES state, attempt

vars == <<state, attempt>>

Ended == {"succeeded", "failed", "cancelled", "timed_out"}

Init ==
    /\ state = [o \in Ops |-> "absent"]
    /\ attempt = [o \in Ops |-> 0]

Become(o, s) == state' = [state EXCEPT ![o] = s] /\ UNCHANGED attempt

Create(o) == state[o] = "absent" /\ Become(o, "queued")

\* Only a start counts an attempt.
Start(o) ==
    /\ state[o] = "queued"
    /\ state' = [state EXCEPT ![o] = "running"]
    /\ attempt' = [attempt EXCEPT ![o] = @ + 1]

\* Before it has started, an operation can only be withdrawn.
Withdraw(o) == state[o] = "queued" /\ \E s \in {"cancelled", "timed_out"} : Become(o, s)

End(o) == state[o] = "running" /\ \E s \in Ended : Become(o, s)

PutBack(o) == state[o] = "running" /\ Become(o, "queued")

\* Success is final.
TryAgain(o) == state[o] \in Ended \ {"succeeded"} /\ Become(o, "queued")

Forget(o) == state[o] \in Ended /\ Become(o, "deleted")

Next ==
    \E o \in Ops : Create(o) \/ Start(o) \/ Withdraw(o) \/ End(o) \/ PutBack(o)
                     \/ TryAgain(o) \/ Forget(o)

Spec == Init /\ [][Next]_vars
=============================================================================
