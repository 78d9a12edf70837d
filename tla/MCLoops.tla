------------------------------ MODULE MCLoops ------------------------------
(* Small instances of the two loops that never end: the lanes of the queue *)
(* worker and spend control.  They have no variable in common, so that a   *)
(* behaviour of both is one of each, and a behaviour of this module runs   *)
(* one and leaves the other alone.  Of spend control it follows one cap,   *)
(* with a transport or without.                                            *)
EXTENDS QueueWorker, SpendEnforcement

CONSTANTS l0, l1, l2, j1, j2, j3, cap1, cap2, web, cli

VARIABLE loop

MCInit == loop \in {"worker"} \cup Caps /\ Init /\ SpendInit

WorkerStep == loop = "worker" /\ Next /\ UNCHANGED <<loop, spendVars>>
SpendStep ==
    /\ loop \in Caps /\ SpendNext /\ UNCHANGED <<loop, vars>>
    /\ \A c \in Caps \ {loop} : UNCHANGED <<spend[c], budget[c]>>

MCNext == WorkerStep \/ SpendStep

\* Only the loop that runs is owed its steps.
MCSpec ==
    /\ MCInit /\ [][MCNext]_<<loop, vars, spendVars>>
    /\ loop = "worker" => Fairness
    /\ loop \in Caps => SpendFairness
=============================================================================
