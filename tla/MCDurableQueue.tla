--------------------------- MODULE MCDurableQueue ---------------------------
(* Small instances of DurableQueue. *)
EXTENDS DurableQueue

CONSTANTS a, b, t, l1, l2, c1, c2, w1, w2, k1, project, build

MCLockKey == [o \in Ops |-> k1]
MCScopesOf == [o \in Ops |-> {project}]
MCLimit1 == [s \in Scopes |-> 1]
MCLimit2 == [s \in Scopes |-> 2]
MCMaxAttempts == [o \in Ops |-> IF o \in Tracked THEN 1 ELSE 2]
MCMaxAttemptsA == [o \in Ops |-> IF o = a THEN 2 ELSE 1]
MCRank == [o \in Ops |-> CASE o = a -> 1 [] o = b -> 2 [] OTHER -> 3]
OwnWorker == [l \in Lanes |-> IF l = l1 THEN w1 ELSE w2]
OneWorker == [l \in Lanes |-> w1]
=============================================================================
