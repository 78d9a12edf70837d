--------------------------- MODULE MCQueueWorker ---------------------------
(* Small instances of QueueWorker. *)
EXTENDS QueueWorker

CONSTANTS l0, l1, l2, a, b, c
=============================================================================
