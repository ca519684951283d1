--------------------------- MODULE MCLocalCluster ---------------------------
(* Two callers, whose runs' tasks are on queues of their own.                *)
EXTENDS LocalCluster

CONSTANTS x1, x2

MCQueueOf(x) == IF x = x1 THEN "default" ELSE "gpu"
=============================================================================
