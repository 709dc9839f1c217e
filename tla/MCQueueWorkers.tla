--------------------------- MODULE MCQueueWorkers ----------------------------
(* The run of QueueWorkers: three workers on two tasks.  No symmetry, because  *)
(* the run also checks a liveness property.                                    *)
EXTENDS QueueWorkers
=============================================================================
