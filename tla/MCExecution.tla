------------------------------ MODULE MCExecution ------------------------------
(* Small instances of an execution and its Reclamation for TLC.               *)
EXTENDS ExecutionRefinement

CONSTANTS w1, w2

MCWorkers == {w1, w2}
MCOneWorker == {w1}
==============================================================================
