--------------------------- MODULE MCWorkerChain ---------------------------
(* Instances of WorkerChain for TLC; the bounds are in the .cfg files.     *)
EXTENDS WorkerChain

CONSTANTS t1, b1, m1, m2
=============================================================================
