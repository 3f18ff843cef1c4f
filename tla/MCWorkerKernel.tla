--------------------------- MODULE MCWorkerKernel ---------------------------
(* Instances of WorkerKernel for TLC: which processes take part, and the   *)
(* bounds, are in the .cfg files.                                          *)
EXTENDS WorkerKernel, TLC

CONSTANTS w1, w2, r1, r2, t1, t2, c1, b1, m1, m2

(* runners are interchangeable, and so are ticks *)
Symmetry == Permutations({r1, r2}) \cup Permutations({t1, t2})
=============================================================================
