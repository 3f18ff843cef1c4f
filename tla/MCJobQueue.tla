----------------------------- MODULE MCJobQueue -----------------------------
(* Instances of JobQueue for TLC. *)
EXTENDS JobQueueTasks, TLC

CONSTANTS p1, p2, j1, j2, k1, op1

(* two rows of one key: a closed row and its successor *)
OneKey == (j1 :> k1) @@ (j2 :> k1)

(* the first has the higher priority *)
Ranks == (j1 :> 0) @@ (j2 :> 1)

(* processes are interchangeable *)
ProcSymmetry == Permutations({p1, p2})

=============================================================================
