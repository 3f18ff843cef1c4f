---------------------------- MODULE MCControlLoop ----------------------------
(* Instances of ControlLoop for TLC. *)
EXTENDS ControlLoop, TLC

CONSTANTS p1, p2, j1, k1

OneKey == [j \in Job |-> k1]

Ranks == [j \in Job |-> 0]
=============================================================================
