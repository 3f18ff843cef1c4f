------------------------------- MODULE MCGateFlow -------------------------------
EXTENDS GateFlow

CONSTANTS A, B, P, T, g1, h1, h2

Humans == Permutations({h1, h2})
NoFresh == <<>>
OneFresh == <<g1>>
AB == <<A, B>>
ABPT == <<A, B, P, T>>
Decides == [b \in {A, B, P, T} |->
              CASE b \in {A, B} -> "approved" [] b = P -> "paused" [] b = T -> "terminated"]
DecidesAB == [b \in {A, B} |-> "approved"]
===============================================================================
