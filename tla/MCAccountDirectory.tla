------------------------- MODULE MCAccountDirectory -------------------------
(* Instances of AccountDirectory for TLC. *)
EXTENDS AccountDirectory, TLC

CONSTANTS k1, k2

\* Each email is found by itself; that of k2 contains that of k1.
Overlapping == {<<k1, k1>>, <<k2, k2>>, <<k2, k1>>}

Symmetry == Permutations(Tx) \cup Permutations(Rest) \cup Permutations(Ids \ {Admin})
=============================================================================
