------------------------------ MODULE MCTables ------------------------------
(* Instances of Tables for TLC. *)
EXTENDS Tables, TLC

CONSTANTS k1, k2

\* Each key is found by itself; k2 contains k1, which is RMGR for the authorities.
Overlapping == {<<k1, k1>>, <<k2, k2>>, <<k2, k1>>}

Symmetry == Permutations(Tx) \cup Permutations(Rest) \cup Permutations(Ids \ {Admin})
=============================================================================
