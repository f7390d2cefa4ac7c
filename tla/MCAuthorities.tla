------------------------- MODULE MCAuthorities -------------------------
(* Instances of Authorities for TLC. *)
EXTENDS Authorities, TLC

CONSTANTS k2, k3

\* The code k2 contains RMGR, the code k3 has nothing in common with it.
Overlapping == {<<k, k>> : k \in Keys} \cup {<<k2, Rmgr>>}

Symmetry == Permutations(Tx) \cup Permutations(Rest) \cup Permutations(Ids \ {RmgrId})
=============================================================================
