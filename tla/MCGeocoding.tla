----------------------------- MODULE MCGeocoding -----------------------------
(* Instances of Geocoding for TLC. *)
EXTENDS Geocoding, TLC

Symmetry == Permutations(Places)
=============================================================================
