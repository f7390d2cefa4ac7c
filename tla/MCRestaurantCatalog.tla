------------------------ MODULE MCRestaurantCatalog ------------------------
(* Instances of RestaurantCatalog for TLC. *)
EXTENDS RestaurantCatalog, TLC

Symmetry == Permutations(Tx) \cup Permutations(Restaurants)
              \cup Permutations(Specialties) \cup Permutations(Contents)
=============================================================================
