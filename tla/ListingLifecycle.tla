--------------------------- MODULE ListingLifecycle ---------------------------
(***************************************************************************)
(* What a visitor of midipascher may rely on, without transactions, locks  *)
(* or listeners: the life of one restaurant id as the database stores it   *)
(* and as the search lists it.  A restaurant is listed before it is        *)
(* stored and unlisted before it is withdrawn; a withdrawn one is never    *)
(* listed again.  Listings may be lost all at once, when the index is      *)
(* recreated.  RestaurantCatalog implements it.                            *)
(***************************************************************************)
CONSTANT Restaurants

VARIABLES
  stored,   \* none, live or gone
  listed    \* the search finds it

lvars == <<stored, listed>>

Init ==
  /\ stored = [r \in Restaurants |-> "none"]
  /\ listed = [r \in Restaurants |-> FALSE]

List(r) ==
  /\ stored[r] # "gone"
  /\ listed' = [listed EXCEPT ![r] = TRUE]
  /\ UNCHANGED stored

Unlist(r) ==
  /\ stored[r] = "live"
  /\ listed' = [listed EXCEPT ![r] = FALSE]
  /\ UNCHANGED stored

Store(r) ==
  /\ stored[r] = "none" /\ listed[r]
  /\ stored' = [stored EXCEPT ![r] = "live"]
  /\ UNCHANGED listed

\* The restaurants of one account are withdrawn together.
Withdraw(S) ==
  /\ \A r \in S : stored[r] = "live" /\ ~listed[r]
  /\ stored' = [r \in Restaurants |-> IF r \in S THEN "gone" ELSE stored[r]]
  /\ UNCHANGED listed

LoseListings ==
  /\ listed' = [r \in Restaurants |-> FALSE]
  /\ UNCHANGED stored

Next ==
  \/ \E r \in Restaurants : List(r) \/ Unlist(r) \/ Store(r)
  \/ \E S \in SUBSET Restaurants : Withdraw(S)
  \/ LoseListings

Spec == Init /\ [][Next]_lvars
=============================================================================
