-------------------------- MODULE FoodSpecialties --------------------------
(***************************************************************************)
(* The food specialties of midipascher, which administrators create,       *)
(* update, inactivate and delete.  The codes are the unique column, open   *)
(* means active.  That a specialty in use cannot be deleted is part of     *)
(* RestaurantCatalog; here it is one of the failures of UniqueTable.       *)
(***************************************************************************)
EXTENDS UniqueTable

Init == TableInit([i \in Ids |-> NoRow])

CheckUniqueFoodSpecialtyCode(k) == FindByExample(k) = {}

\* The constructor sets active; the payload may overwrite it.
CreateFoodSpecialty(t, new) ==
  /\ CheckUniqueFoodSpecialtyCode(new.key)
  /\ StageInsert(t, new)

\* Mutant: the flag is copied from the payload too.
UpdateAllOfFoodSpecialty(t, i, k, p) ==
  /\ Stored(i)
  /\ CheckUniqueFoodSpecialtyCode(k)
  /\ StageUpdate(t, i, [key |-> k, rest |-> p, open |-> TRUE])

\* The check also finds the specialty's own code: an active specialty cannot be
\* updated without giving it another code.
UpdateFoodSpecialty(t, i, k, p) ==
  /\ Stored(i)
  /\ CheckUniqueFoodSpecialtyCode(k)
  /\ StageUpdate(t, i, [row[i] EXCEPT !.key = k, !.rest = p])

InactivateFoodSpecialty(t, i) ==
  /\ Stored(i)
  /\ StageUpdate(t, i, [row[i] EXCEPT !.open = FALSE])

DeleteFoodSpecialty(t, i) == StageDelete(t, i)
-----------------------------------------------------------------------------
Request(t) ==
  \/ \E new \in Rows : CreateFoodSpecialty(t, new)
  \/ \E i \in Ids, k \in Keys, p \in Rest : UpdateFoodSpecialty(t, i, k, p)
  \/ \E i \in Ids : InactivateFoodSpecialty(t, i) \/ DeleteFoodSpecialty(t, i)

Next == \E t \in Tx : Request(t) \/ TableStep(t)

Spec == Init /\ [][Next]_table
=============================================================================
