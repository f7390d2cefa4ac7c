------------------------------- MODULE Tables -------------------------------
(***************************************************************************)
(* The three tables with a unique column of midipascher, accounts,         *)
(* authorities and food specialties, are UniqueTable under the requests    *)
(* for each.  None reads another, so a behaviour is one of one table.      *)
(***************************************************************************)
EXTENDS AccountDirectory

CONSTANT Rmgr   \* the code RMGR of an authority

VARIABLE kind   \* the table

\* The authority that is there from the start has the id of the first account.
Authority == INSTANCE Authorities WITH RmgrId <- Admin
Specialty == INSTANCE FoodSpecialties

TablesInit ==
  \/ kind = "accounts" /\ Init
  \/ kind = "authorities" /\ Authority!Init /\ user = [t \in Tx |-> NoUser]
  \/ kind = "specialties" /\ Specialty!Init /\ user = [t \in Tx |-> NoUser]

TablesNext ==
  /\ UNCHANGED kind
  /\ \/ kind = "accounts" /\ Next
     \/ kind = "authorities" /\ Authority!Next /\ UNCHANGED user
     \/ kind = "specialties" /\ Specialty!Next /\ UNCHANGED user

TablesSpec == TablesInit /\ [][TablesNext]_<<vars, kind>>
-----------------------------------------------------------------------------
\* An authority that was inactivated stays so although every UPDATE writes all its
\* columns: no request of another kind writes the row of an authority.
AuthorityStaysInactive ==
  [][kind = "authorities" =>
       \A i \in Ids : Stored(i) /\ ~row[i].open => row'[i] # NoRow /\ ~row'[i].open]_table
=============================================================================
