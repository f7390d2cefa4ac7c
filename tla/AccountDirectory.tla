-------------------------- MODULE AccountDirectory --------------------------
(***************************************************************************)
(* The accounts of midipascher: creation, update, lock and deletion in     *)
(* FacadeImpl, and UserDetailsServiceImpl, which loads the account a       *)
(* request is authenticated with.  The emails are the unique column, open  *)
(* means not locked.  The restaurants of an account are RestaurantCatalog. *)
(***************************************************************************)
EXTENDS UniqueTable

CONSTANTS
  Admin,   \* id of the account with role ADMIN, which no request can grant
  NoUser

ASSUME DirectoryAssumption == Admin \in Ids /\ NoUser \notin [email : Keys, admin : BOOLEAN]

VARIABLE user   \* the principal of each thread's security context

vars == <<row, used, pc, job, user>>

TypeOK ==
  /\ TableTypeOK
  /\ user \in [Tx -> [email : Keys, admin : BOOLEAN] \cup {NoUser}]

\* The administrator's account is there from the start.
Init ==
  /\ \E k \in Keys, p \in Rest :
       TableInit([i \in Ids |-> IF i = Admin THEN [key |-> k, rest |-> p, open |-> TRUE] ELSE NoRow])
  /\ user = [t \in Tx |-> NoUser]
-----------------------------------------------------------------------------
\* Mutant: the converter does not expect that no account is found.
LoginConverted(t, k) ==
  /\ pc[t] = "idle"
  /\ IF FindByExample(k) = {} THEN user' = [user EXCEPT ![t] = [email |-> NoRow, admin |-> FALSE]]
     ELSE \E i \in Ids :
            /\ FindByExample(k) = {i}
            /\ user' = [user EXCEPT ![t] = [email |-> row[i].key, admin |-> i = Admin]]
  /\ UNCHANGED table

\* uniqueResult throws when the example matches several accounts.
Login(t, k) ==
  /\ pc[t] = "idle"
  /\ \E i \in Ids :
       /\ FindByExample(k) = {i}
       /\ user' = [user EXCEPT ![t] = [email |-> row[i].key, admin |-> i = Admin]]
  /\ UNCHANGED table

\* The thread serves a request without credentials.
Anonymous(t) ==
  /\ pc[t] = "idle" /\ user[t] # NoUser
  /\ user' = [user EXCEPT ![t] = NoUser]
  /\ UNCHANGED table

MatchesConnectedUser(t, k) == user[t] # NoUser /\ user[t].email = k

CheckUniqueAccountUID(t, k) == FindByExample(k) = {} \/ MatchesConnectedUser(t, k)

\* readAccount followed by checkOwnership, behind @RolesAllowed.
Owns(t, i) ==
  /\ Stored(i) /\ user[t] # NoUser
  /\ user[t].admin \/ user[t].email = row[i].key

\* The flag comes with the payload.  That exactly one RMGR authority is found is
\* left to Authorities.
CreateAccount(t, new) ==
  /\ CheckUniqueAccountUID(t, new.key)
  /\ StageInsert(t, new)
  /\ UNCHANGED user

\* Mutant: the flag is copied from the payload too, which leaves it false, not locked.
UpdateAllOfAccount(t, i, k, p) ==
  /\ Owns(t, i)
  /\ CheckUniqueAccountUID(t, k)
  /\ StageUpdate(t, i, [key |-> k, rest |-> p, open |-> TRUE])
  /\ UNCHANGED user

UpdateAccount(t, i, k, p) ==
  /\ Owns(t, i)
  /\ CheckUniqueAccountUID(t, k)
  /\ StageUpdate(t, i, [row[i] EXCEPT !.key = k, !.rest = p])
  /\ UNCHANGED user

LockAccount(t, i) ==
  /\ Owns(t, i) /\ user[t].admin
  /\ StageUpdate(t, i, [row[i] EXCEPT !.open = FALSE])
  /\ UNCHANGED user

DeleteAccount(t, i) ==
  /\ Owns(t, i)
  /\ StageDelete(t, i)
  /\ UNCHANGED user
-----------------------------------------------------------------------------
Request(t) ==
  \/ \E k \in Keys : Login(t, k)
  \/ Anonymous(t)
  \/ \E new \in Rows : CreateAccount(t, new)
  \/ \E i \in Ids, k \in Keys, p \in Rest : UpdateAccount(t, i, k, p)
  \/ \E i \in Ids : LockAccount(t, i) \/ DeleteAccount(t, i)

Next == \E t \in Tx : Request(t) \/ (TableStep(t) /\ UNCHANGED user)

Spec == Init /\ [][Next]_vars
-----------------------------------------------------------------------------
\* lock_account.story: the lock request succeeds.  A locked account stays locked: no
\* request of the facade is there to unlock it.
LockSticks ==
  [][\A i \in Ids : Stored(i) /\ ~row[i].open /\ row'[i] # NoRow => ~row'[i].open]_vars

\* authorization.story: correct uid and correct password are accepted.  The account
\* is found by its own email.
OwnEmailLogsIn == \A i \in Ids : Stored(i) /\ row[i].open => FindByExample(row[i].key) = {i}
=============================================================================
