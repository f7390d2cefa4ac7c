----------------------------- MODULE Authorities -----------------------------
(***************************************************************************)
(* The authorities of midipascher, which administrators create and         *)
(* inactivate, and what createAccount asks of them.  The codes are the     *)
(* unique column, open means active.                                       *)
(***************************************************************************)
EXTENDS UniqueTable

CONSTANTS
  Rmgr,    \* the code RMGR
  RmgrId   \* the authority with that code, there from the start

Init ==
  \E rmgr \in Rows :
    /\ rmgr.key = Rmgr /\ rmgr.open
    /\ TableInit([i \in Ids |-> IF i = RmgrId THEN rmgr ELSE NoRow])

CheckUniqueAuthorityCode(k) == FindByExample(k) = {}

\* The constructor sets active; the payload may overwrite it.
CreateAuthority(t, new) ==
  /\ CheckUniqueAuthorityCode(new.key)
  /\ StageInsert(t, new)

\* Mutant: the request switches the flag.
SwitchAuthority(t, i) ==
  /\ Stored(i)
  /\ StageUpdate(t, i, [row[i] EXCEPT !.open = ~@])

InactivateAuthority(t, i) ==
  /\ Stored(i)
  /\ StageUpdate(t, i, [row[i] EXCEPT !.open = FALSE])
-----------------------------------------------------------------------------
Request(t) ==
  \/ \E new \in Rows : CreateAuthority(t, new)
  \/ \E i \in Ids : InactivateAuthority(t, i)

Next == \E t \in Tx : Request(t) \/ TableStep(t)

Spec == Init /\ [][Next]_table
-----------------------------------------------------------------------------
\* An authority stays inactive although every UPDATE writes all its columns: no
\* request of another kind writes the row of an authority.
InactiveSticks ==
  [][\A i \in Ids : Stored(i) /\ ~row[i].open => row'[i] # NoRow /\ ~row'[i].open]_table

\* createAccount: "one and one only 'RMGR' authority expected".
OneRmgr == \E i \in Ids : FindByExample(Rmgr) = {i}
=============================================================================
