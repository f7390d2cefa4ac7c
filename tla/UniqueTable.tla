----------------------------- MODULE UniqueTable -----------------------------
(***************************************************************************)
(* One database table as the sessions of midipascher use it: an identity   *)
(* column, a column under a unique constraint (the email of an account,    *)
(* the code of an authority or of a food specialty), a flag that hides the *)
(* row from findByExample (a locked account, an inactive code), and the    *)
(* columns nobody compares.  There is no @Version column and no            *)
(* @DynamicUpdate: an UPDATE writes every column of the entity, those the  *)
(* method body did not touch with the values the session loaded.           *)
(*                                                                         *)
(* A request reads the committed rows once and stages one write (Stage);   *)
(* the statement is sent later, when Hibernate persists or flushes, and    *)
(* waits for the row and for the entries of the unique index that other    *)
(* open transactions have written.                                         *)
(***************************************************************************)
EXTENDS Naturals, FiniteSets

CONSTANTS
  Tx,        \* servlet threads, each with at most one open transaction
  Ids,       \* ids that the identity column can hand out
  Keys,      \* values of the unique column
  Rest,      \* values of the columns nobody compares
  Contains,  \* pairs <<k, part>>: the text of k contains that of part, ignoring case
  NoRow, NoId

Rows == [key : Keys, rest : Rest, open : BOOLEAN]

ASSUME TableAssumption ==
  /\ NoRow \notin Rows /\ NoId \notin Ids
  /\ Contains \subseteq Keys \X Keys
  /\ \A k \in Keys : <<k, k>> \in Contains

VARIABLES
  row,   \* committed row of each id
  used,  \* ids handed out by the identity column
  pc,    \* idle, write: a statement is to be sent, commit: it was sent
  job    \* the staged write

table == <<row, used, pc, job>>

Jobs == [op : {"insert", "update", "delete", "none"}, id : Ids \cup {NoId},
         was : Rows \cup {NoRow},   \* the row the session loaded
         new : Rows \cup {NoRow}]   \* the row the statement leaves

NoJob == [op |-> "none", id |-> NoId, was |-> NoRow, new |-> NoRow]

TableTypeOK ==
  /\ row \in [Ids -> Rows \cup {NoRow}]
  /\ used \subseteq Ids
  /\ pc \in [Tx -> {"idle", "write", "commit"}]
  /\ job \in [Tx -> Jobs]

TableInit(rows) ==
  /\ row = rows
  /\ used = {i \in Ids : rows[i] # NoRow}
  /\ pc = [t \in Tx |-> "idle"]
  /\ job = [t \in Tx |-> NoJob]
-----------------------------------------------------------------------------
Stored(i) == row[i] # NoRow

\* Hibernate's Example with enableLike(ANYWHERE) and ignoreCase.  excludeZeroes
\* leaves null and zero out of the query but keeps the flag, false or true.
FindByExample(k) == {i \in Ids : Stored(i) /\ row[i].open /\ <<row[i].key, k>> \in Contains}

Stage(t, op, i, new) ==
  /\ pc[t] = "idle"
  /\ pc' = [pc EXCEPT ![t] = "write"]
  /\ job' = [job EXCEPT ![t] = [op |-> op, id |-> i, new |-> new,
                                was |-> IF op = "insert" THEN NoRow ELSE row[i]]]
  /\ UNCHANGED <<row, used>>

\* Bound of the model: a request that would find no id left is not made.
IdsLeft ==
  Cardinality({t \in Tx : pc[t] = "write" /\ job[t].op = "insert"}) < Cardinality(Ids \ used)

StageInsert(t, new)    == IdsLeft /\ Stage(t, "insert", NoId, new)
\* Dirty checking: an entity equal to what was loaded sends no statement.
StageUpdate(t, i, new) == Stored(i) /\ new # row[i] /\ Stage(t, "update", i, new)
StageDelete(t, i)      == Stored(i) /\ Stage(t, "delete", i, NoRow)
-----------------------------------------------------------------------------
\* Another open transaction has written the row.
RowBusy(t) == \E u \in Tx \ {t} : pc[u] = "commit" /\ job[u].id = job[t].id

\* Entries of the unique index that the statement t has sent adds or removes.
IndexEntries(t) ==
  LET j       == job[t]
      removed == {row[i].key : i \in {i \in Ids : i = j.id /\ Stored(i)}}
      added   == IF j.new = NoRow THEN {} ELSE {j.new.key}
  IN  (removed \ added) \cup (added \ removed)

KeyPending(t) ==
  /\ job[t].new # NoRow
  /\ \E u \in Tx \ {t} : pc[u] = "commit" /\ job[t].new.key \in IndexEntries(u)

\* Mutant: the column has no unique constraint.
NoConstraint(t) == FALSE

\* The unique constraint: another committed row has the key.
KeyTaken(t) ==
  /\ job[t].new # NoRow
  /\ \E i \in Ids : i # job[t].id /\ Stored(i) /\ row[i].key = job[t].new.key

Waits(t) == pc[t] = "write" /\ (RowBusy(t) \/ KeyPending(t))

RowMissing(t) == job[t].op # "insert" /\ ~Stored(job[t].id)

Sendable(t) == pc[t] = "write" /\ ~Waits(t) /\ ~KeyTaken(t)

Insert(t, i) ==
  /\ job[t].op = "insert" /\ Sendable(t)
  /\ i \in Ids \ used
  /\ used' = used \cup {i}
  /\ job' = [job EXCEPT ![t].id = i]
  /\ pc' = [pc EXCEPT ![t] = "commit"]
  /\ UNCHANGED row

\* UPDATE or DELETE by id; one that finds no row is a StaleStateException.
Modify(t) ==
  /\ job[t].op \in {"update", "delete"} /\ Sendable(t)
  /\ ~RowMissing(t)
  /\ pc' = [pc EXCEPT ![t] = "commit"]
  /\ UNCHANGED <<row, used, job>>

End(t) ==
  /\ pc' = [pc EXCEPT ![t] = "idle"]
  /\ job' = [job EXCEPT ![t] = NoJob]
  /\ UNCHANGED used

Commit(t) ==
  /\ pc[t] = "commit"
  /\ row' = [row EXCEPT ![job[t].id] = job[t].new]
  /\ End(t)

\* The constraint refuses the key, or the row is gone.
Refused(t) ==
  /\ pc[t] = "write" /\ ~Waits(t)
  /\ KeyTaken(t) \/ RowMissing(t)
  /\ End(t) /\ UNCHANGED row

\* Anything else that throws, at any point: a lock wait that ends, a foreign key, a
\* refused column value, a lost connection, the process.
Fail(t) ==
  /\ pc[t] # "idle"
  /\ End(t) /\ UNCHANGED row

TableStep(t) ==
  \/ \E i \in Ids : Insert(t, i)
  \/ Modify(t)
  \/ Commit(t)
  \/ Refused(t)
  \/ Fail(t)
-----------------------------------------------------------------------------
\* However checks for a free key and writes of several requests interleave, no two
\* committed rows share a value of the unique column: the email of an account, the code
\* of an authority or a food specialty.
KeysUnique == \A i, j \in Ids : Stored(i) /\ Stored(j) /\ row[i].key = row[j].key => i = j

\* A hidden row (a locked account, an inactive specialty) can only become visible again by an UPDATE of a session that had loaded
\* it before it was hidden: no request that begins after that shows it again.
OpenedOnlyByOverlap ==
  [][\A i \in Ids : Stored(i) /\ ~row[i].open /\ row'[i] # NoRow /\ row'[i].open =>
       \E t \in Tx : pc[t] = "commit" /\ job[t].id = i /\ job[t].was.open]_table
=============================================================================
