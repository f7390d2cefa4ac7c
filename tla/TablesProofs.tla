---------------------------- MODULE TablesProofs ----------------------------
(***************************************************************************)
(* What every step of UniqueTable preserves, for any number of sessions,   *)
(* rows and keys, and what follows for the three specifications that       *)
(* extend it: AccountDirectory, FoodSpecialties and Authorities give their *)
(* requests as instances of StageAny and take the lemmas from here.        *)
(***************************************************************************)
EXTENDS Tables, TLAPS

\* A request stages an insert of a new row, an update of a stored row that does not
\* show a hidden row again, or a delete.
StageAny(t) ==
  \/ \E new \in Rows : Stage(t, "insert", NoId, new)
  \/ \E i \in Ids, new \in Rows :
       Stored(i) /\ (new.open => row[i].open) /\ Stage(t, "update", i, new)
  \/ \E i \in Ids : Stored(i) /\ Stage(t, "delete", i, NoRow)

\* Shape of the staged write, before and after its statement was sent.
JobShape ==
  \A t \in Tx :
    /\ pc[t] # "idle" => job[t].op # "none"
    /\ job[t].op = "insert" /\ pc[t] = "write" => job[t].id = NoId
    /\ job[t].op = "insert" /\ pc[t] = "commit" => job[t].id \in Ids /\ ~Stored(job[t].id)
    /\ job[t].op = "insert" => job[t].new \in Rows
    /\ job[t].op \in {"update", "delete"} => job[t].id \in Ids
    /\ job[t].op = "update" => /\ job[t].was \in Rows /\ job[t].new \in Rows
                               /\ job[t].new.open => job[t].was.open
    /\ job[t].op = "delete" => job[t].new = NoRow

StoredUsed ==
  /\ \A i \in Ids : Stored(i) => i \in used
  /\ \A t \in Tx : pc[t] = "commit" => job[t].id \in used

\* Why the unique constraint holds although it is checked when the statement is
\* sent and the row is published at commit: what a sent statement will publish
\* collides neither with a committed row nor with another sent statement.
SentExclusive ==
  \A t \in Tx : pc[t] = "commit" =>
    /\ \A u \in Tx \ {t} : pc[u] = "commit" =>
         /\ job[u].id # job[t].id
         /\ job[u].new # NoRow /\ job[t].new # NoRow => job[u].new.key # job[t].new.key
    /\ job[t].new # NoRow =>
         \A i \in Ids : i # job[t].id /\ Stored(i) => row[i].key # job[t].new.key

TableInv == TableTypeOK /\ KeysUnique /\ JobShape /\ StoredUsed /\ SentExclusive
-----------------------------------------------------------------------------
\* Staging a write leaves rows and sent statements alone.
LEMMA StageKeeps ==
  ASSUME TableInv, NEW t \in Tx, StageAny(t)
  PROVE  TableInv'
<1> USE TableAssumption
<1> DEFINE j == job'[t]
<1>1. /\ pc[t] = "idle"
      /\ pc' = [pc EXCEPT ![t] = "write"] /\ job' = [job EXCEPT ![t] = j]
      /\ UNCHANGED <<row, used>>
      /\ j \in Jobs /\ j.op # "none"
      /\ j.op = "insert" => j.id = NoId /\ j.new \in Rows
      /\ j.op \in {"update", "delete"} => j.id \in Ids
      /\ j.op = "update" => j.was \in Rows /\ j.new \in Rows /\ (j.new.open => j.was.open)
      /\ j.op = "delete" => j.new = NoRow
  <2>1. CASE \E new \in Rows : Stage(t, "insert", NoId, new)
    <3>1. PICK new \in Rows : Stage(t, "insert", NoId, new)
      BY <2>1
    <3> DEFINE sent == [op |-> "insert", id |-> NoId, new |-> new, was |-> NoRow]
    <3>2. sent \in Jobs
      BY <3>1 DEF Jobs, Stored, TableInv, TableTypeOK
    <3>3. job' = [job EXCEPT ![t] = sent]
      BY <3>1 DEF Stage
    <3>4. j = sent
      BY <3>3 DEF TableInv, TableTypeOK
    <3> HIDE DEF j
    <3>5. job' = [job EXCEPT ![t] = j]
      BY <3>3, <3>4
    <3> QED BY <3>1, <3>2, <3>4, <3>5 DEF Stage
  <2>2. CASE \E i \in Ids, new \in Rows :
               Stored(i) /\ (new.open => row[i].open) /\ Stage(t, "update", i, new)
    <3>1. PICK i \in Ids, new \in Rows :
            Stored(i) /\ (new.open => row[i].open) /\ Stage(t, "update", i, new)
      BY <2>2
    <3> DEFINE sent == [op |-> "update", id |-> i, new |-> new, was |-> row[i]]
    <3>2. sent \in Jobs /\ row[i] \in Rows
      BY <3>1 DEF Jobs, Stored, TableInv, TableTypeOK
    <3>3. job' = [job EXCEPT ![t] = sent]
      BY <3>1 DEF Stage
    <3>4. j = sent
      BY <3>3 DEF TableInv, TableTypeOK
    <3> HIDE DEF j
    <3>5. job' = [job EXCEPT ![t] = j]
      BY <3>3, <3>4
    <3> QED BY <3>1, <3>2, <3>4, <3>5 DEF Stage
  <2>3. CASE \E i \in Ids : Stored(i) /\ Stage(t, "delete", i, NoRow)
    <3>1. PICK i \in Ids : Stored(i) /\ Stage(t, "delete", i, NoRow)
      BY <2>3
    <3> DEFINE sent == [op |-> "delete", id |-> i, new |-> NoRow, was |-> row[i]]
    <3>2. sent \in Jobs /\ row[i] \in Rows
      BY <3>1 DEF Jobs, Stored, TableInv, TableTypeOK
    <3>3. job' = [job EXCEPT ![t] = sent]
      BY <3>1 DEF Stage
    <3>4. j = sent
      BY <3>3 DEF TableInv, TableTypeOK
    <3> HIDE DEF j
    <3>5. job' = [job EXCEPT ![t] = j]
      BY <3>3, <3>4
    <3> QED BY <3>1, <3>2, <3>4, <3>5 DEF Stage
  <2> QED BY <2>1, <2>2, <2>3 DEF StageAny
<1> HIDE DEF j
<1>2. TableTypeOK'
  BY <1>1 DEF TableInv, TableTypeOK
<1>3. KeysUnique' /\ StoredUsed' /\ SentExclusive'
  BY <1>1 DEF TableInv, TableTypeOK, KeysUnique, StoredUsed, SentExclusive, Stored
<1>4. JobShape'
  BY <1>1 DEF TableInv, TableTypeOK, JobShape, Stored
<1> QED BY <1>2, <1>3, <1>4 DEF TableInv

\* A statement is sent only when no committed row and no sent statement has its key.
LEMMA SentKeyFree ==
  ASSUME TableInv, NEW t \in Tx, Sendable(t), job[t].new # NoRow,
         NEW u \in Tx \ {t}, pc[u] = "commit", job[u].new # NoRow
  PROVE  job[u].new.key # job[t].new.key
<1> SUFFICES ASSUME job[u].new.key = job[t].new.key PROVE FALSE
  OBVIOUS
<1>1. job[t].new.key \notin IndexEntries(u)
  BY DEF Sendable, Waits, KeyPending
<1>2. PICK i \in Ids : i = job[u].id /\ Stored(i) /\ row[i].key = job[t].new.key
  BY <1>1 DEF IndexEntries
<1>3. job[t].id # i
  BY <1>2 DEF Sendable, Waits, RowBusy
<1> QED BY <1>2, <1>3 DEF Sendable, KeyTaken

LEMMA InsertKeeps ==
  ASSUME TableInv, NEW t \in Tx, NEW i \in Ids, Insert(t, i)
  PROVE  TableInv'
<1> USE TableAssumption DEF TableInv
<1>1. /\ pc[t] = "write" /\ job[t].op = "insert" /\ i \notin used
      /\ job[t].id = NoId /\ job[t].new \in Rows
      /\ used' = used \cup {i} /\ job' = [job EXCEPT ![t].id = i]
      /\ pc' = [pc EXCEPT ![t] = "commit"] /\ row' = row
  BY DEF Insert, Sendable, JobShape
<1>2. job[t] \in Jobs /\ job'[t] = [job[t] EXCEPT !.id = i]
  BY <1>1 DEF TableTypeOK
<1>3. TableTypeOK'
  BY <1>1, <1>2 DEF TableTypeOK, Jobs
<1>4. KeysUnique'
  BY <1>1 DEF KeysUnique, Stored
<1>5. JobShape'
  <2> SUFFICES ASSUME NEW u \in Tx PROVE JobShape!(u)'
    BY DEF JobShape
  <2>1. CASE u = t
    BY <1>1, <1>2, <2>1 DEF TableTypeOK, JobShape, StoredUsed, Stored, Jobs
  <2>2. CASE u # t
    BY <1>1, <2>2 DEF TableTypeOK, JobShape, Stored
  <2> QED BY <2>1, <2>2
<1>6. StoredUsed'
  BY <1>1, <1>2 DEF StoredUsed, Stored, TableTypeOK, Jobs
<1>7. SentExclusive'
  <2>1. \A u \in Tx \ {t} : pc[u] = "commit" =>
          job[u].id # i /\ (job[u].new # NoRow => job[u].new.key # job[t].new.key)
    BY <1>1, SentKeyFree DEF Insert, StoredUsed
  <2>2. \A k \in Ids : Stored(k) => row[k].key # job[t].new.key
    BY <1>1 DEF Insert, Sendable, KeyTaken
  <2> QED BY <1>1, <1>2, <2>1, <2>2 DEF SentExclusive, Stored, TableTypeOK, Jobs
<1> QED BY <1>3, <1>4, <1>5, <1>6, <1>7

LEMMA ModifyKeeps ==
  ASSUME TableInv, NEW t \in Tx, Modify(t)
  PROVE  TableInv'
<1> USE TableAssumption DEF TableInv
<1>1. /\ pc[t] = "write" /\ job[t].op \in {"update", "delete"}
      /\ job[t].id \in Ids /\ Stored(job[t].id)
      /\ pc' = [pc EXCEPT ![t] = "commit"] /\ row' = row /\ used' = used /\ job' = job
  BY DEF Modify, Sendable, JobShape, RowMissing
<1>2. TableTypeOK'
  BY <1>1 DEF TableTypeOK
<1>3. KeysUnique' /\ JobShape' /\ StoredUsed'
  BY <1>1 DEF KeysUnique, JobShape, StoredUsed, Stored, TableTypeOK
<1>4. \A u \in Tx \ {t} : pc[u] = "commit" =>
        /\ job[u].id # job[t].id
        /\ job[u].new # NoRow /\ job[t].new # NoRow => job[u].new.key # job[t].new.key
  BY SentKeyFree DEF Modify, Sendable, Waits, RowBusy
<1>5. job[t].new # NoRow => \A k \in Ids : k # job[t].id /\ Stored(k) => row[k].key # job[t].new.key
  BY DEF Modify, Sendable, KeyTaken
<1>6. SentExclusive'
  BY <1>1, <1>4, <1>5 DEF SentExclusive, Stored, TableTypeOK
<1> QED BY <1>2, <1>3, <1>6

LEMMA CommitKeeps ==
  ASSUME TableInv, NEW t \in Tx, Commit(t)
  PROVE  TableInv'
<1> USE TableAssumption DEF TableInv
<1>1. /\ pc[t] = "commit" /\ row' = [row EXCEPT ![job[t].id] = job[t].new]
      /\ pc' = [pc EXCEPT ![t] = "idle"] /\ job' = [job EXCEPT ![t] = NoJob] /\ used' = used
  BY DEF Commit, End
<1>2. job[t] \in Jobs /\ job[t].id \in Ids /\ NoJob \in Jobs /\ job[t].new \in Rows \cup {NoRow}
  BY <1>1 DEF TableTypeOK, JobShape, StoredUsed, Jobs, NoJob
<1>3. TableTypeOK'
  BY <1>1, <1>2 DEF TableTypeOK
<1>4. \A k \in Ids : row'[k] = IF k = job[t].id THEN job[t].new ELSE row[k]
  BY <1>1, <1>2 DEF TableTypeOK
<1>5. KeysUnique'
  BY <1>1, <1>2, <1>4 DEF KeysUnique, SentExclusive, Stored
<1>6. \A u \in Tx \ {t} : pc'[u] = pc[u] /\ job'[u] = job[u]
                          /\ (pc[u] = "commit" => job[u].id # job[t].id)
  BY <1>1 DEF TableTypeOK, SentExclusive
<1>7. pc'[t] = "idle" /\ job'[t] = NoJob
  BY <1>1 DEF TableTypeOK
<1>8. JobShape'
  BY <1>4, <1>6, <1>7 DEF JobShape, Stored, NoJob
<1>9. StoredUsed'
  BY <1>1, <1>4, <1>6, <1>7 DEF StoredUsed, Stored
<1>10. SentExclusive'
  BY <1>1, <1>2, <1>4, <1>6, <1>7 DEF SentExclusive, Stored
<1> QED BY <1>3, <1>5, <1>8, <1>9, <1>10

\* A request that ends without its commit leaves the rows and the others alone.
LEMMA RollbackKeeps ==
  ASSUME TableInv, NEW t \in Tx, End(t), row' = row
  PROVE  TableInv'
<1> USE TableAssumption DEF TableInv
<1>1. NoJob \in Jobs
  BY DEF Jobs, NoJob
<1>2. TableTypeOK'
  BY <1>1 DEF End, TableTypeOK
<1>3. KeysUnique' /\ StoredUsed' /\ SentExclusive'
  BY DEF End, KeysUnique, StoredUsed, SentExclusive, Stored, TableTypeOK
<1>4. JobShape'
  BY DEF End, JobShape, Stored, TableTypeOK, NoJob
<1> QED BY <1>2, <1>3, <1>4

\* Every step of a request after it was staged preserves the invariant.
LEMMA StepKeeps ==
  ASSUME TableInv, NEW t \in Tx, TableStep(t)
  PROVE  TableInv'
BY InsertKeeps, ModifyKeeps, CommitKeeps, RollbackKeeps DEF TableStep, Refused, Fail

LEMMA StutterKeeps ==
  ASSUME TableInv, UNCHANGED table
  PROVE  TableInv'
BY DEF TableInv, TableTypeOK, KeysUnique, JobShape, StoredUsed, SentExclusive, Stored, table

\* A table whose rows have different keys, and no open transaction, satisfies it.
LEMMA InitHolds ==
  ASSUME NEW rows \in [Ids -> Rows \cup {NoRow}],
         \A i, j \in Ids : rows[i] # NoRow /\ rows[j] # NoRow /\ rows[i].key = rows[j].key => i = j,
         TableInit(rows)
  PROVE  TableInv
BY DEF TableInit, TableInv, TableTypeOK, KeysUnique, JobShape, StoredUsed, SentExclusive, Stored,
       NoJob, Jobs

\* Only the commit of an update that had loaded the row open opens a hidden row.
LEMMA OpensByOverlap ==
  ASSUME TableInv, NEW t \in Tx, TableStep(t), NEW i \in Ids,
         Stored(i), ~row[i].open, row'[i] # NoRow, row'[i].open
  PROVE  pc[t] = "commit" /\ job[t].id = i /\ job[t].was.open
<1>1. Commit(t)
  BY DEF TableStep, Insert, Modify, Refused, Fail
<1>2. job[t].id = i /\ job[t].new = row'[i]
  BY <1>1 DEF Commit, TableInv, TableTypeOK
<1>3. job[t].op = "update"
  BY <1>1, <1>2 DEF Commit, TableInv, JobShape, TableTypeOK, Jobs
<1> QED BY <1>1, <1>2, <1>3 DEF Commit, TableInv, JobShape
-----------------------------------------------------------------------------
\* The accounts, whose requests these are.
LEMMA AccountRequestStages ==
  ASSUME TypeOK, NEW t \in Tx, Request(t)
  PROVE  StageAny(t) \/ UNCHANGED table
<1>1. CASE (\E k \in Keys : Login(t, k)) \/ Anonymous(t)
  BY <1>1 DEF Login, Anonymous
<1>2. CASE \E new \in Rows : CreateAccount(t, new)
  BY <1>2 DEF CreateAccount, StageInsert, StageAny
<1>3. ASSUME NEW i \in Ids, NEW k \in Keys, NEW p \in Rest, UpdateAccount(t, i, k, p)
      PROVE  StageAny(t)
  <2> DEFINE new == [row[i] EXCEPT !.key = k, !.rest = p]
  <2>1. Stored(i) /\ Stage(t, "update", i, new)
    BY <1>3 DEF UpdateAccount, StageUpdate
  <2>2. new \in Rows /\ new.open = row[i].open
    BY <2>1 DEF TypeOK, TableTypeOK, Stored, Rows
  <2> QED BY <2>1, <2>2 DEF StageAny
<1>4. ASSUME NEW i \in Ids, LockAccount(t, i)
      PROVE  StageAny(t)
  <2> DEFINE new == [row[i] EXCEPT !.open = FALSE]
  <2>1. Stored(i) /\ Stage(t, "update", i, new)
    BY <1>4 DEF LockAccount, StageUpdate
  <2>2. new \in Rows /\ ~new.open
    BY <2>1 DEF TypeOK, TableTypeOK, Stored, Rows
  <2> QED BY <2>1, <2>2 DEF StageAny
<1>5. CASE \E i \in Ids : DeleteAccount(t, i)
  BY <1>5 DEF DeleteAccount, StageDelete, StageAny
<1> QED BY <1>1, <1>2, <1>3, <1>4, <1>5 DEF Request

LEMMA UserTyped ==
  ASSUME TypeOK, NEW t \in Tx, Request(t)
  PROVE  user' \in [Tx -> [email : Keys, admin : BOOLEAN] \cup {NoUser}]
<1>1. CASE \E k \in Keys : Login(t, k)
  <2>1. PICK i \in Ids : Stored(i) /\ user' = [user EXCEPT ![t] =
                           [email |-> row[i].key, admin |-> i = Admin]]
    BY <1>1 DEF Login, FindByExample
  <2>2. row[i].key \in Keys
    BY <2>1 DEF TypeOK, TableTypeOK, Stored, Rows
  <2> QED BY <2>1, <2>2 DEF TypeOK
<1>2. CASE Anonymous(t)
  BY <1>2 DEF Anonymous, TypeOK
<1>3. CASE user' = user
  BY <1>3 DEF TypeOK
<1> QED BY <1>1, <1>2, <1>3 DEF Request, CreateAccount, UpdateAccount, LockAccount, DeleteAccount

AccountInv == TypeOK /\ TableInv

LEMMA AccountInit == Init => AccountInv
<1> SUFFICES ASSUME Init PROVE AccountInv
  OBVIOUS
<1>1. PICK k \in Keys, p \in Rest :
        TableInit([i \in Ids |-> IF i = Admin THEN [key |-> k, rest |-> p, open |-> TRUE] ELSE NoRow])
  BY DEF Init
<1> DEFINE rows == [i \in Ids |-> IF i = Admin THEN [key |-> k, rest |-> p, open |-> TRUE] ELSE NoRow]
<1>2. rows \in [Ids -> Rows \cup {NoRow}]
  BY DEF Rows
<1>3. \A i, j \in Ids : rows[i] # NoRow /\ rows[j] # NoRow /\ rows[i].key = rows[j].key => i = j
  OBVIOUS
<1>4. TableInit(rows)
  BY <1>1
<1> HIDE DEF rows
<1>5. TableInv
  BY <1>2, <1>3, <1>4, InitHolds
<1> QED BY <1>5 DEF Init, AccountInv, TypeOK, TableInv

LEMMA AccountNext == AccountInv /\ [Next]_vars => AccountInv'
<1> SUFFICES ASSUME AccountInv, [Next]_vars PROVE AccountInv'
  OBVIOUS
<1>1. ASSUME NEW t \in Tx, Request(t) PROVE AccountInv'
  <2>1. TableInv'
    BY <1>1, AccountRequestStages, StageKeeps, StutterKeeps DEF AccountInv
  <2> QED BY <1>1, <2>1, UserTyped DEF AccountInv, TypeOK, TableInv
<1>2. ASSUME NEW t \in Tx, TableStep(t), UNCHANGED user PROVE AccountInv'
  BY <1>2, StepKeeps DEF AccountInv, TypeOK, TableInv
<1>3. CASE UNCHANGED vars
  BY <1>3, StutterKeeps DEF AccountInv, TypeOK, TableInv, vars, table
<1> QED BY <1>1, <1>2, <1>3 DEF Next

LEMMA AccountInvariance == Spec => []AccountInv
BY AccountInit, AccountNext, PTL DEF Spec

\* Rows, staged writes and principals keep their types.
THEOREM AccountTypes == Spec => []TypeOK
BY AccountInvariance, PTL DEF AccountInv

\* No interleaving of createAccount and updateAccount, whatever their checks saw,
\* commits two accounts with one email.
THEOREM UniqueEmails == Spec => []KeysUnique
<1>1. AccountInv => KeysUnique
  BY DEF AccountInv, TableInv
<1> QED BY <1>1, AccountInvariance, PTL

\* An account is unlocked only by an updateAccount that had loaded it before its lock
\* was committed.
THEOREM UnlocksOverlap == Spec => OpenedOnlyByOverlap
<1> DEFINE A == \A i \in Ids : Stored(i) /\ ~row[i].open /\ row'[i] # NoRow /\ row'[i].open =>
                  \E t \in Tx : pc[t] = "commit" /\ job[t].id = i /\ job[t].was.open
<1>1. AccountInv /\ [Next]_vars => [A]_table
  <2> SUFFICES ASSUME AccountInv, [Next]_vars, table' # table,
                      NEW i \in Ids, Stored(i), ~row[i].open, row'[i] # NoRow, row'[i].open
               PROVE  \E t \in Tx : pc[t] = "commit" /\ job[t].id = i /\ job[t].was.open
    OBVIOUS
  <2>1. PICK t \in Tx : Request(t) \/ TableStep(t)
    BY DEF Next, vars, table
  <2>2. CASE Request(t)
    <3>1. row' = row
      BY <2>2, AccountRequestStages DEF AccountInv, StageAny, Stage, table
    <3> QED BY <3>1
  <2>3. CASE TableStep(t)
    BY <2>3, OpensByOverlap DEF AccountInv
  <2> QED BY <2>1, <2>2, <2>3
<1> QED BY <1>1, AccountInvariance, PTL DEF Spec, OpenedOnlyByOverlap
-----------------------------------------------------------------------------
\* The table of the food specialties is this one.
LEMMA FoodTable ==
  /\ Specialty!Rows = Rows /\ Specialty!table = table
  /\ \A i : Specialty!Stored(i) <=> Stored(i)
  /\ \A rows : Specialty!TableInit(rows) <=> TableInit(rows)
  /\ \A t, op, i, new : Specialty!Stage(t, op, i, new) <=> Stage(t, op, i, new)
  /\ \A t : Specialty!TableStep(t) <=> TableStep(t)
<1>1. Specialty!Rows = Rows /\ Specialty!table = table
  BY DEF Specialty!Rows, Rows, Specialty!table, table
<1>2. \A i : Specialty!Stored(i) <=> Stored(i)
  BY DEF Specialty!Stored, Stored
<1>3. Specialty!NoJob = NoJob
  BY DEF Specialty!NoJob, NoJob
<1>4. \A rows : Specialty!TableInit(rows) <=> TableInit(rows)
  BY <1>3 DEF Specialty!TableInit, TableInit
<1>5. \A t, op, i, new : Specialty!Stage(t, op, i, new) <=> Stage(t, op, i, new)
  BY DEF Specialty!Stage, Stage
<1>6. \A t : Specialty!RowMissing(t) <=> RowMissing(t)
  BY <1>2 DEF Specialty!RowMissing, RowMissing
<1>7. \A t : Specialty!KeyTaken(t) <=> KeyTaken(t)
  BY <1>2 DEF Specialty!KeyTaken, KeyTaken
<1>8. \A t : Specialty!IndexEntries(t) = IndexEntries(t)
  BY <1>2 DEF Specialty!IndexEntries, IndexEntries
<1>9. \A t : Specialty!Waits(t) <=> Waits(t)
  BY <1>8 DEF Specialty!Waits, Waits, Specialty!RowBusy, RowBusy, Specialty!KeyPending, KeyPending
<1>10. \A t : Specialty!Sendable(t) <=> Sendable(t)
  BY <1>7, <1>9 DEF Specialty!Sendable, Sendable
<1>11. \A t : Specialty!End(t) <=> End(t)
  BY <1>3 DEF Specialty!End, End
<1>12. \A t : Specialty!TableStep(t) <=> TableStep(t)
  BY <1>6, <1>7, <1>9, <1>10, <1>11
     DEF Specialty!TableStep, TableStep, Specialty!Insert, Insert, Specialty!Modify, Modify, Specialty!Commit, Commit,
         Specialty!Refused, Refused, Specialty!Fail, Fail
<1> QED BY <1>1, <1>2, <1>4, <1>5, <1>12

LEMMA FoodRequestStages ==
  ASSUME TableTypeOK, NEW t \in Tx, Specialty!Request(t)
  PROVE  StageAny(t)
<1>1. CASE \E new \in Rows : Specialty!CreateFoodSpecialty(t, new)
  BY <1>1, FoodTable DEF Specialty!CreateFoodSpecialty, Specialty!StageInsert, StageAny
<1>2. ASSUME NEW i \in Ids, NEW k \in Keys, NEW p \in Rest, Specialty!UpdateFoodSpecialty(t, i, k, p)
      PROVE  StageAny(t)
  <2> DEFINE new == [row[i] EXCEPT !.key = k, !.rest = p]
  <2>1. Stored(i) /\ Stage(t, "update", i, new)
    BY <1>2, FoodTable DEF Specialty!UpdateFoodSpecialty, Specialty!StageUpdate
  <2>2. new \in Rows /\ new.open = row[i].open
    BY <2>1 DEF TableTypeOK, Stored, Rows
  <2> QED BY <2>1, <2>2 DEF StageAny
<1>3. ASSUME NEW i \in Ids, Specialty!InactivateFoodSpecialty(t, i)
      PROVE  StageAny(t)
  <2> DEFINE new == [row[i] EXCEPT !.open = FALSE]
  <2>1. Stored(i) /\ Stage(t, "update", i, new)
    BY <1>3, FoodTable DEF Specialty!InactivateFoodSpecialty, Specialty!StageUpdate
  <2>2. new \in Rows /\ ~new.open
    BY <2>1 DEF TableTypeOK, Stored, Rows
  <2> QED BY <2>1, <2>2 DEF StageAny
<1>4. CASE \E i \in Ids : Specialty!DeleteFoodSpecialty(t, i)
  BY <1>4, FoodTable DEF Specialty!DeleteFoodSpecialty, Specialty!StageDelete, StageAny
<1> QED BY <1>1, <1>2, <1>3, <1>4, FoodTable DEF Specialty!Request

LEMMA FoodInit == Specialty!Init => TableInv
<1> DEFINE rows == [i \in Ids |-> NoRow]
<1>1. rows \in [Ids -> Rows \cup {NoRow}]
  OBVIOUS
<1>2. \A i, j \in Ids : rows[i] # NoRow /\ rows[j] # NoRow /\ rows[i].key = rows[j].key => i = j
  OBVIOUS
<1>3. Specialty!Init => TableInit(rows)
  BY FoodTable DEF Specialty!Init
<1> HIDE DEF rows
<1> QED BY <1>1, <1>2, <1>3, InitHolds

LEMMA FoodNext == TableInv /\ [Specialty!Next]_table => TableInv'
BY FoodRequestStages, StageKeeps, StepKeeps, StutterKeeps, FoodTable DEF Specialty!Next, TableInv

LEMMA FoodInvariance == Specialty!Spec => []TableInv
BY FoodInit, FoodNext, PTL DEF Specialty!Spec, Specialty!table, table

\* No interleaving of creations and updates, whatever their checks saw, commits two
\* food specialties with one code.
THEOREM UniqueFoodSpecialtyCodes == Specialty!Spec => []KeysUnique
<1>1. TableInv => KeysUnique
  BY DEF TableInv
<1> QED BY <1>1, FoodInvariance, PTL

\* A specialty becomes active again only by an updateFoodSpecialty that had loaded it
\* before its inactivation was committed.
THEOREM ActivationsOverlap == Specialty!Spec => OpenedOnlyByOverlap
<1> DEFINE A == \A i \in Ids : Stored(i) /\ ~row[i].open /\ row'[i] # NoRow /\ row'[i].open =>
                  \E t \in Tx : pc[t] = "commit" /\ job[t].id = i /\ job[t].was.open
<1>1. TableInv /\ [Specialty!Next]_table => [A]_table
  <2> SUFFICES ASSUME TableInv, NEW t \in Tx, Specialty!Request(t) \/ TableStep(t),
                      NEW i \in Ids, Stored(i), ~row[i].open, row'[i] # NoRow, row'[i].open
               PROVE  pc[t] = "commit" /\ job[t].id = i /\ job[t].was.open
    BY FoodTable DEF Specialty!Next
  <2>1. CASE Specialty!Request(t)
    <3>1. row' = row
      BY <2>1, FoodRequestStages DEF TableInv, StageAny, Stage
    <3> QED BY <3>1
  <2>2. CASE TableStep(t)
    BY <2>2, OpensByOverlap
  <2> QED BY <2>1, <2>2
<1> QED BY <1>1, FoodInvariance, PTL DEF Specialty!Spec, Specialty!table, table, OpenedOnlyByOverlap
-----------------------------------------------------------------------------
\* The table of the authorities is this one.
LEMMA AuthTable ==
  /\ Authority!Rows = Rows /\ Authority!table = table
  /\ \A i : Authority!Stored(i) <=> Stored(i)
  /\ \A rows : Authority!TableInit(rows) <=> TableInit(rows)
  /\ \A t, op, i, new : Authority!Stage(t, op, i, new) <=> Stage(t, op, i, new)
  /\ \A t : Authority!TableStep(t) <=> TableStep(t)
<1>1. Authority!Rows = Rows /\ Authority!table = table
  BY DEF Authority!Rows, Rows, Authority!table, table
<1>2. \A i : Authority!Stored(i) <=> Stored(i)
  BY DEF Authority!Stored, Stored
<1>3. Authority!NoJob = NoJob
  BY DEF Authority!NoJob, NoJob
<1>4. \A rows : Authority!TableInit(rows) <=> TableInit(rows)
  BY <1>3 DEF Authority!TableInit, TableInit
<1>5. \A t, op, i, new : Authority!Stage(t, op, i, new) <=> Stage(t, op, i, new)
  BY DEF Authority!Stage, Stage
<1>6. \A t : Authority!RowMissing(t) <=> RowMissing(t)
  BY <1>2 DEF Authority!RowMissing, RowMissing
<1>7. \A t : Authority!KeyTaken(t) <=> KeyTaken(t)
  BY <1>2 DEF Authority!KeyTaken, KeyTaken
<1>8. \A t : Authority!IndexEntries(t) = IndexEntries(t)
  BY <1>2 DEF Authority!IndexEntries, IndexEntries
<1>9. \A t : Authority!Waits(t) <=> Waits(t)
  BY <1>8 DEF Authority!Waits, Waits, Authority!RowBusy, RowBusy, Authority!KeyPending, KeyPending
<1>10. \A t : Authority!Sendable(t) <=> Sendable(t)
  BY <1>7, <1>9 DEF Authority!Sendable, Sendable
<1>11. \A t : Authority!End(t) <=> End(t)
  BY <1>3 DEF Authority!End, End
<1>12. \A t : Authority!TableStep(t) <=> TableStep(t)
  BY <1>6, <1>7, <1>9, <1>10, <1>11
     DEF Authority!TableStep, TableStep, Authority!Insert, Insert, Authority!Modify, Modify, Authority!Commit, Commit,
         Authority!Refused, Refused, Authority!Fail, Fail
<1> QED BY <1>1, <1>2, <1>4, <1>5, <1>12

\* What sets authorities apart from the other tables: the only UPDATE ever staged
\* inactivates, and nothing is deleted.
OnlyInactivates ==
  \A t \in Tx : pc[t] # "idle" =>
    /\ job[t].op \in {"insert", "update"}
    /\ job[t].op = "update" => ~job[t].new.open

AuthInv == TableInv /\ OnlyInactivates

LEMMA AuthRequestStages ==
  ASSUME TableTypeOK, NEW t \in Tx, Authority!Request(t)
  PROVE  /\ StageAny(t)
         /\ row' = row
         /\ \A u \in Tx \ {t} : pc'[u] = pc[u] /\ job'[u] = job[u]
         /\ job'[t].op \in {"insert", "update"}
         /\ job'[t].op = "update" => ~job'[t].new.open
<1>1. CASE \E new \in Rows : Authority!CreateAuthority(t, new)
  <2>1. PICK new \in Rows : Stage(t, "insert", NoId, new)
    BY <1>1, AuthTable DEF Authority!CreateAuthority, Authority!StageInsert
  <2>2. job'[t].op = "insert"
    BY <2>1 DEF Stage, TableTypeOK
  <2> QED BY <2>1, <2>2 DEF Stage, StageAny, TableTypeOK
<1>2. CASE \E i \in Ids : Authority!InactivateAuthority(t, i)
  <2>1. PICK i \in Ids : Stored(i) /\ Stage(t, "update", i, [row[i] EXCEPT !.open = FALSE])
    BY <1>2, AuthTable DEF Authority!InactivateAuthority, Authority!StageUpdate
  <2> DEFINE new == [row[i] EXCEPT !.open = FALSE]
  <2>2. new \in Rows /\ ~new.open
    BY <2>1 DEF TableTypeOK, Stored, Rows
  <2>3. Stage(t, "update", i, new)
    BY <2>1
  <2> HIDE DEF new
  <2>4. job'[t].op = "update" /\ job'[t].new = new
    BY <2>3 DEF Stage, TableTypeOK
  <2> QED BY <2>1, <2>2, <2>3, <2>4 DEF Stage, StageAny, TableTypeOK
<1> QED BY <1>1, <1>2, AuthTable DEF Authority!Request

LEMMA AuthInit == Authority!Init => AuthInv
<1> SUFFICES ASSUME Authority!Init PROVE AuthInv
  OBVIOUS
<1>1. PICK rmgr \in Rows : rmgr.open /\ TableInit([i \in Ids |-> IF i = Admin THEN rmgr ELSE NoRow])
  BY AuthTable DEF Authority!Init
<1> DEFINE rows == [i \in Ids |-> IF i = Admin THEN rmgr ELSE NoRow]
<1>2. rows \in [Ids -> Rows \cup {NoRow}]
  BY <1>1
<1>3. \A i, j \in Ids : rows[i] # NoRow /\ rows[j] # NoRow /\ rows[i].key = rows[j].key => i = j
  OBVIOUS
<1>4. TableInit(rows)
  BY <1>1
<1> HIDE DEF rows
<1>5. TableInv
  BY <1>2, <1>3, <1>4, InitHolds
<1> QED BY <1>4, <1>5 DEF AuthInv, OnlyInactivates, TableInit

LEMMA AuthNext == AuthInv /\ [Authority!Next]_table => AuthInv'
<1> SUFFICES ASSUME AuthInv, [Authority!Next]_table PROVE AuthInv'
  OBVIOUS
<1>1. ASSUME NEW t \in Tx, Authority!Request(t) PROVE AuthInv'
  <2>1. TableInv'
    BY <1>1, AuthRequestStages, StageKeeps DEF AuthInv, TableInv
  <2>2. OnlyInactivates'
    BY <1>1, AuthRequestStages DEF AuthInv, TableInv, OnlyInactivates
  <2> QED BY <2>1, <2>2 DEF AuthInv
<1>2. ASSUME NEW t \in Tx, TableStep(t) PROVE AuthInv'
  <2>1. TableInv'
    BY <1>2, StepKeeps DEF AuthInv
  <2>2. \A u \in Tx : /\ pc'[u] # "idle" => pc[u] # "idle"
                      /\ pc'[u] # "idle" => job'[u].op = job[u].op /\ job'[u].new = job[u].new
    BY <1>2 DEF TableStep, Insert, Sendable, Modify, Commit, Refused, Fail, End, AuthInv, TableInv,
                TableTypeOK, Jobs
  <2>3. OnlyInactivates'
    BY <2>2 DEF AuthInv, OnlyInactivates
  <2> QED BY <2>1, <2>3 DEF AuthInv
<1>3. CASE UNCHANGED table
  BY <1>3, StutterKeeps DEF AuthInv, OnlyInactivates, table
<1> QED BY <1>1, <1>2, <1>3, AuthTable DEF Authority!Next

LEMMA AuthInvariance == Authority!Spec => []AuthInv
BY AuthInit, AuthNext, PTL DEF Authority!Spec, Authority!table, table

\* No interleaving of creations, whatever their checks saw, commits two authorities
\* with one code.
THEOREM UniqueAuthorityCodes == Authority!Spec => []KeysUnique
<1>1. AuthInv => KeysUnique
  BY DEF AuthInv, TableInv
<1> QED BY <1>1, AuthInvariance, PTL

LEMMA InactiveKept ==
  AuthInv /\ [Authority!Next]_table =>
    [\A i \in Ids : Stored(i) /\ ~row[i].open => row'[i] # NoRow /\ ~row'[i].open]_table
<1> SUFFICES ASSUME AuthInv, NEW t \in Tx, Authority!Request(t) \/ TableStep(t),
                    NEW i \in Ids, Stored(i), ~row[i].open
             PROVE  row'[i] # NoRow /\ ~row'[i].open
  BY AuthTable DEF Authority!Next
<1>1. CASE row' = row
  BY <1>1 DEF Stored
<1>2. CASE Commit(t)
  <2>1. pc[t] = "commit" /\ row' = [row EXCEPT ![job[t].id] = job[t].new]
    BY <1>2 DEF Commit
  <2>2. CASE job[t].id # i
    BY <2>1, <2>2 DEF AuthInv, TableInv, TableTypeOK, Stored
  <2>3. CASE job[t].id = i
    <3>1. row'[i] = job[t].new
      BY <2>1, <2>3 DEF AuthInv, TableInv, TableTypeOK
    <3>2. job[t].op = "update" /\ job[t].new \in Rows /\ ~job[t].new.open
      BY <2>1, <2>3 DEF AuthInv, TableInv, JobShape, OnlyInactivates
    <3> QED BY <3>1, <3>2, TableAssumption
  <2> QED BY <2>2, <2>3
<1>3. Authority!Request(t) \/ Commit(t) \/ row' = row
  BY DEF TableStep, Insert, Modify, Refused, Fail
<1> QED BY <1>1, <1>2, <1>3, AuthRequestStages DEF AuthInv, TableInv

\* An inactivated authority stays there, inactive.
THEOREM StaysInactive == Authority!Spec => Authority!InactiveSticks
<1>1. AuthInv /\ [Authority!Next]_table =>
        [\A i \in Ids : Authority!Stored(i) /\ ~row[i].open =>
           row'[i] # NoRow /\ ~row'[i].open]_table
  BY InactiveKept, AuthTable
<1> QED BY <1>1, AuthInvariance, PTL
     DEF Authority!Spec, Authority!table, table, Authority!InactiveSticks
-----------------------------------------------------------------------------
(* The three tables of the server *)

TablesInv ==
  /\ TypeOK /\ TableInv /\ kind \in {"accounts", "authorities", "specialties"}
  /\ kind = "authorities" => OnlyInactivates

LEMMA TablesBegin == TablesInit => TablesInv
<1>1. CASE kind = "accounts" /\ Init
  BY <1>1, AccountInit DEF AccountInv, TablesInv
<1>2. CASE kind = "authorities" /\ Authority!Init /\ user = [t \in Tx |-> NoUser]
  BY <1>2, AuthInit DEF AuthInv, TablesInv, TypeOK, TableInv
<1>3. CASE kind = "specialties" /\ Specialty!Init /\ user = [t \in Tx |-> NoUser]
  BY <1>3, FoodInit DEF TablesInv, TypeOK, TableInv
<1> QED BY <1>1, <1>2, <1>3 DEF TablesInit

LEMMA TablesKept == TablesInv /\ [TablesNext]_<<vars, kind>> => TablesInv'
<1> SUFFICES ASSUME TablesInv, [TablesNext]_<<vars, kind>> PROVE TablesInv'
  OBVIOUS
<1>1. CASE kind = "accounts" /\ kind' = kind /\ Next
  BY <1>1, AccountNext DEF AccountInv, TablesInv
<1>2. CASE kind = "authorities" /\ kind' = kind /\ Authority!Next /\ UNCHANGED user
  BY <1>2, AuthNext DEF AuthInv, TablesInv, TypeOK, TableInv
<1>3. CASE kind = "specialties" /\ kind' = kind /\ Specialty!Next /\ UNCHANGED user
  BY <1>3, FoodNext DEF TablesInv, TypeOK, TableInv
<1>4. CASE UNCHANGED <<vars, kind>>
  BY <1>4, StutterKeeps DEF TablesInv, TypeOK, TableInv, OnlyInactivates, vars, table
<1> QED BY <1>1, <1>2, <1>3, <1>4 DEF TablesNext

LEMMA TablesInvariance == TablesSpec => []TablesInv
BY TablesBegin, TablesKept, PTL DEF TablesSpec

\* Rows, staged writes and principals keep their types, and no interleaving of requests
\* commits two rows with one email or code, in any of the three tables.
THEOREM TablesUnique == TablesSpec => []TypeOK /\ []KeysUnique
<1>1. TablesInv => TypeOK /\ KeysUnique
  BY DEF TablesInv, TableInv
<1> QED BY <1>1, TablesInvariance, PTL

\* Of the three tables, the authorities are the one where what was inactivated stays so.
THEOREM AuthorityStaysInactiveHolds == TablesSpec => AuthorityStaysInactive
<1> DEFINE A == \A i \in Ids : Stored(i) /\ ~row[i].open => row'[i] # NoRow /\ ~row'[i].open
<1>1. TablesInv /\ [TablesNext]_<<vars, kind>> => [kind = "authorities" => A]_table
  <2> SUFFICES ASSUME TablesInv, TablesNext, kind = "authorities", table' # table PROVE A
    BY DEF vars, table
  <2>1. AuthInv /\ [Authority!Next]_table
    BY DEF TablesInv, TablesNext, AuthInv
  <2> QED BY <2>1, InactiveKept
<1> QED BY <1>1, TablesInvariance, PTL DEF TablesSpec, AuthorityStaysInactive
=============================================================================
