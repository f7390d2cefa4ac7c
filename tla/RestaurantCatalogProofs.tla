------------------------ MODULE RestaurantCatalogProofs ------------------------
(***************************************************************************)
(* Proofs about RestaurantCatalog, for any number of threads, accounts,    *)
(* restaurants and specialties.  The properties about the index rest on    *)
(* one inductive invariant: next to the properties themselves it says what *)
(* a session looks like at each statement (SessionShape) and which rows a  *)
(* transaction may have written (RowShape).                                *)
(***************************************************************************)
EXTENDS RestaurantCatalog, TLAPS

SessionShape ==
  \A t \in Tx :
    /\ wrote[t] \subseteq job[t].rows
    /\ pc[t] = "idle" => job[t] = NoJob /\ wrote[t] = {}
    /\ pc[t] = "insert" => job[t].op = "create"
    /\ pc[t] = "update" => \E r \in Restaurants : job[t].rows = {r}
    /\ pc[t] \in {"insert", "update"} => ~Removes(t)
    /\ pc[t] = "deletes" => Removes(t)
    /\ job[t].op = "create" => wrote[t] = job[t].rows
    /\ pc[t] = "insert" => wrote[t] = {}
    /\ job[t].op = "create" => \A q, r \in wrote[t] : q = r
    /\ pc[t] \in {"root", "commit"} /\ Removes(t) => wrote[t] = job[t].rows

RowShape ==
  /\ \A r \in Restaurants : status[r] # "live" => owner[r] = NoAccount
  /\ \A t \in Tx : \A r \in wrote[t] :
       status[r] = IF job[t].op = "create" THEN "spent" ELSE "live"

IInv ==
  /\ TypeOK
  /\ SessionShape
  /\ RowShape
  /\ WriterOwnsDocument
  /\ DeletedStaysUnlisted
  /\ IndexMirrorsRows
-----------------------------------------------------------------------------
LEMMA NoJobType == NoJob \in Jobs
BY DEF NoJob, Jobs, Ops

\* The document a listener writes is a document.
LEMMA ImageType ==
  ASSUME TypeOK, NEW t \in Tx
  PROVE  Image(t) \in Docs /\ Image(t) # NoDoc
BY NoValuesAssumption DEF TypeOK, Image, Docs, Jobs

LEMMA InitIInv == Init => IInv
<1> SUFFICES ASSUME Init PROVE IInv
  OBVIOUS
<1>1. TypeOK
  BY NoJobType DEF Init, TypeOK
<1>2. SessionShape /\ RowShape
  BY DEF Init, SessionShape, RowShape, NoJob, Removes
<1>3. WriterOwnsDocument /\ DeletedStaysUnlisted /\ IndexMirrorsRows
  BY DEF Init, WriterOwnsDocument, DeletedStaysUnlisted, IndexMirrorsRows, InSync
<1> QED
  BY <1>1, <1>2, <1>3 DEF IInv
-----------------------------------------------------------------------------
\* A method body only fills the session of an idle thread.
LEMMA StartIInv ==
  ASSUME IInv, NEW t \in Tx, NEW j \in Jobs,
         NEW next \in {"insert", "update", "joins", "root"},
         Start(t, j, next),
         next \in {"insert", "update"} => j.op \in {"create", "update"},
         next = "insert" => j.op = "create",
         next = "update" => \E r \in Restaurants : j.rows = {r},
         next = "root" => j.op = "deleteSpecialty",
         j.op = "create" => j.rows = {}
  PROVE  IInv'
<1> USE DEF IInv
<1>1. TypeOK'
  BY DEF TypeOK, Start
<1>2. /\ pc[t] = "idle" /\ wrote[t] = {} /\ job'[t] = j /\ pc'[t] = next
      /\ \A u \in Tx \ {t} : job'[u] = job[u] /\ pc'[u] = pc[u]
  BY DEF TypeOK, Start, SessionShape
<1>3. UNCHANGED <<accounts, specialties, status, content, owner, served, doc, wrote, unsynced>>
  BY DEF Start
<1>4. SessionShape'
  BY <1>2, <1>3, ZenonT(40) DEF SessionShape, Removes
<1>5. RowShape'
  BY <1>2, <1>3 DEF RowShape
<1>6. WriterOwnsDocument'
  BY <1>2, <1>3 DEF WriterOwnsDocument, Removes, Image
<1>7. DeletedStaysUnlisted' /\ IndexMirrorsRows'
  BY <1>3 DEF DeletedStaysUnlisted, IndexMirrorsRows, Quiet, InSync
<1> QED
  BY <1>1, <1>4, <1>5, <1>6, <1>7

LEMMA RequestIInv ==
  ASSUME IInv, NEW t \in Tx, Request(t)
  PROVE  IInv'
<1> USE DEF IInv
<1>1. CASE \E a \in Accounts, c \in Contents, P \in SUBSET Specialties : CreateRestaurant(t, a, c, P)
  <2> PICK a \in Accounts, c \in Contents, P \in SUBSET Specialties : CreateRestaurant(t, a, c, P)
    BY <1>1
  <2> DEFINE j == [op |-> "create", acct |-> a, rows |-> {}, content |-> c,
                   served |-> P, was |-> {}]
  <2>1. j \in Jobs
    BY DEF Jobs, Ops
  <2>2. Start(t, j, "insert")
    BY DEF CreateRestaurant
  <2> QED
    BY <2>1, <2>2, StartIInv
<1>2. CASE \E a \in Accounts, r \in Restaurants, c \in Contents, P \in SUBSET Specialties :
             \E next \in {"update", "joins"} : UpdateRestaurant(t, a, r, c, P, next)
  <2> PICK a \in Accounts, r \in Restaurants, c \in Contents, P \in SUBSET Specialties,
           next \in {"update", "joins"} : UpdateRestaurant(t, a, r, c, P, next)
    BY <1>2
  <2> DEFINE j == [op |-> "update", acct |-> a, rows |-> {r}, content |-> c, served |-> P,
                   was |-> served[r]]
  <2>1. j \in Jobs
    BY DEF Jobs, Ops, TypeOK
  <2>2. Start(t, j, next)
    BY DEF UpdateRestaurant
  <2>3. j.op = "update" /\ j.rows = {r}
    OBVIOUS
  <2> HIDE DEF j
  <2> QED
    BY <2>1, <2>2, <2>3, StartIInv
<1>3. CASE \E a \in Accounts, r \in Restaurants : DeleteRestaurant(t, a, r)
  <2> PICK a \in Accounts, r \in Restaurants : DeleteRestaurant(t, a, r)
    BY <1>3
  <2> DEFINE j == [NoJob EXCEPT !.op = "delete", !.acct = a, !.rows = {r}]
  <2>1. j \in Jobs /\ j.op = "delete"
    BY DEF NoJob, Jobs, Ops
  <2>2. Start(t, j, "joins")
    BY DEF DeleteRestaurant
  <2> QED
    BY <2>1, <2>2, StartIInv
<1>4. CASE \E a \in Accounts : DeleteAccount(t, a)
  <2> PICK a \in Accounts : DeleteAccount(t, a)
    BY <1>4
  <2> DEFINE j == [NoJob EXCEPT !.op = "deleteAccount", !.acct = a,
                                !.rows = {r \in Restaurants : owner[r] = a}]
  <2>1. j \in Jobs /\ j.op = "deleteAccount"
    BY DEF NoJob, Jobs, Ops
  <2>2. Start(t, j, "joins")
    BY DEF DeleteAccount
  <2> QED
    BY <2>1, <2>2, StartIInv
<1>5. CASE \E s \in Specialties : DeleteFoodSpecialty(t, s)
  <2> PICK s \in Specialties : DeleteFoodSpecialty(t, s)
    BY <1>5
  <2> DEFINE j == [NoJob EXCEPT !.op = "deleteSpecialty", !.served = {s}]
  <2>1. j \in Jobs /\ j.op = "deleteSpecialty"
    BY DEF NoJob, Jobs, Ops
  <2>2. Start(t, j, "root")
    BY DEF DeleteFoodSpecialty
  <2> QED
    BY <2>1, <2>2, StartIInv
<1> QED
  BY <1>1, <1>2, <1>3, <1>4, <1>5 DEF Request
-----------------------------------------------------------------------------
\* A listener that writes a document does so for a row that no other transaction
\* has written and that is not deleted: an insert or an update by its owner.
LEMMA WriteIInv ==
  ASSUME IInv, NEW t \in Tx, NEW r \in Restaurants,
         PersistInsert(t, r) \/ FlushUpdate(t, r)
  PROVE  IInv'
<1> USE DEF IInv
<1>1. /\ \A u \in Tx \ {t} : r \notin wrote[u]
      /\ wrote[t] \subseteq {r}
      /\ ~Removes(t)
      /\ status[r] # "deleted"
  BY DEF PersistInsert, FlushUpdate, RowFound, NewId, RowBusy, SessionShape, RowShape, TypeOK
<1>2. /\ wrote' = [wrote EXCEPT ![t] = {r}]
      /\ doc' = [doc EXCEPT ![r] = Image(t)]
      /\ UNCHANGED <<accounts, specialties, content, owner, served, unsynced>>
  BY DEF PersistInsert, FlushUpdate, Index
<1>3. /\ \A u \in Tx \ {t} : job'[u] = job[u] /\ pc'[u] = pc[u]
      /\ job'[t].op = job[t].op /\ job'[t].rows = {r}
      /\ job'[t].content = job[t].content /\ job'[t].served = job[t].served
      /\ pc'[t] \in {"update", "joins"}
      /\ \A q \in Restaurants \ {r} : status'[q] = status[q]
      /\ status'[r] = IF job[t].op = "create" THEN "spent" ELSE "live"
      /\ status' \in [Restaurants -> {"free", "spent", "live", "deleted"}]
      /\ status'[r] # "live" => status[r] # "live"
  <2>1. CASE PersistInsert(t, r)
    BY <2>1 DEF PersistInsert, NewId, TypeOK, Jobs, SessionShape
  <2>2. CASE FlushUpdate(t, r)
    BY <2>2 DEF FlushUpdate, RowFound, TypeOK, SessionShape, RowShape
  <2> QED
    BY <2>1, <2>2
<1>4. job' \in [Tx -> Jobs] /\ pc' \in [Tx -> {"idle", "insert", "update", "joins", "deletes", "root", "commit"}]
  <2>1. CASE PersistInsert(t, r)
    BY <2>1, SMTT(30) DEF PersistInsert, TypeOK, Jobs
  <2>2. CASE FlushUpdate(t, r)
    BY <2>2 DEF FlushUpdate, TypeOK
  <2> QED
    BY <2>1, <2>2
<1>5. Image(t) \in Docs /\ Image(t) # NoDoc
  BY ImageType
<1>6. TypeOK'
  BY <1>2, <1>3, <1>4, <1>5 DEF TypeOK
<1>7. /\ \A u \in Tx \ {t} : wrote'[u] = wrote[u]
      /\ wrote'[t] = {r}
      /\ doc'[r] = Image(t)
      /\ \A q \in Restaurants \ {r} : doc'[q] = doc[q]
  BY <1>2 DEF TypeOK
<1>8. SessionShape'
  <2> SUFFICES ASSUME NEW u \in Tx
               PROVE  /\ wrote'[u] \subseteq job'[u].rows
                      /\ pc'[u] = "idle" => job'[u] = NoJob /\ wrote'[u] = {}
                      /\ pc'[u] = "insert" => job'[u].op = "create"
                      /\ pc'[u] = "update" => \E q \in Restaurants : job'[u].rows = {q}
                      /\ pc'[u] \in {"insert", "update"} => ~Removes(u)'
                      /\ pc'[u] = "deletes" => Removes(u)'
                      /\ job'[u].op = "create" => wrote'[u] = job'[u].rows
                      /\ pc'[u] = "insert" => wrote'[u] = {}
                      /\ job'[u].op = "create" => \A q, v \in wrote'[u] : q = v
                      /\ pc'[u] \in {"root", "commit"} /\ Removes(u)' => wrote'[u] = job'[u].rows
    BY DEF SessionShape
  <2>1. CASE u = t
    BY <2>1, <1>1, <1>3, <1>7 DEF Removes
  <2>2. CASE u # t
    BY <2>2, <1>3, <1>7 DEF SessionShape, Removes
  <2> QED
    BY <2>1, <2>2
<1>9. RowShape'
  <2>1. \A q \in Restaurants : status'[q] # "live" => owner'[q] = NoAccount
    BY <1>2, <1>3 DEF RowShape
  <2>2. ASSUME NEW u \in Tx, NEW q \in wrote'[u]
        PROVE  status'[q] = IF job'[u].op = "create" THEN "spent" ELSE "live"
    BY <1>1, <1>3, <1>7 DEF RowShape, TypeOK
  <2> QED
    BY <2>1, <2>2 DEF RowShape
<1>10. WriterOwnsDocument'
  <2> SUFFICES ASSUME NEW u \in Tx, NEW q \in wrote'[u]
               PROVE  /\ \A v \in Tx \ {u} : q \notin wrote'[v]
                      /\ doc'[q] = IF Removes(u)' THEN NoDoc ELSE Image(u)'
    BY DEF WriterOwnsDocument
  <2>1. CASE u = t
    BY <2>1, <1>1, <1>3, <1>7 DEF Removes, Image
  <2>2. CASE u # t
    <3>1. q \in wrote[u] /\ q # r /\ q \in Restaurants
      BY <2>2, <1>1, <1>7 DEF TypeOK
    <3>2. doc'[q] = IF Removes(u) THEN NoDoc ELSE Image(u)
      BY <3>1, <1>7 DEF WriterOwnsDocument
    <3>3. Removes(u)' = Removes(u) /\ Image(u)' = Image(u)
      BY <2>2, <1>3 DEF Removes, Image
    <3>4. \A v \in Tx \ {u} : q \notin wrote'[v]
      BY <3>1, <1>7 DEF WriterOwnsDocument
    <3> QED
      BY <3>2, <3>3, <3>4
  <2> QED
    BY <2>1, <2>2
<1>11. DeletedStaysUnlisted'
  BY <1>3, <1>7 DEF DeletedStaysUnlisted
<1>12. IndexMirrorsRows'
  <2> SUFFICES ASSUME NEW q \in Restaurants, Quiet(q)', q \notin unsynced'
               PROVE  InSync(q)'
    BY DEF IndexMirrorsRows
  <2>1. q # r
    BY <1>7 DEF Quiet
  <2>2. Quiet(q) /\ q \notin unsynced
    BY <2>1, <1>1, <1>2, <1>7 DEF Quiet
  <2>3. InSync(q)
    BY <2>2 DEF IndexMirrorsRows
  <2> QED
    BY <2>1, <2>3, <1>2, <1>3, <1>7 DEF InSync
<1> QED
  BY <1>6, <1>8, <1>9, <1>10, <1>11, <1>12

\* Join rows and the rows of accounts and food specialties have no document.
LEMMA NoListenerIInv ==
  ASSUME IInv, NEW t \in Tx, FlushCollections(t) \/ FlushDeleteRoot(t)
  PROVE  IInv'
<1> USE DEF IInv
<1>1. /\ UNCHANGED <<accounts, specialties, status, content, owner, served, doc, job, wrote, unsynced>>
      /\ pc[t] \in {"joins", "root"}
      /\ \E p \in {"commit", "root", "deletes"} :
           /\ pc' = [pc EXCEPT ![t] = p]
           /\ p = "deletes" => Removes(t)
           /\ p # "deletes" /\ Removes(t) =>
                (pc[t] = "joins" /\ job[t].rows = {}) \/ pc[t] = "root"
  BY DEF FlushCollections, FlushDeleteRoot, AfterJoins
<1>2. TypeOK'
  BY <1>1 DEF TypeOK
<1>3. SessionShape'
  <2>1. /\ \A u \in Tx \ {t} : pc'[u] = pc[u]
        /\ pc'[t] \in {"commit", "root", "deletes"}
        /\ pc'[t] = "deletes" => Removes(t)
        /\ pc'[t] # "deletes" /\ Removes(t) => wrote[t] = job[t].rows
    BY <1>1 DEF TypeOK, SessionShape
  <2>2. \A u \in Tx : Removes(u)' = Removes(u)
    BY <1>1 DEF Removes
  <2> QED
    BY <1>1, <2>1, <2>2 DEF SessionShape
<1>4. RowShape' /\ DeletedStaysUnlisted' /\ IndexMirrorsRows'
  BY <1>1 DEF RowShape, DeletedStaysUnlisted, IndexMirrorsRows, Quiet, InSync
<1>5. WriterOwnsDocument'
  BY <1>1 DEF WriterOwnsDocument, Removes, Image
<1> QED
  BY <1>2, <1>3, <1>4, <1>5

\* A deletion removes the document of a row that it alone has written.
LEMMA FlushDeleteIInv ==
  ASSUME IInv, NEW t \in Tx, NEW r \in Restaurants, FlushDelete(t, r)
  PROVE  IInv'
<1> USE DEF IInv
<1>1. /\ pc[t] = "deletes" /\ Removes(t) /\ r \in job[t].rows
      /\ status[r] = "live"
      /\ \A u \in Tx \ {t} : r \notin wrote[u]
      /\ UNCHANGED <<accounts, specialties, status, content, owner, served, job, unsynced>>
  BY DEF FlushDelete, RemoveFromIndex, RowFound, RowBusy, SessionShape
<1>2. /\ wrote'[t] = wrote[t] \cup {r}
      /\ doc'[r] = NoDoc
      /\ \A u \in Tx \ {t} : wrote'[u] = wrote[u] /\ pc'[u] = pc[u]
      /\ \A q \in Restaurants \ {r} : doc'[q] = doc[q]
      /\ pc'[t] \in {"deletes", "root", "commit"}
      /\ pc'[t] \in {"root", "commit"} => job[t].rows = wrote[t] \cup {r}
  BY DEF FlushDelete, RemoveFromIndex, TypeOK
<1>3. TypeOK'
  BY DEF FlushDelete, RemoveFromIndex, TypeOK
<1>4. SessionShape'
  <2>1. \A u \in Tx : Removes(u)' = Removes(u)
    BY <1>1 DEF Removes
  <2>2. job[t].op # "create" /\ wrote'[t] \subseteq job[t].rows
    BY <1>1, <1>2 DEF SessionShape, Removes
  <2>3. pc'[t] \in {"root", "commit"} => wrote'[t] = job[t].rows
    BY <1>2
  <2> SUFFICES ASSUME NEW u \in Tx
               PROVE  /\ wrote'[u] \subseteq job'[u].rows
                      /\ pc'[u] = "idle" => job'[u] = NoJob /\ wrote'[u] = {}
                      /\ pc'[u] = "insert" => job'[u].op = "create"
                      /\ pc'[u] = "update" => \E q \in Restaurants : job'[u].rows = {q}
                      /\ pc'[u] \in {"insert", "update"} => ~Removes(u)'
                      /\ pc'[u] = "deletes" => Removes(u)'
                      /\ job'[u].op = "create" => wrote'[u] = job'[u].rows
                      /\ pc'[u] = "insert" => wrote'[u] = {}
                      /\ job'[u].op = "create" => \A q, v \in wrote'[u] : q = v
                      /\ pc'[u] \in {"root", "commit"} /\ Removes(u)' => wrote'[u] = job'[u].rows
    BY DEF SessionShape
  <2>4. CASE u = t
    BY <2>4, <1>1, <1>2, <2>1, <2>2, <2>3
  <2>5. CASE u # t
    BY <2>5, <1>1, <1>2, <2>1 DEF SessionShape
  <2> QED
    BY <2>4, <2>5
<1>5. RowShape'
  BY <1>1, <1>2 DEF RowShape, Removes
<1>6. WriterOwnsDocument'
  <2> SUFFICES ASSUME NEW u \in Tx, NEW q \in wrote'[u]
               PROVE  /\ \A v \in Tx \ {u} : q \notin wrote'[v]
                      /\ doc'[q] = IF Removes(u)' THEN NoDoc ELSE Image(u)'
    BY DEF WriterOwnsDocument
  <2>1. Removes(u)' = Removes(u) /\ Image(u)' = Image(u)
    BY <1>1 DEF Removes, Image
  <2>2. CASE q = r
    BY <2>1, <2>2, <1>1, <1>2
  <2>3. CASE q # r
    <3>1. q \in wrote[u] /\ q \in Restaurants
      BY <2>3, <1>2 DEF TypeOK
    <3>2. \A v \in Tx \ {u} : q \notin wrote'[v]
      BY <2>3, <3>1, <1>2 DEF WriterOwnsDocument
    <3> QED
      BY <2>1, <2>3, <3>1, <3>2, <1>2 DEF WriterOwnsDocument
  <2> QED
    BY <2>2, <2>3
<1>7. DeletedStaysUnlisted'
  BY <1>1, <1>2 DEF DeletedStaysUnlisted
<1>8. IndexMirrorsRows'
  <2> SUFFICES ASSUME NEW q \in Restaurants, Quiet(q)', q \notin unsynced'
               PROVE  InSync(q)'
    BY DEF IndexMirrorsRows
  <2>1. q # r
    BY <1>2 DEF Quiet
  <2>2. Quiet(q) /\ q \notin unsynced
    BY <1>1, <1>2, <2>1 DEF Quiet
  <2> QED
    BY <2>1, <2>2, <1>1, <1>2 DEF InSync, IndexMirrorsRows
<1> QED
  BY <1>3, <1>4, <1>5, <1>6, <1>7, <1>8
-----------------------------------------------------------------------------
\* What a commit leaves of each row: the written ones as their document says, the
\* others as they were.
LEMMA CommitRows ==
  ASSUME IInv, NEW t \in Tx, Commit(t)
  PROVE  /\ \A r \in Restaurants \ wrote[t] : status'[r] = status[r] /\ content'[r] = content[r]
         /\ \A r \in wrote[t] :
              /\ status'[r] = IF Removes(t) THEN "deleted" ELSE "live"
              /\ content'[r] = IF Removes(t) THEN NoContent ELSE job[t].content
              /\ doc'[r] = IF Removes(t) THEN NoDoc ELSE Image(t)
         /\ doc' = doc
         /\ \A r \in wrote[t] : InSync(r)'
<1> USE DEF IInv
<1>1. wrote[t] \subseteq Restaurants
  BY DEF TypeOK
<1>2. doc' = doc
  BY DEF Commit
<1>3. status' = [r \in Restaurants |-> IF r \notin wrote[t] THEN status[r]
                                       ELSE IF Removes(t) THEN "deleted" ELSE "live"]
  BY DEF Commit
<1>4. content' = [r \in Restaurants |-> IF r \notin wrote[t] THEN content[r]
                                        ELSE IF Removes(t) THEN NoContent ELSE job[t].content]
  BY DEF Commit
<1>5. \A r \in wrote[t] : doc'[r] = IF Removes(t) THEN NoDoc ELSE Image(t)
  BY <1>2 DEF WriterOwnsDocument
<1>6. Image(t) # NoDoc /\ Image(t).content = job[t].content
  BY ImageType DEF Image
<1>7. \A r \in wrote[t] : InSync(r)'
  BY <1>1, <1>3, <1>4, <1>5, <1>6 DEF InSync
<1> QED
  BY <1>1, <1>2, <1>3, <1>4, <1>5, <1>7

LEMMA CommitType ==
  ASSUME IInv, NEW t \in Tx, Commit(t)
  PROVE  TypeOK'
<1> USE DEF IInv
<1>1. /\ job[t].content \in Contents \cup {NoContent}
      /\ job[t].acct \in Accounts \cup {NoAccount}
      /\ job[t].served \subseteq Specialties
      /\ Added(t) \subseteq Specialties
  BY DEF TypeOK, Jobs, Added
<1>2. accounts' \subseteq Accounts /\ specialties' \subseteq Specialties
  BY DEF Commit, TypeOK
<1>3. status' \in [Restaurants -> {"free", "spent", "live", "deleted"}]
  BY DEF Commit, TypeOK
<1>4. content' \in [Restaurants -> Contents \cup {NoContent}]
  BY <1>1 DEF Commit, TypeOK
<1>5. owner' \in [Restaurants -> Accounts \cup {NoAccount}]
  BY <1>1 DEF Commit, TypeOK
<1>6. served' \in [Restaurants -> SUBSET Specialties]
  BY <1>1 DEF Commit, TypeOK
<1>7. /\ doc' \in [Restaurants -> Docs \cup {NoDoc}]
      /\ unsynced' \subseteq Restaurants
      /\ pc' \in [Tx -> {"idle", "insert", "update", "joins", "deletes", "root", "commit"}]
      /\ job' \in [Tx -> Jobs]
      /\ wrote' \in [Tx -> SUBSET Restaurants]
  BY NoJobType DEF Commit, End, TypeOK
<1> QED
  BY <1>2, <1>3, <1>4, <1>5, <1>6, <1>7 DEF TypeOK

\* However a transaction ends, its session is empty and the others keep theirs.
LEMMA EndShape ==
  ASSUME IInv, NEW t \in Tx, End(t)
  PROVE  /\ SessionShape'
         /\ wrote'[t] = {} /\ job'[t] = NoJob
         /\ \A u \in Tx \ {t} : wrote'[u] = wrote[u] /\ job'[u] = job[u]
<1>1. /\ wrote'[t] = {} /\ job'[t] = NoJob /\ pc'[t] = "idle"
      /\ \A u \in Tx \ {t} : wrote'[u] = wrote[u] /\ job'[u] = job[u] /\ pc'[u] = pc[u]
  BY DEF End, IInv, TypeOK
<1>2. SessionShape'
  <2> SUFFICES ASSUME NEW u \in Tx
               PROVE  /\ wrote'[u] \subseteq job'[u].rows
                      /\ pc'[u] = "idle" => job'[u] = NoJob /\ wrote'[u] = {}
                      /\ pc'[u] = "insert" => job'[u].op = "create"
                      /\ pc'[u] = "update" => \E q \in Restaurants : job'[u].rows = {q}
                      /\ pc'[u] \in {"insert", "update"} => ~Removes(u)'
                      /\ pc'[u] = "deletes" => Removes(u)'
                      /\ job'[u].op = "create" => wrote'[u] = job'[u].rows
                      /\ pc'[u] = "insert" => wrote'[u] = {}
                      /\ job'[u].op = "create" => \A q, v \in wrote'[u] : q = v
                      /\ pc'[u] \in {"root", "commit"} /\ Removes(u)' => wrote'[u] = job'[u].rows
    BY DEF SessionShape
  <2>1. CASE u = t
    BY <2>1, <1>1 DEF NoJob
  <2>2. CASE u # t
    BY <2>2, <1>1 DEF SessionShape, Removes, IInv
  <2> QED
    BY <2>1, <2>2
<1> QED
  BY <1>1, <1>2

LEMMA CommitIInv ==
  ASSUME IInv, NEW t \in Tx, Commit(t)
  PROVE  IInv'
<1> USE DEF IInv
<1>1. End(t) /\ unsynced' = unsynced \ wrote[t]
  BY DEF Commit
<1>2. \A u \in Tx \ {t} : wrote[u] \cap wrote[t] = {}
  BY DEF WriterOwnsDocument
<1>3. RowShape'
  <2>1. ASSUME NEW r \in Restaurants, status'[r] # "live"
        PROVE  owner'[r] = NoAccount
    <3>1. owner'[r] = IF \/ Removes(t) /\ r \in job[t].rows
                         \/ job[t].op = "deleteAccount" /\ owner[r] = job[t].acct
                      THEN NoAccount
                      ELSE IF job[t].op = "create" /\ r \in wrote[t] THEN job[t].acct ELSE owner[r]
      BY DEF Commit
    <3>2. CASE r \in wrote[t]
      BY <2>1, <3>1, <3>2, CommitRows DEF SessionShape
    <3>3. CASE r \notin wrote[t]
      BY <2>1, <3>1, <3>3, CommitRows DEF RowShape
    <3> QED
      BY <3>2, <3>3
  <2>2. ASSUME NEW u \in Tx, NEW r \in wrote'[u]
        PROVE  status'[r] = IF job'[u].op = "create" THEN "spent" ELSE "live"
    <3>1. u # t /\ r \in wrote[u] /\ r \notin wrote[t] /\ job'[u] = job[u] /\ r \in Restaurants
      BY <1>1, <1>2, EndShape DEF TypeOK
    <3> QED
      BY <3>1, CommitRows DEF RowShape
  <2> QED
    BY <2>1, <2>2 DEF RowShape
<1>4. WriterOwnsDocument'
  <2> SUFFICES ASSUME NEW u \in Tx, NEW r \in wrote'[u]
               PROVE  /\ \A v \in Tx \ {u} : r \notin wrote'[v]
                      /\ doc'[r] = IF Removes(u)' THEN NoDoc ELSE Image(u)'
    BY DEF WriterOwnsDocument
  <2>1. u # t /\ r \in wrote[u] /\ job'[u] = job[u]
    BY <1>1, EndShape
  <2>2. \A v \in Tx \ {u} : r \notin wrote'[v]
    BY <2>1, <1>1, EndShape DEF WriterOwnsDocument
  <2>3. Removes(u)' = Removes(u) /\ Image(u)' = Image(u)
    BY <2>1 DEF Removes, Image
  <2> QED
    BY <2>1, <2>2, <2>3, CommitRows DEF WriterOwnsDocument
<1>5. DeletedStaysUnlisted'
  BY CommitRows DEF DeletedStaysUnlisted
<1>6. IndexMirrorsRows'
  <2> SUFFICES ASSUME NEW r \in Restaurants, Quiet(r)', r \notin unsynced'
               PROVE  InSync(r)'
    BY DEF IndexMirrorsRows
  <2>1. CASE r \in wrote[t]
    BY <2>1, CommitRows
  <2>2. CASE r \notin wrote[t]
    <3>1. Quiet(r) /\ r \notin unsynced
      BY <2>2, <1>1, EndShape DEF Quiet
    <3> QED
      BY <2>2, <3>1, CommitRows DEF IndexMirrorsRows, InSync
  <2> QED
    BY <2>1, <2>2
<1> QED
  BY <1>1, <1>3, <1>4, <1>5, <1>6, CommitType, EndShape

LEMMA RollbackIInv ==
  ASSUME IInv, NEW t \in Tx, Rollback(t)
  PROVE  IInv'
<1> USE DEF IInv
<1>1. /\ End(t) /\ unsynced' = unsynced \cup wrote[t]
      /\ UNCHANGED <<accounts, specialties, status, content, owner, served, doc>>
  BY DEF Rollback
<1>2. TypeOK'
  BY <1>1, NoJobType DEF TypeOK, End
<1>3. RowShape'
  BY <1>1, EndShape DEF RowShape
<1>4. WriterOwnsDocument'
  <2> SUFFICES ASSUME NEW u \in Tx, NEW r \in wrote'[u]
               PROVE  /\ \A v \in Tx \ {u} : r \notin wrote'[v]
                      /\ doc'[r] = IF Removes(u)' THEN NoDoc ELSE Image(u)'
    BY DEF WriterOwnsDocument
  <2>1. u # t /\ r \in wrote[u] /\ job'[u] = job[u]
    BY <1>1, EndShape
  <2>2. \A v \in Tx \ {u} : r \notin wrote'[v]
    BY <2>1, <1>1, EndShape DEF WriterOwnsDocument
  <2>3. Removes(u)' = Removes(u) /\ Image(u)' = Image(u)
    BY <2>1 DEF Removes, Image
  <2> QED
    BY <1>1, <2>1, <2>2, <2>3 DEF WriterOwnsDocument
<1>5. DeletedStaysUnlisted'
  BY <1>1 DEF DeletedStaysUnlisted
<1>6. IndexMirrorsRows'
  <2> SUFFICES ASSUME NEW r \in Restaurants, Quiet(r)', r \notin unsynced'
               PROVE  InSync(r)'
    BY DEF IndexMirrorsRows
  <2>1. Quiet(r) /\ r \notin unsynced
    BY <1>1, EndShape DEF Quiet
  <2> QED
    BY <1>1, <2>1 DEF IndexMirrorsRows, InSync
<1> QED
  BY <1>1, <1>2, <1>3, <1>4, <1>5, <1>6, EndShape

LEMMA RestartIInv ==
  ASSUME IInv, Restart
  PROVE  IInv'
<1> USE DEF IInv
<1>1. TypeOK'
  BY NoJobType DEF Restart, dbVars, TypeOK
<1>2. SessionShape'
  BY DEF Restart, SessionShape, NoJob, Removes
<1>3. RowShape' /\ WriterOwnsDocument' /\ DeletedStaysUnlisted'
  BY DEF Restart, dbVars, RowShape, WriterOwnsDocument, DeletedStaysUnlisted, TypeOK
<1>4. IndexMirrorsRows'
  BY DEF Restart, dbVars, IndexMirrorsRows, InSync, TypeOK
<1> QED
  BY <1>1, <1>2, <1>3, <1>4
-----------------------------------------------------------------------------
LEMMA StatementIInv ==
  ASSUME IInv, NEW t \in Tx, Statement(t)
  PROVE  IInv'
<1>1. CASE \E r \in Restaurants : PersistInsert(t, r) \/ FlushUpdate(t, r)
  BY <1>1, WriteIInv
<1>2. CASE FlushCollections(t) \/ FlushDeleteRoot(t)
  BY <1>2, NoListenerIInv
<1>3. CASE \E r \in Restaurants : FlushDelete(t, r)
  BY <1>3, FlushDeleteIInv
<1>4. CASE Commit(t)
  BY <1>4, CommitIInv
<1>5. CASE StaleRow(t) \/ ConstraintViolation(t) \/ LockWaitEnds(t)
  BY <1>5, RollbackIInv DEF StaleRow, ConstraintViolation, LockWaitEnds
<1> QED
  BY <1>1, <1>2, <1>3, <1>4, <1>5 DEF Statement

LEMMA NextIInv == IInv /\ [Next]_vars => IInv'
<1> SUFFICES ASSUME IInv, [Next]_vars PROVE IInv'
  OBVIOUS
<1>1. ASSUME NEW t \in Tx, Request(t) PROVE IInv'
  BY <1>1, RequestIInv
<1>2. ASSUME NEW t \in Tx, Statement(t) PROVE IInv'
  BY <1>2, StatementIInv
<1>3. ASSUME NEW t \in Tx, Fail(t) PROVE IInv'
  BY <1>3, RollbackIInv DEF Fail
<1>4. CASE Restart
  BY <1>4, RestartIInv
<1>5. CASE UNCHANGED vars
  BY <1>5 DEF vars, IInv, TypeOK, SessionShape, RowShape, WriterOwnsDocument, Removes, Image,
              DeletedStaysUnlisted, IndexMirrorsRows, Quiet, InSync
<1> QED
  BY <1>1, <1>2, <1>3, <1>4, <1>5 DEF Next

LEMMA Inductive == Spec => []IInv
BY InitIInv, NextIInv, PTL DEF Spec

\* The variables keep their types.
THEOREM TypeCorrect == Spec => []TypeOK
<1>1. IInv => TypeOK
  BY DEF IInv
<1> QED
  BY <1>1, Inductive, PTL

\* A restaurant nobody is writing, and whose last writer neither rolled back nor
\* preceded a restart, is in the index exactly as it is in the database, for any
\* number of concurrent requests of FacadeImpl.
THEOREM IndexMirrors == Spec => []IndexMirrorsRows
<1>1. IInv => IndexMirrorsRows
  BY DEF IInv
<1> QED
  BY <1>1, Inductive, PTL

\* A restaurant whose deletion committed has no document ever after.
THEOREM DeletedUnlisted == Spec => []DeletedStaysUnlisted
<1>1. IInv => DeletedStaysUnlisted
  BY DEF IInv
<1> QED
  BY <1>1, Inductive, PTL

\* Listeners of two transactions never interleave on one document.
THEOREM WriterOwns == Spec => []WriterOwnsDocument
<1>1. IInv => WriterOwnsDocument
  BY DEF IInv
<1> QED
  BY <1>1, Inductive, PTL
-----------------------------------------------------------------------------
LEMMA CommitPublishesStep ==
  ASSUME IInv, NEW t \in Tx, Commit(t), NEW r \in wrote[t]
  PROVE  /\ InSync(r)'
         /\ served[r] = job[t].was /\ ~Removes(t) => doc'[r].served = served'[r]
<1>1. InSync(r)'
  BY CommitRows
<1>2. ASSUME served[r] = job[t].was, ~Removes(t)
      PROVE  doc'[r].served = served'[r]
  <2>1. r \in Restaurants /\ r \in job[t].rows
    BY DEF IInv, TypeOK, SessionShape
  <2>2. doc'[r] = Image(t)
    BY <1>2, CommitRows
  <2>3. served'[r] = (served[r] \ Removed(t)) \cup Added(t)
    BY <1>2, <2>1 DEF Commit
  <2>4. served'[r] = job[t].served
    BY <1>2, <2>3 DEF Added, Removed
  <2> QED
    BY <2>2, <2>4 DEF Image
<1> QED
  BY <1>1, <1>2

\* Every commit leaves the rows it wrote listed as they are stored, whatever earlier
\* rollbacks and restarts had left in the index.
THEOREM CommitsPublish == Spec => CommitPublishes
<1>1. IInv /\ [Next]_vars =>
        [\A t \in Tx : Commit(t) => \A r \in wrote[t] :
           /\ InSync(r)'
           /\ served[r] = job[t].was /\ ~Removes(t) => doc'[r].served = served'[r]]_vars
  BY CommitPublishesStep
<1> QED
  BY <1>1, Inductive, PTL DEF Spec, CommitPublishes

\* Only a commit changes the committed rows of accounts_restaurants.
LEMMA RequestRows ==
  ASSUME NEW t \in Tx, Request(t)
  PROVE  owner' = owner /\ status' = status /\ doc' = doc
<1>1. ASSUME NEW a \in Accounts, NEW c \in Contents, NEW P \in SUBSET Specialties,
             CreateRestaurant(t, a, c, P)
      PROVE  owner' = owner /\ status' = status /\ doc' = doc
  BY <1>1 DEF CreateRestaurant, Start
<1>2. ASSUME NEW a \in Accounts, NEW r \in Restaurants, NEW c \in Contents,
             NEW P \in SUBSET Specialties, NEW next \in {"update", "joins"},
             UpdateRestaurant(t, a, r, c, P, next)
      PROVE  owner' = owner /\ status' = status /\ doc' = doc
  BY <1>2 DEF UpdateRestaurant, Start
<1>3. ASSUME NEW a \in Accounts, NEW r \in Restaurants, DeleteRestaurant(t, a, r)
      PROVE  owner' = owner /\ status' = status /\ doc' = doc
  BY <1>3 DEF DeleteRestaurant, Start
<1>4. ASSUME NEW a \in Accounts, DeleteAccount(t, a)
      PROVE  owner' = owner /\ status' = status /\ doc' = doc
  BY <1>4 DEF DeleteAccount, Start
<1>5. ASSUME NEW s \in Specialties, DeleteFoodSpecialty(t, s)
      PROVE  owner' = owner /\ status' = status /\ doc' = doc
  BY <1>5 DEF DeleteFoodSpecialty, Start
<1> QED
  BY <1>1, <1>2, <1>3, <1>4, <1>5 DEF Request

LEMMA StatementRows ==
  ASSUME NEW t \in Tx, Statement(t), ~Commit(t)
  PROVE  owner' = owner
<1>1. ASSUME NEW r \in Restaurants, PersistInsert(t, r) \/ FlushUpdate(t, r) \/ FlushDelete(t, r)
      PROVE  owner' = owner
  BY <1>1 DEF PersistInsert, FlushUpdate, FlushDelete
<1>2. ASSUME FlushCollections(t) \/ FlushDeleteRoot(t) PROVE owner' = owner
  BY <1>2 DEF FlushCollections, FlushDeleteRoot
<1>3. ASSUME StaleRow(t) \/ ConstraintViolation(t) \/ LockWaitEnds(t) PROVE owner' = owner
  BY <1>3 DEF StaleRow, ConstraintViolation, LockWaitEnds, Rollback
<1> QED
  BY <1>1, <1>2, <1>3 DEF Statement

LEMMA OwnerKeptStep ==
  ASSUME IInv, Next, NEW r \in Restaurants, owner[r] # NoAccount, owner'[r] # owner[r]
  PROVE  /\ owner'[r] = NoAccount
         /\ status'[r] = "deleted" \/ owner[r] \notin accounts'
<1>1. PICK t \in Tx : Commit(t)
  <2>1. ASSUME NEW t \in Tx, Request(t) PROVE owner' = owner
    BY <2>1, RequestRows
  <2>2. ASSUME NEW t \in Tx, Statement(t), ~Commit(t) PROVE owner' = owner
    BY <2>2, StatementRows
  <2>3. ASSUME NEW t \in Tx, Fail(t) PROVE owner' = owner
    BY <2>3 DEF Fail, Rollback
  <2>4. ASSUME Restart PROVE owner' = owner
    BY <2>4 DEF Restart, dbVars
  <2> QED
    BY <2>1, <2>2, <2>3, <2>4 DEF Next
<1>2. owner'[r] = IF \/ Removes(t) /\ r \in job[t].rows
                     \/ job[t].op = "deleteAccount" /\ owner[r] = job[t].acct
                  THEN NoAccount
                  ELSE IF job[t].op = "create" /\ r \in wrote[t] THEN job[t].acct ELSE owner[r]
  BY <1>1 DEF Commit
<1>3. ~(job[t].op = "create" /\ r \in wrote[t])
  BY DEF IInv, RowShape
<1>4. CASE Removes(t) /\ r \in job[t].rows
  <2>1. r \in wrote[t]
    BY <1>1, <1>4 DEF Commit, IInv, SessionShape
  <2> QED
    BY <1>1, <1>2, <1>4, <2>1, CommitRows
<1>5. CASE job[t].op = "deleteAccount" /\ owner[r] = job[t].acct
  <2>1. accounts' = accounts \ {job[t].acct}
    BY <1>1, <1>5 DEF Commit
  <2> QED
    BY <1>2, <1>5, <2>1
<1> QED
  BY <1>2, <1>3, <1>4, <1>5

\* No request takes a stored restaurant out of an account that survives it.
THEOREM OwnersKept == Spec => OwnerKept
<1>1. IInv /\ [Next]_vars =>
        [\A r \in Restaurants : owner[r] # NoAccount /\ owner'[r] # owner[r] =>
           /\ owner'[r] = NoAccount
           /\ status'[r] = "deleted" \/ owner[r] \notin accounts']_vars
  BY OwnerKeptStep
<1> QED
  BY <1>1, Inductive, PTL DEF Spec, OwnerKept
-----------------------------------------------------------------------------
(* Refinement: every step of the catalog is a step of ListingLifecycle or  *)
(* leaves what it shows unchanged.                                         *)

LEMMA ListingInit == Init => Listing!Init
BY DEF Init, Listing!Init, StoredAs

LEMMA ListingUnchanged ==
  ASSUME UNCHANGED <<status, doc>>
  PROVE  UNCHANGED Listing!lvars
BY DEF Listing!lvars, StoredAs

\* A listener that writes a document lists a restaurant that is not gone.
LEMMA ListingWrite ==
  ASSUME IInv, NEW t \in Tx, NEW r \in Restaurants, PersistInsert(t, r) \/ FlushUpdate(t, r)
  PROVE  Listing!List(r)
<1>1. /\ doc' = [doc EXCEPT ![r] = Image(t)] /\ Image(t) # NoDoc
      /\ status[r] # "deleted"
  BY ImageType DEF IInv, PersistInsert, FlushUpdate, Index, RowFound, NewId, RowShape
<1>2. \A q \in Restaurants : StoredAs(q)' = StoredAs(q)
  <2>1. CASE PersistInsert(t, r)
    BY <2>1 DEF PersistInsert, NewId, StoredAs, IInv, TypeOK
  <2>2. CASE FlushUpdate(t, r)
    BY <2>2 DEF FlushUpdate, StoredAs
  <2> QED
    BY <2>1, <2>2
<1>3. StoredAs(r) # "gone"
  BY <1>1 DEF StoredAs
<1> QED
  BY <1>1, <1>2, <1>3 DEF Listing!List, IInv, TypeOK

LEMMA ListingDelete ==
  ASSUME IInv, NEW t \in Tx, NEW r \in Restaurants, FlushDelete(t, r)
  PROVE  Listing!Unlist(r)
<1>1. doc' = [doc EXCEPT ![r] = NoDoc] /\ status' = status /\ status[r] = "live"
  BY DEF FlushDelete, RemoveFromIndex, RowFound
<1>2. \A q \in Restaurants : StoredAs(q)' = StoredAs(q)
  BY <1>1 DEF StoredAs
<1> QED
  BY <1>1, <1>2 DEF Listing!Unlist, IInv, TypeOK, StoredAs

\* A commit withdraws the rows it deleted, stores the one it inserted, or shows nothing.
LEMMA ListingCommit ==
  ASSUME IInv, NEW t \in Tx, Commit(t)
  PROVE  \/ \E S \in SUBSET Restaurants : Listing!Withdraw(S)
         \/ \E r \in Restaurants : Listing!Store(r)
         \/ UNCHANGED Listing!lvars
<1>1. wrote[t] \subseteq Restaurants /\ doc' = doc
  BY CommitRows DEF IInv, TypeOK
<1>2. CASE Removes(t)
  <2>1. \A r \in Restaurants : StoredAs(r)' = IF r \in wrote[t] THEN "gone" ELSE StoredAs(r)
    BY <1>1, <1>2, CommitRows DEF StoredAs
  <2>2. \A r \in wrote[t] : StoredAs(r) = "live" /\ doc[r] = NoDoc
    BY <1>2, CommitRows DEF StoredAs, IInv, RowShape, Removes
  <2>3. Listing!Withdraw(wrote[t])
    BY <1>1, <2>1, <2>2 DEF Listing!Withdraw
  <2> QED
    BY <1>1, <2>3
<1>3. CASE ~Removes(t) /\ job[t].op = "create" /\ wrote[t] # {}
  <2>1. PICK r \in Restaurants : wrote[t] = {r}
    BY <1>1, <1>3 DEF IInv, SessionShape
  <2>2. doc[r] # NoDoc
    BY <1>1, <1>3, <2>1, CommitRows, ImageType DEF IInv
  <2>3. StoredAs(r) = "none" /\ StoredAs(r)' = "live"
    BY <1>3, <2>1, CommitRows DEF StoredAs, IInv, RowShape
  <2>4. \A q \in Restaurants \ {r} : StoredAs(q)' = StoredAs(q)
    BY <2>1, CommitRows DEF StoredAs
  <2>5. Listing!Store(r)
    BY <1>1, <2>2, <2>3, <2>4 DEF Listing!Store
  <2> QED
    BY <2>5
<1>4. CASE ~Removes(t) /\ (job[t].op # "create" \/ wrote[t] = {})
  <2>1. \A r \in Restaurants : StoredAs(r)' = StoredAs(r)
    BY <1>1, <1>4, CommitRows DEF StoredAs, IInv, RowShape
  <2> QED
    BY <1>1, <2>1 DEF Listing!lvars
<1> QED
  BY <1>2, <1>3, <1>4

LEMMA ListingRollback ==
  ASSUME NEW t \in Tx, Rollback(t)
  PROVE  UNCHANGED Listing!lvars
BY ListingUnchanged DEF Rollback

LEMMA ListingRestart ==
  ASSUME Restart
  PROVE  Listing!LoseListings
<1>1. status' = status /\ doc' = [r \in Restaurants |-> NoDoc]
  BY DEF Restart, dbVars
<1>2. \A r \in Restaurants : StoredAs(r)' = StoredAs(r)
  BY <1>1 DEF StoredAs
<1> QED
  BY <1>1, <1>2 DEF Listing!LoseListings

LEMMA ListingStatement ==
  ASSUME IInv, NEW t \in Tx, Statement(t)
  PROVE  Listing!Next \/ UNCHANGED Listing!lvars
<1>1. ASSUME NEW r \in Restaurants, PersistInsert(t, r) \/ FlushUpdate(t, r)
      PROVE  Listing!Next
  BY <1>1, ListingWrite DEF Listing!Next
<1>2. ASSUME NEW r \in Restaurants, FlushDelete(t, r)
      PROVE  Listing!Next
  BY <1>2, ListingDelete DEF Listing!Next
<1>3. CASE FlushCollections(t) \/ FlushDeleteRoot(t)
  BY <1>3, ListingUnchanged DEF FlushCollections, FlushDeleteRoot
<1>4. CASE Commit(t)
  BY <1>4, ListingCommit DEF Listing!Next
<1>5. CASE StaleRow(t) \/ ConstraintViolation(t) \/ LockWaitEnds(t)
  BY <1>5, ListingRollback DEF StaleRow, ConstraintViolation, LockWaitEnds
<1> QED
  BY <1>1, <1>2, <1>3, <1>4, <1>5 DEF Statement

LEMMA ListingNext == IInv /\ [Next]_vars => [Listing!Next]_(Listing!lvars)
<1> SUFFICES ASSUME IInv, [Next]_vars PROVE Listing!Next \/ UNCHANGED Listing!lvars
  OBVIOUS
<1>1. ASSUME NEW t \in Tx, Request(t) PROVE UNCHANGED Listing!lvars
  BY <1>1, RequestRows, ListingUnchanged
<1>2. ASSUME NEW t \in Tx, Statement(t) PROVE Listing!Next \/ UNCHANGED Listing!lvars
  BY <1>2, ListingStatement
<1>3. ASSUME NEW t \in Tx, Fail(t) PROVE UNCHANGED Listing!lvars
  BY <1>3, ListingRollback DEF Fail
<1>4. CASE Restart
  BY <1>4, ListingRestart DEF Listing!Next
<1>5. CASE UNCHANGED vars
  BY <1>5, ListingUnchanged DEF vars
<1> QED
  BY <1>1, <1>2, <1>3, <1>4, <1>5 DEF Next

\* Transactions, listeners, rollbacks and restarts together implement the simple
\* life ListingLifecycle gives each restaurant.
THEOREM Refinement == Spec => ListingImplemented
BY Inductive, ListingInit, ListingNext, PTL DEF Spec, ListingImplemented, Listing!Spec
=============================================================================
