-------------------------- MODULE RestaurantCatalog --------------------------
(***************************************************************************)
(* The restaurants of midipascher, kept twice: as rows of the database and *)
(* as documents of the search index.  FacadeImpl changes the rows inside a *)
(* transaction; Hibernate's post-insert, post-update and post-delete       *)
(* listeners write the index while that transaction is still open, so the  *)
(* two stores can be seen, and left, in different states.                  *)
(*                                                                         *)
(* One element of Tx is one servlet thread with its transaction.  A        *)
(* request is a sequence of steps: the method body of FacadeImpl, which    *)
(* reads the committed rows (one action), then the statements Hibernate    *)
(* sends when it persists and when it flushes at commit, in the order of   *)
(* its action queue: inserts, updates, join rows, deletes.  A row that an  *)
(* open transaction has inserted, updated or deleted stays locked until    *)
(* that transaction ends, and so do the join rows it touched and the       *)
(* parents its new join rows refer to.  There is no @Version column.       *)
(***************************************************************************)
EXTENDS Naturals, FiniteSets

CONSTANTS
  Tx,           \* servlet threads, each with at most one open transaction
  Accounts,     \* ids of rows of table account
  Restaurants,  \* ids that the identity column of table restaurant can hand out
  Specialties,  \* ids of rows of table food_specialty
  Contents,     \* what a restaurant row holds besides its join rows
  NoAccount, NoContent, NoDoc

ASSUME NoValuesAssumption ==
  /\ NoAccount \notin Accounts
  /\ NoContent \notin Contents
  /\ NoDoc \notin [content : Contents \cup {NoContent}, served : SUBSET Specialties]

VARIABLES
  accounts,     \* committed rows of table account
  specialties,  \* committed rows of table food_specialty
  status,       \* life of a restaurant id: free, spent by an insert, live, deleted
  content,      \* committed columns of a live restaurant
  owner,        \* committed accounts_restaurants row of a restaurant
  served,       \* committed restaurant_food_specialty rows of a restaurant
  doc,          \* documents of the search index
  pc,           \* next statement of each transaction
  job,          \* what the method body read and decided to write
  wrote,        \* restaurant rows a transaction has written and still locks
  unsynced      \* history: rows whose document an ended transaction, or a
                \* restart, may have left different from the committed row

dbVars   == <<accounts, specialties, status, content, owner, served>>
vars     == <<accounts, specialties, status, content, owner, served, doc, pc, job, wrote, unsynced>>
-----------------------------------------------------------------------------
Ops == {"create", "update", "delete", "deleteAccount", "deleteSpecialty"}

Docs == [content : Contents \cup {NoContent}, served : SUBSET Specialties]

Jobs == [op      : Ops \cup {"none"},
         acct    : Accounts \cup {NoAccount},
         rows    : SUBSET Restaurants,    \* restaurants it works on
         content : Contents \cup {NoContent},
         served  : SUBSET Specialties,    \* specialties the entity ends with
         was     : SUBSET Specialties]    \* specialties it was loaded with

NoJob == [op |-> "none", acct |-> NoAccount, rows |-> {}, content |-> NoContent,
          served |-> {}, was |-> {}]

TypeOK ==
  /\ accounts \subseteq Accounts
  /\ specialties \subseteq Specialties
  /\ status \in [Restaurants -> {"free", "spent", "live", "deleted"}]
  /\ content \in [Restaurants -> Contents \cup {NoContent}]
  /\ owner \in [Restaurants -> Accounts \cup {NoAccount}]
  /\ served \in [Restaurants -> SUBSET Specialties]
  /\ doc \in [Restaurants -> Docs \cup {NoDoc}]
  /\ pc \in [Tx -> {"idle", "insert", "update", "joins", "deletes", "root", "commit"}]
  /\ job \in [Tx -> Jobs]
  /\ wrote \in [Tx -> SUBSET Restaurants]
  /\ unsynced \subseteq Restaurants

Init ==
  /\ accounts = Accounts
  /\ specialties = Specialties
  /\ status = [r \in Restaurants |-> "free"]
  /\ content = [r \in Restaurants |-> NoContent]
  /\ owner = [r \in Restaurants |-> NoAccount]
  /\ served = [r \in Restaurants |-> {}]
  /\ doc = [r \in Restaurants |-> NoDoc]
  /\ pc = [t \in Tx |-> "idle"]
  /\ job = [t \in Tx |-> NoJob]
  /\ wrote = [t \in Tx |-> {}]
  /\ unsynced = {}
-----------------------------------------------------------------------------
(* What Hibernate derives from the session.                                *)

\* The document RestaurantToJsonByteArrayConverter makes of the session's entity.
Image(t) == [content |-> job[t].content, served |-> job[t].served]

\* restaurant_food_specialty rows the flush of a collection inserts and deletes:
\* the difference between the entity's set and the set it was loaded with.
Added(t)   == job[t].served \ job[t].was
Removed(t) == job[t].was \ job[t].served

Removes(t) == job[t].op \in {"delete", "deleteAccount"}

\* t has sent its join-row statements and has not ended.
JoinsSent(t) == pc[t] \in {"deletes", "root", "commit"} /\ job[t].op # "deleteSpecialty"
-----------------------------------------------------------------------------
(* Locks of the database (external).  A statement of t waits while another *)
(* open transaction u holds a conflicting lock.                            *)

RowBusy(t, r) == \E u \in Tx \ {t} : r \in wrote[u]

RowShared(t, r) == \E u \in Tx \ {t} : JoinsSent(u) /\ r \in job[u].rows /\ Added(u) # {}

\* accounts_restaurants: deleting all links of an account conflicts with every
\* other change to links of that account, deleting one link with deleting it.
LinksClash(t, u) ==
  /\ job[t].acct = job[u].acct
  /\ job[t].op # "update" /\ job[u].op # "update"
  /\ \/ "deleteAccount" \in {job[t].op, job[u].op}
     \/ job[t].rows \cap job[u].rows # {}

\* restaurant_food_specialty: clearing a restaurant conflicts with every change
\* to its join rows, two updates conflict on the pairs that both touch.
ServedClash(t, u) ==
  /\ job[t].rows \cap job[u].rows # {}
  /\ \/ Removes(t) /\ Removes(u)
     \/ Removes(t) /\ Added(u) \cup Removed(u) # {}
     \/ Removes(u) /\ Added(t) \cup Removed(t) # {}
     \/ (Added(t) \cup Removed(t)) \cap (Added(u) \cup Removed(u)) # {}

\* A new join row takes a shared lock on its parents.
ParentBusy(t) ==
  \/ \E u \in Tx \ {t} :
       /\ job[u].op = "deleteSpecialty" /\ pc[u] = "commit"
       /\ job[u].served \cap Added(t) # {}
  \/ ~Removes(t) /\ Added(t) # {} /\ \E r \in job[t].rows : RowBusy(t, r)

JoinsBusy(t) ==
  \/ \E u \in Tx \ {t} : JoinsSent(u) /\ (LinksClash(t, u) \/ ServedClash(t, u))
  \/ ParentBusy(t)

\* Deleting a food specialty waits for the transactions that hold a join row of it.
SpecialtyBusy(t) ==
  \E u \in Tx \ {t} :
    \/ /\ JoinsSent(u)
       /\ \/ job[t].served \cap (Added(u) \cup Removed(u)) # {}
          \/ Removes(u) /\ \E r \in job[u].rows : job[t].served \cap served[r] # {}
    \/ job[u].op = "deleteSpecialty" /\ pc[u] = "commit" /\ job[u].served = job[t].served
-----------------------------------------------------------------------------
(* Method bodies: one read of the committed state, checks, and the job the *)
(* session is left with.  A request whose checks fail changes nothing and  *)
(* is not an action.                                                       *)

Start(t, j, next) ==
  /\ pc[t] = "idle"
  /\ job' = [job EXCEPT ![t] = j]
  /\ pc' = [pc EXCEPT ![t] = next]
  /\ UNCHANGED <<accounts, specialties, status, content, owner, served, doc, wrote, unsynced>>

\* Bound of the model: there is a finite number of ids, and a request that would
\* find none left is not made.
IdsLeft ==
  Cardinality({u \in Tx : pc[u] = "insert"}) < Cardinality({r \in Restaurants : status[r] = "free"})

\* The payload's specialties are not read: only their ids reach the join table.
CreateRestaurant(t, a, c, P) ==
  /\ IdsLeft
  /\ a \in accounts
  /\ P # {}
  /\ Start(t, [op |-> "create", acct |-> a, rows |-> {}, content |-> c,
               served |-> P, was |-> {}], "insert")

\* The restaurant is looked up in the account's collection, the specialties by id.
\* The row is updated when a column differs from those loaded: always when c does,
\* and possibly when it does not, because the payload's address comes without the
\* coordinates that the geocoder adds again before the UPDATE.
UpdateRestaurant(t, a, r, c, P, next) ==
  /\ a \in accounts
  /\ owner[r] = a
  /\ P # {} /\ P \subseteq specialties
  /\ c # content[r] => next = "update"
  /\ Start(t, [op |-> "update", acct |-> a, rows |-> {r}, content |-> c, served |-> P,
               was |-> served[r]], next)

\* removeRestaurant leaves the collection alone when the restaurant is not in it.
DeleteRestaurant(t, a, r) ==
  /\ a \in accounts
  /\ status[r] = "live"
  /\ owner[r] = a
  /\ Start(t, [NoJob EXCEPT !.op = "delete", !.acct = a, !.rows = {r}], "joins")

\* The removal cascades to the restaurants the collection holds when it is loaded.
DeleteAccount(t, a) ==
  /\ a \in accounts
  /\ Start(t, [NoJob EXCEPT !.op = "deleteAccount", !.acct = a,
                            !.rows = {r \in Restaurants : owner[r] = a}], "joins")

DeleteFoodSpecialty(t, s) ==
  /\ s \in specialties
  /\ Start(t, [NoJob EXCEPT !.op = "deleteSpecialty", !.served = {s}], "root")
-----------------------------------------------------------------------------
(* Statements.  Each entity statement takes the row's lock and runs its    *)
(* listener before the next statement is sent.                             *)

\* Mutants: the call keeps a document that is there already; it sends the specialties
\* that were loaded; it removes nothing; it clears the document instead.
IndexOnce(t, r)   == IF doc[r] = NoDoc THEN doc' = [doc EXCEPT ![r] = Image(t)] ELSE UNCHANGED doc
IndexLoaded(t, r) == doc' = [doc EXCEPT ![r] = [Image(t) EXCEPT !.served = job[t].was]]
KeepInIndex(r)    == UNCHANGED doc
ClearInIndex(r)   == doc' = [doc EXCEPT ![r] = NoContent]

\* The two calls SearchEngineImpl makes to the index; both wait for its answer.
Index(t, r)        == doc' = [doc EXCEPT ![r] = Image(t)]
RemoveFromIndex(r) == doc' = [doc EXCEPT ![r] = NoDoc]

\* The identity column hands out an id once, also when the insert is rolled back.
NewId(r) == status[r] = "free"

\* An UPDATE or DELETE by id finds the row: a committed one, or one t inserted.
RowFound(t, r) == r \in wrote[t] \/ status[r] = "live"

\* persist: the identity column forces the INSERT now; onPostInsert indexes it.
PersistInsert(t, r) ==
  /\ pc[t] = "insert"
  /\ NewId(r)
  /\ status' = [status EXCEPT ![r] = "spent"]
  /\ job' = [job EXCEPT ![t].rows = {r}]
  /\ wrote' = [wrote EXCEPT ![t] = {r}]
  /\ Index(t, r)
  /\ pc' = [pc EXCEPT ![t] = "update"]
  /\ UNCHANGED <<accounts, specialties, content, owner, served, unsynced>>

\* Mutant: the listener is registered for pre-update, before the row is looked for.
FlushUpdateEarly(t, r) ==
  /\ pc[t] = "update"
  /\ r \in job[t].rows
  /\ ~RowBusy(t, r) /\ ~RowShared(t, r)
  /\ wrote' = [wrote EXCEPT ![t] = {r}]
  /\ Index(t, r)
  /\ pc' = [pc EXCEPT ![t] = "joins"]
  /\ UNCHANGED <<accounts, specialties, status, content, owner, served, job, unsynced>>

\* UPDATE of a dirty entity; an inserted one is dirty because onPreInsert set
\* its creation date after the inserted columns were taken.  onPostUpdate indexes it.
FlushUpdate(t, r) ==
  /\ pc[t] = "update"
  /\ r \in job[t].rows
  /\ ~RowBusy(t, r) /\ ~RowShared(t, r)
  /\ RowFound(t, r)
  /\ wrote' = [wrote EXCEPT ![t] = {r}]
  /\ Index(t, r)
  /\ pc' = [pc EXCEPT ![t] = "joins"]
  /\ UNCHANGED <<accounts, specialties, status, content, owner, served, job, unsynced>>

\* The parents of every new join row exist, and no new join row exists already.
ParentsExist(t) ==
  /\ job[t].op = "create" => job[t].acct \in accounts
  /\ Added(t) \subseteq specialties
  /\ job[t].op = "update" /\ Added(t) # {} => \A r \in job[t].rows : status[r] = "live"

NoDuplicate(t) == \A r \in job[t].rows : Added(t) \cap served[r] = {}

\* Mutants: the restaurants collection of Account without orphanRemoval; a cascade
\* that expects at least one restaurant.
CascadeNotEmpty(t) == IF ~Removes(t) THEN "commit" ELSE "deletes"

NoOrphanRemoval(t) ==
  IF ~Removes(t) \/ job[t].op = "delete" THEN "commit"
  ELSE IF job[t].rows # {} THEN "deletes" ELSE "root"

\* What is deleted after the join rows: the restaurants, then the account.
AfterJoins(t) ==
  IF ~Removes(t) THEN "commit" ELSE IF job[t].rows # {} THEN "deletes" ELSE "root"

FlushCollections(t) ==
  /\ pc[t] = "joins"
  /\ ~JoinsBusy(t)
  /\ ParentsExist(t) /\ NoDuplicate(t)
  /\ pc' = [pc EXCEPT ![t] = AfterJoins(t)]
  /\ UNCHANGED <<accounts, specialties, status, content, owner, served, doc, job, wrote, unsynced>>

\* DELETE of one restaurant; onPostDelete removes its document.
FlushDelete(t, r) ==
  /\ pc[t] = "deletes"
  /\ r \in job[t].rows \ wrote[t]
  /\ ~RowBusy(t, r) /\ ~RowShared(t, r)
  /\ RowFound(t, r)
  /\ wrote' = [wrote EXCEPT ![t] = @ \cup {r}]
  /\ RemoveFromIndex(r)
  /\ pc' = [pc EXCEPT ![t] = IF job[t].rows # wrote[t] \cup {r} THEN "deletes"
                             ELSE IF job[t].op = "deleteAccount" THEN "root" ELSE "commit"]
  /\ UNCHANGED <<accounts, specialties, status, content, owner, served, job, unsynced>>

\* DELETE of the account row, or of the food specialty row.
FlushDeleteRoot(t) ==
  /\ pc[t] = "root"
  /\ \/ job[t].op = "deleteAccount" /\ job[t].acct \in accounts
     \/ /\ job[t].op = "deleteSpecialty"
        /\ ~SpecialtyBusy(t)
        /\ job[t].served \subseteq specialties
        /\ \A r \in Restaurants : job[t].served \cap served[r] = {}
  /\ pc' = [pc EXCEPT ![t] = "commit"]
  /\ UNCHANGED <<accounts, specialties, status, content, owner, served, doc, job, wrote, unsynced>>
-----------------------------------------------------------------------------
(* Ends of a transaction.                                                  *)

End(t) ==
  /\ pc' = [pc EXCEPT ![t] = "idle"]
  /\ job' = [job EXCEPT ![t] = NoJob]
  /\ wrote' = [wrote EXCEPT ![t] = {}]

Commit(t) ==
  /\ pc[t] = "commit"
  /\ LET j == job[t]
         Freed(r) == \/ Removes(t) /\ r \in j.rows
                     \/ j.op = "deleteAccount" /\ owner[r] = j.acct
     IN  /\ accounts' = IF j.op = "deleteAccount" THEN accounts \ {j.acct} ELSE accounts
         /\ specialties' = IF j.op = "deleteSpecialty" THEN specialties \ j.served ELSE specialties
         /\ status' = [r \in Restaurants |-> IF r \notin wrote[t] THEN status[r]
                                             ELSE IF Removes(t) THEN "deleted" ELSE "live"]
         /\ content' = [r \in Restaurants |-> IF r \notin wrote[t] THEN content[r]
                                              ELSE IF Removes(t) THEN NoContent ELSE j.content]
         /\ owner' = [r \in Restaurants |-> IF Freed(r) THEN NoAccount
                                            ELSE IF j.op = "create" /\ r \in wrote[t] THEN j.acct
                                            ELSE owner[r]]
         /\ served' = [r \in Restaurants |-> IF r \notin j.rows THEN served[r]
                                             ELSE IF Removes(t) THEN {}
                                             ELSE (served[r] \ Removed(t)) \cup Added(t)]
  /\ unsynced' = unsynced \ wrote[t]
  /\ End(t)
  /\ UNCHANGED doc

\* The index has no part in the rollback: what the listeners wrote there stays.
Rollback(t) ==
  /\ unsynced' = unsynced \cup wrote[t]
  /\ End(t)
  /\ UNCHANGED <<accounts, specialties, status, content, owner, served, doc>>

\* An UPDATE or DELETE that finds no row: StaleStateException, before the listener.
StaleRow(t) ==
  /\ \/ /\ pc[t] \in {"update", "deletes"}
        /\ \E r \in job[t].rows : ~RowBusy(t, r) /\ ~RowFound(t, r)
     \/ /\ pc[t] = "root" /\ job[t].op = "deleteAccount"
        /\ job[t].acct \notin accounts
     \/ /\ pc[t] = "root" /\ job[t].op = "deleteSpecialty"
        /\ ~SpecialtyBusy(t) /\ job[t].served \cap specialties = {}
  /\ Rollback(t)

\* A foreign key or primary key refuses a join row, or the delete of a specialty in use.
ConstraintViolation(t) ==
  /\ \/ pc[t] = "joins" /\ ~JoinsBusy(t) /\ ~(ParentsExist(t) /\ NoDuplicate(t))
     \/ /\ pc[t] = "root" /\ job[t].op = "deleteSpecialty"
        /\ ~SpecialtyBusy(t)
        /\ \E r \in Restaurants : job[t].served \cap served[r] # {}
  /\ Rollback(t)

\* The statement waits for a lock: the database ends the wait, as the victim of a
\* deadlock or after its lock timeout.
LockWaitEnds(t) ==
  /\ \/ pc[t] = "update" /\ \E r \in job[t].rows : RowBusy(t, r) \/ RowShared(t, r)
     \/ pc[t] = "joins" /\ JoinsBusy(t)
     \/ pc[t] = "deletes" /\ \E r \in job[t].rows \ wrote[t] : RowBusy(t, r) \/ RowShared(t, r)
     \/ pc[t] = "root" /\ job[t].op = "deleteSpecialty" /\ SpecialtyBusy(t)
  /\ Rollback(t)

\* Anything else that throws: a refused column value, a lost connection, and the
\* index itself.  A listener's index call that fails after the index applied it is
\* the listener's action followed by this one.
Fail(t) ==
  /\ pc[t] # "idle"
  /\ Rollback(t)

\* The process stops and starts again: the database rolls back what was open, the
\* index is dropped and created empty, and no row is indexed again.
Restart ==
  /\ pc' = [t \in Tx |-> "idle"]
  /\ job' = [t \in Tx |-> NoJob]
  /\ wrote' = [t \in Tx |-> {}]
  /\ doc' = [r \in Restaurants |-> NoDoc]
  /\ unsynced' = {r \in Restaurants : status[r] = "live"}
  /\ UNCHANGED dbVars
-----------------------------------------------------------------------------
Request(t) ==
  \/ \E a \in Accounts, c \in Contents, P \in SUBSET Specialties : CreateRestaurant(t, a, c, P)
  \/ \E a \in Accounts, r \in Restaurants, c \in Contents, P \in SUBSET Specialties :
       \E next \in {"update", "joins"} : UpdateRestaurant(t, a, r, c, P, next)
  \/ \E a \in Accounts, r \in Restaurants : DeleteRestaurant(t, a, r)
  \/ \E a \in Accounts : DeleteAccount(t, a)
  \/ \E s \in Specialties : DeleteFoodSpecialty(t, s)

Statement(t) ==
  \/ \E r \in Restaurants : PersistInsert(t, r)
  \/ \E r \in Restaurants : FlushUpdate(t, r)
  \/ FlushCollections(t)
  \/ \E r \in Restaurants : FlushDelete(t, r)
  \/ FlushDeleteRoot(t)
  \/ Commit(t)
  \/ StaleRow(t)
  \/ ConstraintViolation(t)
  \/ LockWaitEnds(t)

Next ==
  \/ \E t \in Tx : Request(t) \/ Statement(t) \/ Fail(t)
  \/ Restart

Spec == Init /\ [][Next]_vars

\* A thread that can send its next statement does, and a lock wait ends.
FairSpec == Spec /\ \A t \in Tx : WF_vars(Statement(t))
-----------------------------------------------------------------------------
(* What the two stores owe each other.                                     *)

\* No open transaction has written r.
Quiet(r) == \A t \in Tx : r \notin wrote[t]

\* The search finds r exactly when it is stored, with the stored columns.
InSync(r) ==
  /\ status[r] = "live" <=> doc[r] # NoDoc
  /\ doc[r] # NoDoc => doc[r].content = content[r]

\* However requests interleave, and however listeners write the index before their
\* transaction commits, a restaurant nobody is writing is in the index exactly when
\* it is in the database, with the same columns, unless the last transaction that
\* wrote it rolled back or the index was recreated since it was last written.
IndexMirrorsRows == \A r \in Restaurants : Quiet(r) /\ r \notin unsynced => InSync(r)

\* A restaurant whose deletion committed is never found again: not by an update that
\* had read it before, not by a creation, not by a rollback.
DeletedStaysUnlisted == \A r \in Restaurants : status[r] = "deleted" => doc[r] = NoDoc

\* While a transaction has a row written, the document is the one its own listener
\* wrote: no other transaction's listener writes it in between, so the order of the
\* index writes is the order of the commits.
WriterOwnsDocument ==
  \A t \in Tx : \A r \in wrote[t] :
    /\ \A u \in Tx \ {t} : r \notin wrote[u]
    /\ doc[r] = IF Removes(t) THEN NoDoc ELSE Image(t)

\* A commit leaves every restaurant it wrote listed as stored, whatever earlier
\* rollbacks and restarts had left in the index; the specialties too, when no one
\* changed them since the transaction read them.
CommitPublishes ==
  [][\A t \in Tx : Commit(t) => \A r \in wrote[t] :
       /\ InSync(r)'
       /\ served[r] = job[t].was /\ ~Removes(t) => doc'[r].served = served'[r]]_vars

\* A stored restaurant loses its owner only together with the owner's account or
\* with its own row: no interleaving takes it out of a surviving account.
OwnerKept ==
  [][\A r \in Restaurants : owner[r] # NoAccount /\ owner'[r] # owner[r] =>
       /\ owner'[r] = NoAccount
       /\ status'[r] = "deleted" \/ owner[r] \notin accounts']_vars

\* An account's deletion leaves none of the restaurants its row owned behind.
NoOrphan == \A r \in Restaurants : status[r] = "live" => owner[r] # NoAccount

\* Every request is answered: it commits or it is rolled back, whoever waits on whom.
RequestsEnd == \A t \in Tx : pc[t] # "idle" ~> pc[t] = "idle"
-----------------------------------------------------------------------------
(* The catalog implements ListingLifecycle: an uncommitted row is not      *)
(* stored, a document is a listing.                                        *)

StoredAs(r) == IF status[r] = "live" THEN "live"
               ELSE IF status[r] = "deleted" THEN "gone" ELSE "none"

Listing == INSTANCE ListingLifecycle WITH
  stored <- [r \in Restaurants |-> StoredAs(r)],
  listed <- [r \in Restaurants |-> doc[r] # NoDoc]

\* Seen from outside, every restaurant goes through the life ListingLifecycle gives
\* it, whatever transactions, rollbacks and restarts do: listed by the time it is
\* stored, unlisted by the time its deletion commits, and never again after that.
ListingImplemented == Listing!Spec
=============================================================================
