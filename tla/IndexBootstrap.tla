--------------------------- MODULE IndexBootstrap ---------------------------
(***************************************************************************)
(* How midipascher prepares its search indices when it starts, and what    *)
(* the listeners then write.  ElasticSearchClientFactoryBean creates the   *)
(* client and applies the update strategy; DropCreateIndicesCommand scans  *)
(* the configuration folder and, index by index, drops it if it exists,    *)
(* creates it and puts its mappings.  Every call blocks in actionGet; an   *)
(* exception or an answer that is not acknowledged() fails the start.      *)
(*                                                                         *)
(* The cluster is external and outlives the server.  Its master carries    *)
(* out the admin requests in the order they came.  A request whose caller  *)
(* gave up is still carried out, unless the master loses it.               *)
(***************************************************************************)
EXTENDS Naturals, Sequences

CONSTANTS
  Indices,       \* index folders under /elasticsearch
  Types,         \* document types
  MappingFiles,  \* pairs <<index, type>>: the mapping files of the folders
  Home,          \* SearchEngine.INDEX_NAME
  NoIndex, NoType,
  Restaurants,   \* ids of the restaurants that are indexed
  MaxBacklog     \* bound: requests the master may still hold when a server starts

ASSUME BootstrapAssumption ==
  /\ Home \in Indices /\ NoIndex \notin Indices /\ NoType \notin Types
  /\ MappingFiles \subseteq Indices \X Types
  /\ MaxBacklog \in Nat

VARIABLES
  there,    \* indices of the cluster
  mapped,   \* their mappings that were put
  docs,     \* restaurants with a document in Home
  tasks,    \* admin requests the master holds, in order
  phase,    \* what the server does; see TypeOK
  todo,     \* index configurations that execute has not finished
  at,       \* the configuration it works on
  left,     \* mapping files of it not yet put
  written   \* history: what the listeners of this server indexed and did not remove

cluster == <<there, mapped, docs>>
loop    == <<todo, at, left>>
server  == <<phase, todo, at, left>>
bvars   == <<there, mapped, docs, tasks, phase, todo, at, left, written>>

Tasks == [op : {"delete", "create"}, index : Indices, type : {NoType}]
           \cup [op : {"put"}, index : Indices, type : Types]

FilesOf(i) == {m \in Types : <<i, m>> \in MappingFiles}

BootTypeOK ==
  /\ there \subseteq Indices
  /\ mapped \subseteq there \X Types
  /\ docs \subseteq Restaurants /\ written \subseteq Restaurants
  /\ tasks \in Seq(Tasks)
  /\ phase \in {"down", "next", "delete", "create", "put", "wait", "serving"}
  /\ todo \subseteq Indices
  /\ at \in Indices \cup {NoIndex}
  /\ phase \in {"delete", "create", "put", "wait"} => at \in todo
  /\ left \subseteq Types

\* The cluster may hold what an earlier version left.
BootInit ==
  /\ there \in SUBSET Indices /\ mapped = {}
  /\ docs \in SUBSET (IF Home \in there THEN Restaurants ELSE {})
  /\ tasks = <<>>
  /\ phase = "down" /\ todo = {} /\ at = NoIndex /\ left = {}
  /\ written = {}
-----------------------------------------------------------------------------
\* How the bean may be configured.
Configs == [typology : {"local", "remote", "unset"}, nodes : BOOLEAN,
            strategy : {"dropcreate", "merge", "unset"}]

\* createInstance needs a typology and, for a remote cluster, its nodes.
ClientCreated(c) == c.typology # "unset" /\ (c.typology = "remote" => c.nodes)

\* The default strategy is dropcreate; MergeIndicesCommand is not supported, and the
\* bean has no setter for it.
Applicable(c) == c.strategy # "merge"

Start(c) ==
  /\ phase = "down" /\ Len(tasks) <= MaxBacklog
  /\ ClientCreated(c) /\ Applicable(c)
  /\ phase' = "next" /\ todo' = Indices /\ at' = NoIndex /\ left' = {}
  /\ written' = {}
  /\ UNCHANGED <<there, mapped, docs, tasks>>

\* The start fails, or the server stops.
Down == phase' = "down" /\ todo' = {} /\ at' = NoIndex /\ left' = {}

\* Mutant: an index that exists is kept, only its mappings are put.
KeepIndex(i) ==
  /\ phase = "next" /\ i \in todo
  /\ at' = i /\ left' = FilesOf(i)
  /\ phase' = IF i \in there THEN "put" ELSE "create"
  /\ UNCHANGED <<there, mapped, docs, tasks, todo, written>>

\* The folders are listed in no particular order.
CheckIndex(i) ==
  /\ phase = "next" /\ i \in todo
  /\ at' = i /\ left' = FilesOf(i)
  /\ phase' = IF i \in there THEN "delete" ELSE "create"
  /\ UNCHANGED <<there, mapped, docs, tasks, todo, written>>

Send(op, m) ==
  /\ tasks' = Append(tasks, [op |-> op, index |-> at, type |-> m])
  /\ phase' = "wait"
  /\ UNCHANGED <<there, mapped, docs, todo, at, left, written>>

DropIndex   == phase = "delete" /\ Send("delete", NoType)
CreateIndex == phase = "create" /\ Send("create", NoType)
PutMapping(m) == phase = "put" /\ m \in left /\ Send("put", m)

\* Deleting and mapping need the index, creating its absence.
Possible(k) == (k.op = "create") # (k.index \in there)

Applied(k) ==
  /\ there' = CASE k.op = "create" -> there \cup {k.index}
                [] k.op = "delete" -> there \ {k.index}
                [] OTHER           -> there
  /\ mapped' = CASE k.op = "put"    -> mapped \cup {<<k.index, k.type>>}
                 [] k.op = "delete" -> mapped \ ({k.index} \X Types)
                 [] OTHER           -> mapped
  /\ docs' = IF k.op = "delete" /\ k.index = Home THEN {} ELSE docs

\* putMappings goes on with the next file, execute with the next index; once all are
\* done the context is up.
Proceed(rest) ==
  /\ at' = at /\ left' = rest
  /\ todo' = IF rest = {} THEN todo \ {at} ELSE todo
  /\ phase' = IF rest # {} THEN "put" ELSE IF todo = {at} THEN "serving" ELSE "next"

\* Mutant: an index is done once it is created.
DoneOnceCreated(k) ==
  \/ k.op = "delete" /\ phase' = "create" /\ UNCHANGED loop
  \/ k.op = "create" /\ phase' = "put" /\ todo' = todo \ {at} /\ UNCHANGED <<at, left>>
  \/ k.op = "put"    /\ Proceed(left \ {k.type})

Acknowledged(k) ==
  \/ k.op = "delete" /\ phase' = "create" /\ UNCHANGED loop
  \/ k.op = "create" /\ Proceed(left)
  \/ k.op = "put"    /\ Proceed(left \ {k.type})

\* The server waits for the last request the master holds.
MasterRuns ==
  /\ tasks # <<>>
  /\ tasks' = Tail(tasks)
  /\ IF Possible(Head(tasks)) THEN Applied(Head(tasks)) ELSE UNCHANGED cluster
  /\ \/ phase = "wait" /\ Len(tasks) = 1
        /\ IF Possible(Head(tasks)) THEN Acknowledged(Head(tasks)) ELSE Down
     \/ ~(phase = "wait" /\ Len(tasks) = 1) /\ UNCHANGED server
  /\ UNCHANGED written

\* Mutant: acknowledged() is not looked at.
IgnoreTimeout ==
  /\ phase = "wait"
  /\ Acknowledged(tasks[Len(tasks)])
  /\ UNCHANGED <<there, mapped, docs, tasks, written>>

\* The answer is not acknowledged() in time: the command throws, the request stays.
TimedOut ==
  /\ phase = "wait"
  /\ Down
  /\ UNCHANGED <<there, mapped, docs, tasks, written>>

\* A file that cannot be read, a call that does not reach the cluster, or destroy().
Stop ==
  /\ phase \notin {"down", "wait"}
  /\ Down
  /\ UNCHANGED <<there, mapped, docs, tasks, written>>

\* The master fails with what it holds.
MasterLost ==
  /\ tasks # <<>>
  /\ tasks' = <<>>
  /\ IF phase = "wait" THEN Down ELSE UNCHANGED server
  /\ UNCHANGED <<there, mapped, docs, written>>

\* The listeners of a serving server.  The cluster creates an index that is not there.
IndexDocument(r) ==
  /\ phase = "serving"
  /\ there' = there \cup {Home}
  /\ docs' = docs \cup {r} /\ written' = written \cup {r}
  /\ UNCHANGED <<mapped, tasks, phase, todo, at, left>>

RemoveDocument(r) ==
  /\ phase = "serving"
  /\ docs' = docs \ {r} /\ written' = written \ {r}
  /\ UNCHANGED <<there, mapped, tasks, phase, todo, at, left>>

BootNext ==
  \/ \E c \in Configs : Start(c)
  \/ \E i \in Indices : CheckIndex(i)
  \/ DropIndex \/ CreateIndex
  \/ \E m \in Types : PutMapping(m)
  \/ MasterRuns \/ TimedOut \/ Stop \/ MasterLost
  \/ \E r \in Restaurants : IndexDocument(r) \/ RemoveDocument(r)

BootSpec == BootInit /\ [][BootNext]_bvars
-----------------------------------------------------------------------------
\* Whatever starts failed before, and whatever requests of theirs the master carried
\* out late, a server that serves has every index with exactly its mapping files.
ServingMapped ==
  phase = "serving" => there = Indices /\ mapped = MappingFiles

\* A serving server's index holds what its own listeners wrote, and nothing that was
\* indexed before it started.
FreshDocuments == phase = "serving" => docs = written
=============================================================================
