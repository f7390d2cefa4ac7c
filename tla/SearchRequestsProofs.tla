------------------------ MODULE SearchRequestsProofs ------------------------
(***************************************************************************)
(* Theorems of SearchRequests and, under it, of IndexBootstrap, for any    *)
(* indices, mapping files, restaurants, criteria, ranks and page size.     *)
(*                                                                         *)
(* The argument: once one request of a start has been carried out, every   *)
(* request of earlier starts has, because the master keeps the order; from *)
(* then on the queue holds at most the request the server waits for, and   *)
(* nothing undoes an index that is done.                                   *)
(***************************************************************************)
EXTENDS SearchRequests, SequenceTheorems, FiniteSetTheorems, WellFoundedInduction, TLAPS

LastTask == tasks[Len(tasks)]

\* The mapping files of at are being put.
Putting == phase = "put" \/ (phase = "wait" /\ LastTask.op = "put")

\* The master has carried out a request of this start.
Settled == phase = "serving" \/ Putting \/ (phase # "down" /\ todo # Indices)

MappedBut(i, rest) ==
  i \in there /\ \A m \in Types : <<i, m>> \in mapped <=> <<i, m>> \in MappingFiles /\ m \notin rest

WaitInv ==
  phase = "wait" =>
    /\ tasks # <<>> /\ LastTask.index = at
    /\ LastTask.op = "put" => LastTask.type \in left

QueueInv == Settled => Len(tasks) = IF phase = "wait" THEN 1 ELSE 0

LoopInv ==
  /\ phase # "down" => \A i \in Indices \ todo : MappedBut(i, {})
  /\ Putting => MappedBut(at, left) /\ left # {} /\ left \subseteq FilesOf(at)
  /\ phase \in {"delete", "create"} \/ (phase = "wait" /\ LastTask.op # "put") => left = FilesOf(at)
  /\ phase = "serving" <=> (phase # "down" /\ todo = {})

DocsInv ==
  /\ Home \notin there => docs = {}
  /\ phase = "serving" => docs = written
  /\ phase \notin {"down", "serving"} /\ (Home \notin todo \/ (Putting /\ at = Home)) => docs = {}
  /\ phase \notin {"down", "serving"} => written = {}

BInv == BootTypeOK /\ WaitInv /\ QueueInv /\ LoopInv /\ DocsInv

-----------------------------------------------------------------------------
LEMMA TailFacts ==
  ASSUME NEW S, NEW s \in Seq(S), s # <<>>
  PROVE  /\ Len(s) \in Nat \ {0} /\ Head(s) \in S /\ Head(s) = s[1] /\ s[Len(s)] \in S
         /\ Tail(s) \in Seq(S) /\ Len(Tail(s)) = Len(s) - 1
         /\ Len(s) # 1 => Tail(s) # <<>> /\ Tail(s)[Len(Tail(s))] = s[Len(s)]
<1>1. Len(s) \in Nat /\ Len(s) # 0 /\ s \in [1 .. Len(s) -> S] /\ Head(s) = s[1]
  OBVIOUS
<1>2. /\ Head(s) \in S /\ Tail(s) \in Seq(S) /\ Len(Tail(s)) = Len(s) - 1
      /\ \A j \in 1 .. Len(Tail(s)) : Tail(s)[j] = s[j + 1]
  BY HeadTailProperties
<1>3. s[Len(s)] \in S
  BY <1>1
<1>4. ASSUME Len(s) # 1 PROVE Tail(s) # <<>> /\ Tail(s)[Len(Tail(s))] = s[Len(s)]
  <2>1. Len(Tail(s)) \in 1 .. Len(Tail(s)) /\ Len(Tail(s)) + 1 = Len(s)
    BY <1>1, <1>2, <1>4
  <2>2. Tail(s)[Len(Tail(s))] = s[Len(Tail(s)) + 1]
    BY <1>2, <2>1
  <2>3. Len(<<>>) = 0
    OBVIOUS
  <2>4. Len(Tail(s)) # 0
    BY <1>2, <2>1
  <2>5. Tail(s) # <<>>
    BY <2>3, <2>4, Zenon
  <2> QED BY <2>1, <2>2, <2>5
<1> QED BY <1>1, <1>2, <1>3, <1>4

LEMMA AppendFacts ==
  ASSUME NEW S, NEW s \in Seq(S), NEW e \in S
  PROVE  /\ Append(s, e) \in Seq(S) /\ Append(s, e) # <<>>
         /\ Len(Append(s, e)) = Len(s) + 1 /\ Append(s, e)[Len(Append(s, e))] = e
OBVIOUS

LEMMA InitBInv == BootInit => BInv
BY BootstrapAssumption
   DEF BootInit, BInv, BootTypeOK, WaitInv, QueueInv, LoopInv, DocsInv, Settled, Putting

LEMMA StartB == ASSUME BInv, NEW c \in Configs, Start(c) PROVE BInv'
BY BootstrapAssumption
   DEF Start, BInv, BootTypeOK, WaitInv, QueueInv, LoopInv, DocsInv, Settled, Putting, MappedBut

LEMMA CheckIndexB == ASSUME BInv, NEW i \in Indices, CheckIndex(i) PROVE BInv'
BY BootstrapAssumption
   DEF CheckIndex, BInv, BootTypeOK, WaitInv, QueueInv, LoopInv, DocsInv, Settled, Putting,
       MappedBut, FilesOf

\* Sending a request appends it; nothing else that the invariant speaks of changes.
LEMMA SendB ==
  ASSUME BInv, NEW op \in {"delete", "create", "put"}, NEW m, Send(op, m), phase = op,
         IF op = "put" THEN m \in left ELSE m = NoType
  PROVE  BInv'
<1> DEFINE k == [op |-> op, index |-> at, type |-> m]
<1>1. at \in todo /\ at \in Indices
  BY DEF BInv, BootTypeOK
<1>2. k \in Tasks
  BY <1>1 DEF Tasks, BInv, BootTypeOK
<1>3. /\ tasks' \in Seq(Tasks) /\ tasks' # <<>> /\ Len(tasks') = Len(tasks) + 1
      /\ LastTask' = k
  BY <1>2, AppendFacts DEF Send, BInv, BootTypeOK, LastTask
<1>4. BootTypeOK'
  BY <1>1, <1>3 DEF Send, BInv, BootTypeOK
<1>5. Putting' <=> Putting
  BY <1>3 DEF Send, Putting
<1>6. WaitInv'
  BY <1>3 DEF Send, WaitInv
<1>7. QueueInv'
  BY <1>3, <1>5 DEF Send, BInv, BootTypeOK, QueueInv, Settled
<1>8. LoopInv'
  BY <1>3, <1>5 DEF Send, BInv, LoopInv, MappedBut, FilesOf
<1>9. DocsInv'
  BY <1>5 DEF Send, BInv, DocsInv
<1> QED BY <1>4, <1>6, <1>7, <1>8, <1>9 DEF BInv

\* A start that fails leaves no promise about the queue or the indices.
LEMMA DownB ==
  ASSUME BInv, Down, UNCHANGED written, BootTypeOK', Home \notin there' => docs' = {}
  PROVE  BInv'
BY DEF Down, BInv, WaitInv, QueueInv, LoopInv, DocsInv, Settled, Putting

LEMMA AppliedB ==
  ASSUME BootTypeOK, NEW k \in Tasks, Possible(k), Applied(k), Home \notin there => docs = {}
  PROVE  /\ there' \subseteq Indices /\ mapped' \subseteq there' \X Types /\ docs' \subseteq Restaurants
         /\ Home \notin there' => docs' = {}
BY DEF BootTypeOK, Tasks, Possible, Applied

\* What is known once the server's own request has been carried out.
LEMMA ProceedB ==
  ASSUME BInv, NEW rest \in SUBSET FilesOf(at), Proceed(rest),
         phase = "wait", tasks' = <<>>, UNCHANGED written,
         there' \subseteq Indices, mapped' \subseteq there' \X Types, docs' \subseteq Restaurants,
         \A i \in Indices \ todo : MappedBut(i, {})',
         at \in there',
         \A m \in Types : <<at, m>> \in mapped' <=> <<at, m>> \in MappingFiles /\ m \notin rest,
         Home \notin there' => docs' = {},
         Home \notin todo \/ at = Home => docs' = {}
  PROVE  BInv'
<1>1. at \in todo /\ at \in Indices /\ at' = at /\ left' = rest
  BY DEF BInv, BootTypeOK, Proceed
<1>2. BootTypeOK'
  <2>1. tasks' \in Seq(Tasks)
    BY EmptySeq
  <2> QED BY <1>1, <2>1 DEF BInv, BootTypeOK, Proceed, FilesOf
<1>3. WaitInv' /\ QueueInv'
  BY DEF Proceed, WaitInv, QueueInv
<1>4. Putting' <=> rest # {}
  BY DEF Proceed, Putting
<1>5. LoopInv'
  <2>1. \A i \in Indices \ todo' : MappedBut(i, {})'
    BY <1>1 DEF Proceed, MappedBut
  <2>2. Putting' => MappedBut(at, left)' /\ left' # {} /\ left' \subseteq FilesOf(at')
    BY <1>1, <1>4 DEF MappedBut, FilesOf
  <2>3. phase' = "serving" <=> (phase' # "down" /\ todo' = {})
    BY <1>1 DEF Proceed
  <2> QED BY <2>1, <2>2, <2>3 DEF LoopInv, Proceed
<1>6. DocsInv'
  <2>1. written' = {} /\ phase' \in {"put", "serving", "next"}
    BY DEF BInv, DocsInv, Proceed
  <2>2. Home \notin todo' => docs' = {}
    BY <1>1 DEF Proceed
  <2>3. Putting' /\ at' = Home => docs' = {}
    BY <1>1
  <2>4. phase' = "serving" => docs' = {}
    BY <1>1, <2>2, BootstrapAssumption DEF Proceed
  <2> QED BY <2>1, <2>2, <2>3, <2>4 DEF DocsInv
<1> QED BY <1>2, <1>3, <1>5, <1>6 DEF BInv

\* A request of an earlier start is carried out: only before the first of this start is.
LEMMA OthersTaskB ==
  ASSUME BInv, MasterRuns, ~(phase = "wait" /\ Len(tasks) = 1)
  PROVE  BInv'
<1>1. /\ tasks # <<>> /\ tasks \in Seq(Tasks) /\ Head(tasks) \in Tasks
      /\ tasks' = Tail(tasks) /\ UNCHANGED <<phase, todo, at, left, written>>
  BY TailFacts DEF MasterRuns, BInv, BootTypeOK, server
<1>2. ~Settled
  BY <1>1, EmptySeq DEF BInv, QueueInv
<1>3. tasks' \in Seq(Tasks) /\ (phase = "wait" => tasks' # <<>> /\ LastTask' = LastTask)
  BY <1>1, TailFacts DEF LastTask
<1>4. /\ there' \subseteq Indices /\ mapped' \subseteq there' \X Types /\ docs' \subseteq Restaurants
      /\ Home \notin there' => docs' = {}
  <2>1. CASE Possible(Head(tasks))
    BY <1>1, <2>1, AppliedB DEF MasterRuns, BInv, DocsInv
  <2>2. CASE ~Possible(Head(tasks))
    BY <2>2 DEF MasterRuns, cluster, BInv, BootTypeOK, DocsInv
  <2> QED BY <2>1, <2>2
<1>5. BootTypeOK'
  BY <1>1, <1>3, <1>4 DEF BInv, BootTypeOK
<1>6. ~Settled' /\ ~Putting /\ ~Putting' /\ phase # "serving" /\ (phase = "down" \/ todo = Indices)
  BY <1>1, <1>2, <1>3 DEF Settled, Putting
<1>7. WaitInv' /\ QueueInv'
  BY <1>1, <1>3, <1>6 DEF BInv, WaitInv, QueueInv
<1>8. LoopInv'
  BY <1>1, <1>3, <1>6 DEF BInv, LoopInv, FilesOf
<1>9. DocsInv'
  BY <1>1, <1>4, <1>6, BootstrapAssumption DEF BInv, DocsInv
<1> QED BY <1>5, <1>7, <1>8, <1>9 DEF BInv

\* The request the server waits for is carried out.
LEMMA OwnTaskB ==
  ASSUME BInv, MasterRuns, phase = "wait", Len(tasks) = 1
  PROVE  BInv'
<1> DEFINE k == Head(tasks)
<1>1. /\ tasks # <<>> /\ tasks \in Seq(Tasks) /\ k \in Tasks /\ LastTask = k
      /\ tasks' = Tail(tasks) /\ UNCHANGED written
  BY TailFacts DEF MasterRuns, BInv, BootTypeOK, LastTask
<1>2. tasks' = <<>> /\ tasks' \in Seq(Tasks)
  <2>1. Tail(tasks) \in Seq(Tasks) /\ Len(Tail(tasks)) = 0
    BY <1>1, TailFacts
  <2> QED BY <1>1, <2>1, EmptySeq
<1>3. at \in todo /\ at \in Indices /\ k.index = at /\ (k.op = "put" => k.type \in left)
  BY <1>1 DEF BInv, BootTypeOK, WaitInv
<1>4. CASE ~Possible(k)
  <2>1. UNCHANGED cluster /\ Down
    BY <1>4 DEF MasterRuns
  <2> QED BY <1>1, <1>2, <2>1, DownB DEF cluster, Down, BInv, BootTypeOK, DocsInv
<1>5. CASE Possible(k)
  <2>1. Applied(k) /\ Acknowledged(k)
    BY <1>5 DEF MasterRuns
  <2>2. /\ there' \subseteq Indices /\ mapped' \subseteq there' \X Types /\ docs' \subseteq Restaurants
        /\ Home \notin there' => docs' = {}
    BY <1>1, <1>5, <2>1, AppliedB DEF BInv, DocsInv
  <2>3. \A i \in Indices \ todo : MappedBut(i, {})'
    BY <1>3, <2>1 DEF BInv, LoopInv, MappedBut, Applied
  <2>4. Home \notin todo => docs' = {}
    BY <2>1 DEF Applied, BInv, DocsInv
  <2>5. CASE k.op = "delete"
    <3>1. phase' = "create" /\ UNCHANGED <<todo, at, left>>
      BY <2>1, <2>5 DEF Acknowledged, loop
    <3>2. BootTypeOK'
      BY <1>2, <1>1, <2>2, <3>1, <1>3 DEF BInv, BootTypeOK
    <3>3. WaitInv' /\ QueueInv' /\ ~Putting' /\ ~Putting
      BY <1>1, <1>2, <2>5, <3>1 DEF WaitInv, QueueInv, Putting
    <3>4. LoopInv'
      BY <1>1, <1>3, <2>3, <2>5, <3>1, <3>3 DEF BInv, LoopInv, FilesOf
    <3>5. DocsInv'
      BY <1>1, <2>2, <2>4, <3>1, <3>3 DEF BInv, DocsInv
    <3> QED BY <3>2, <3>3, <3>4, <3>5 DEF BInv
  <2>6. CASE k.op = "create"
    <3>1. Proceed(left) /\ left = FilesOf(at)
      BY <1>1, <2>1, <2>6 DEF Acknowledged, BInv, LoopInv
    <3>2. at \notin there /\ at \in there' /\ mapped' = mapped /\ docs' = docs
      BY <1>3, <1>5, <2>1, <2>6 DEF Possible, Applied
    <3>3. \A m \in Types : <<at, m>> \in mapped' <=> <<at, m>> \in MappingFiles /\ m \notin left
      BY <3>1, <3>2 DEF BInv, BootTypeOK, FilesOf
    <3>4. at = Home => docs' = {}
      BY <3>2 DEF BInv, DocsInv
    <3> QED BY <1>1, <1>2, <2>2, <2>3, <2>4, <3>1, <3>2, <3>3, <3>4, ProceedB DEF BInv, BootTypeOK
  <2>7. CASE k.op = "put"
    <3>1. Proceed(left \ {k.type}) /\ Putting
      BY <1>1, <2>1, <2>7 DEF Acknowledged, Putting
    <3>2. there' = there /\ mapped' = mapped \cup {<<at, k.type>>} /\ docs' = docs
      BY <1>3, <2>1, <2>7 DEF Applied
    <3>3. MappedBut(at, left)
      BY <3>1 DEF BInv, LoopInv
    <3>4. at \in there' /\ k.type \in left /\ left \subseteq FilesOf(at)
      BY <1>3, <2>7, <3>1, <3>2, <3>3 DEF MappedBut, BInv, LoopInv
    <3>5. \A m \in Types : <<at, m>> \in mapped' <=>
                             <<at, m>> \in MappingFiles /\ m \notin left \ {k.type}
      BY <3>2, <3>3, <3>4 DEF MappedBut, FilesOf
    <3>6. at = Home => docs' = {}
      BY <3>1, <3>2 DEF BInv, DocsInv, Putting
    <3> QED BY <1>1, <1>2, <2>2, <2>3, <2>4, <3>1, <3>4, <3>5, <3>6, ProceedB DEF BInv, BootTypeOK
  <2> QED BY <1>1, <2>5, <2>6, <2>7 DEF Tasks
<1> QED BY <1>4, <1>5

LEMMA FailedStartB ==
  ASSUME BInv, TimedOut \/ Stop \/ MasterLost
  PROVE  BInv'
<1>1. tasks' \in Seq(Tasks)
  BY EmptySeq DEF TimedOut, Stop, MasterLost, BInv, BootTypeOK
<1>2. UNCHANGED <<there, mapped, docs, written>>
  BY DEF TimedOut, Stop, MasterLost
<1>3. CASE Down
  BY <1>1, <1>2, <1>3, DownB DEF Down, BInv, BootTypeOK, DocsInv
<1>4. CASE MasterLost /\ phase # "wait"
  <2>1. UNCHANGED server /\ tasks' = <<>> /\ tasks # <<>>
    BY <1>4 DEF MasterLost
  <2>2. ~Settled
    BY <1>4, <2>1, EmptySeq DEF BInv, BootTypeOK, QueueInv
  <2> QED BY <1>1, <1>2, <1>4, <2>1, <2>2
          DEF server, BInv, BootTypeOK, WaitInv, QueueInv, LoopInv, DocsInv, Settled, Putting,
              MappedBut, FilesOf
<1> QED BY <1>3, <1>4 DEF TimedOut, Stop, MasterLost

LEMMA DocumentsB ==
  ASSUME BInv, NEW r \in Restaurants, IndexDocument(r) \/ RemoveDocument(r)
  PROVE  BInv'
<1>1. /\ phase = "serving" /\ UNCHANGED <<mapped, tasks, phase, todo, at, left>>
      /\ there' = there /\ docs' \subseteq Restaurants /\ docs' = written'
  BY BootstrapAssumption
     DEF IndexDocument, RemoveDocument, BInv, BootTypeOK, LoopInv, DocsInv, MappedBut
<1>2. Home \in there
  BY <1>1, BootstrapAssumption DEF BInv, LoopInv, MappedBut
<1> QED BY <1>1, <1>2
        DEF BInv, BootTypeOK, WaitInv, QueueInv, LoopInv, DocsInv, Settled, Putting, MappedBut,
            FilesOf, LastTask

LEMMA NextBInv == BInv /\ [BootNext]_bvars => BInv'
<1> SUFFICES ASSUME BInv, [BootNext]_bvars PROVE BInv'
  OBVIOUS
<1>1. ASSUME NEW c \in Configs, Start(c) PROVE BInv'
  BY <1>1, StartB
<1>2. ASSUME NEW i \in Indices, CheckIndex(i) PROVE BInv'
  BY <1>2, CheckIndexB
<1>3. CASE DropIndex
  BY <1>3, SendB DEF DropIndex
<1>4. CASE CreateIndex
  BY <1>4, SendB DEF CreateIndex
<1>5. ASSUME NEW m \in Types, PutMapping(m) PROVE BInv'
  BY <1>5, SendB DEF PutMapping
<1>6. CASE MasterRuns
  BY <1>6, OthersTaskB, OwnTaskB
<1>7. CASE TimedOut \/ Stop \/ MasterLost
  BY <1>7, FailedStartB
<1>8. ASSUME NEW r \in Restaurants, IndexDocument(r) \/ RemoveDocument(r) PROVE BInv'
  BY <1>8, DocumentsB
<1>9. CASE UNCHANGED bvars
  BY <1>9
     DEF bvars, BInv, BootTypeOK, WaitInv, QueueInv, LoopInv, DocsInv, Settled, Putting, MappedBut,
         FilesOf, LastTask
<1> QED BY <1>1, <1>2, <1>3, <1>4, <1>5, <1>6, <1>7, <1>8, <1>9 DEF BootNext
-----------------------------------------------------------------------------
\* A request is only followed while the server serves.
SInv ==
  /\ pc \in {"idle", "sort", "find", "answered"}
  /\ criteria \in Criteria \cup {NullCriteria}
  /\ rank \in Ranks
  /\ answer \in [status : Nat, hits : SUBSET Restaurants]
  /\ pc # "idle" => phase = "serving"
  /\ pc \in {"sort", "find"} => criteria \in Criteria

IInv == BInv /\ SInv

\* Every failure has a status, and it is not that of a success.
LEMMA StatusTyped ==
  ASSUME NEW classes, NEW code
  PROVE  ToResponse(Exception(classes, code)) \in Nat \ {0, 200}
BY DEF ToResponse, Exception, ResolveHttpStatus

LEMMA InitIInv == Init => IInv
BY InitBInv DEF Init, IInv, SInv, Ranks, NoAnswer

\* A request's steps leave the index alone, the server's steps the request, unless it stops.
LEMMA NextIInv == IInv /\ [Next]_vars => IInv'
<1> SUFFICES ASSUME IInv, [Next]_vars PROVE IInv'
  OBVIOUS
<1>1. BInv'
  <2>1. [BootNext]_bvars
    BY DEF Next, vars, Bootstrap, Search, SortByDates, SortByDistance, GeocodeFails,
           FindRestaurants, SearchFails
  <2> QED BY <2>1, NextBInv DEF IInv
<1>2. SInv'
  <2> USE DEF IInv, SInv, Ranks
  <2>1. ASSUME Bootstrap PROVE SInv'
    BY <2>1 DEF Bootstrap, svars, Lost, NoAnswer
  <2>2. ASSUME NEW c \in Criteria \cup {NullCriteria}, Search(c) PROVE SInv'
    BY <2>2, StatusTyped DEF Search, Fails, Respond, NoAnswer, bvars
  <2>3. CASE SortByDates \/ SortByDistance
    BY <2>3 DEF SortByDates, SortByDistance, bvars
  <2>4. ASSUME NEW ex \in GeocodeFailures, GeocodeFails(ex) PROVE SInv'
    <3>1. ToResponse(ex) \in Nat
      BY StatusTyped DEF GeocodeFailures
    <3> QED BY <2>4, <3>1 DEF GeocodeFails, Fails, Respond, bvars
  <2>5. CASE FindRestaurants
    <3>1. Page(Matching) \in SUBSET Restaurants
      BY DEF Page, Matching, BInv, BootTypeOK
    <3> QED BY <2>5, <3>1 DEF FindRestaurants, Respond, bvars
  <2>6. CASE SearchFails
    BY <2>6, StatusTyped DEF SearchFails, Fails, Respond, bvars
  <2>7. CASE UNCHANGED vars
    BY <2>7 DEF vars, svars, bvars
  <2> QED BY <2>1, <2>2, <2>3, <2>4, <2>5, <2>6, <2>7 DEF Next
<1> QED BY <1>1, <1>2 DEF IInv

LEMMA Invariance == Spec => []IInv
BY InitIInv, NextIInv, PTL DEF Spec

\* The state of the cluster, of the start and of the request keeps its types.
THEOREM TypeCorrect == Spec => []TypeOK
<1>1. IInv => TypeOK
  BY DEF IInv, BInv, SInv, TypeOK
<1> QED BY <1>1, Invariance, PTL

LEMMA IInvMapped == IInv => ServingMapped
<1> SUFFICES ASSUME IInv, phase = "serving" PROVE there = Indices /\ mapped = MappingFiles
  BY DEF ServingMapped
<1>1. \A i \in Indices : MappedBut(i, {})
  BY DEF IInv, BInv, LoopInv
<1>2. there = Indices
  BY <1>1 DEF MappedBut, IInv, BInv, BootTypeOK
<1>3. \A i \in Indices, m \in Types : <<i, m>> \in mapped <=> <<i, m>> \in MappingFiles
  BY <1>1 DEF MappedBut
<1>4. mapped \subseteq Indices \X Types
  BY <1>2 DEF IInv, BInv, BootTypeOK
<1>5. \A p \in Indices \X Types : p \in mapped <=> p \in MappingFiles
  <2> TAKE p \in Indices \X Types
  <2>1. PICK i \in Indices, m \in Types : p = <<i, m>>
    OBVIOUS
  <2> QED BY <1>3, <2>1
<1>6. mapped = MappingFiles
  BY <1>4, <1>5, BootstrapAssumption
<1> QED BY <1>2, <1>6

\* A server that serves has all its indices and exactly their mappings, whatever earlier
\* starts and late requests did.
THEOREM AlwaysMapped == Spec => []ServingMapped
BY IInvMapped, Invariance, PTL

\* The index of a serving server holds what its listeners wrote since it started.
THEOREM AlwaysFresh == Spec => []FreshDocuments
<1>1. IInv => FreshDocuments
  BY DEF IInv, BInv, DocsInv, FreshDocuments
<1> QED BY <1>1, Invariance, PTL

\* On an index with its mapping, the query finds what the criteria mean.
LEMMA QueryMeans ==
  ASSUME NEW c \in Restaurant, NEW d \in Restaurant, Matches(c, d, TRUE)
  PROVE  Satisfies(d, c)
<1>1. \A f \in TextFields \cup ExactFields \cup FlagFields : c.value[f] # {} => Clause(f, c, d, TRUE)
  BY DEF Matches, NoCriteria, CriteriaAsMap, Fields
<1> QED BY <1>1 DEF Matches, NoCriteria, Satisfies, Clause, QueryString, Term, FlagTerm, Terms

\* Only a search that found restaurants is answered with 200.
LEMMA OnlyFoundAnswers ==
  ASSUME IInv, [Next]_vars, answer' # answer, answer'.status = 200
  PROVE  FindRestaurants
<1>1. CASE Bootstrap
  BY <1>1 DEF Bootstrap, svars, Lost, NoAnswer
<1>2. ASSUME NEW c \in Criteria \cup {NullCriteria}, Search(c) PROVE FALSE
  BY <1>2, StatusTyped DEF Search, Fails, Respond, NoAnswer
<1>3. CASE SortByDates \/ SortByDistance \/ UNCHANGED vars
  BY <1>3 DEF SortByDates, SortByDistance, vars, svars
<1>4. ASSUME NEW ex \in GeocodeFailures, GeocodeFails(ex) PROVE FALSE
  <2>1. ToResponse(ex) # 200
    BY StatusTyped DEF GeocodeFailures
  <2> QED BY <1>4, <2>1 DEF GeocodeFails, Fails, Respond
<1>5. CASE SearchFails
  BY <1>5, StatusTyped DEF SearchFails, Fails, Respond
<1> QED BY <1>1, <1>2, <1>3, <1>4, <1>5 DEF Next

\* Every hit of every answer satisfies the criteria it answers.
THEOREM Sound == Spec => AnswersSatisfy
<1>1. ASSUME IInv, [Next]_vars, answer' # answer, answer'.status = 200
      PROVE  answer'.hits \subseteq Wanted
  <2>1. FindRestaurants
    BY <1>1, OnlyFoundAnswers
  <2>2. answer'.hits \subseteq Matching
    BY <2>1 DEF FindRestaurants, Respond, Page
  <2>3. criteria \in Restaurant /\ \A r \in docs : Content[r] \in Restaurant
    BY <1>1, <2>1, SearchAssumption DEF FindRestaurants, IInv, SInv, BInv, BootTypeOK
  <2>4. <<Home, RestaurantType>> \in mapped
    BY <1>1, <2>1, IInvMapped, SearchAssumption DEF ServingMapped, FindRestaurants, IInv, SInv
  <2> QED BY <2>2, <2>3, <2>4, QueryMeans DEF Matching, Wanted
<1> QED BY <1>1, Invariance, PTL DEF Spec, AnswersSatisfy

\* What the criteria mean, the query finds.
LEMMA QueryFinds ==
  ASSUME NEW c \in Restaurant, NEW d \in Restaurant, Satisfies(d, c)
  PROVE  Matches(c, d, TRUE)
<1>1. \A f \in CriteriaAsMap(c) : Clause(f, c, d, TRUE)
  BY DEF Satisfies, CriteriaAsMap, Fields, Clause, QueryString, Term, FlagTerm
<1>2. c.codes # {} => Terms(c.codes, d.codes, TRUE)
  BY DEF Satisfies, Terms
<1> QED BY <1>1, <1>2 DEF Matches

\* A set of numbers has a least one.
LEMMA Least ==
  ASSUME NEW T, T \subseteq Nat, T # {}
  PROVE  \E m \in T : \A n \in T : m <= n
<1>1. PICK m \in T : \A n \in T : ~(<<n, m>> \in OpToRel(<, Nat))
  BY NatLessThanWellFounded, WFMin
<1>2. ASSUME NEW n \in T PROVE m <= n
  <2>1. ~(n < m)
    BY <1>1 DEF OpToRel
  <2> QED BY <2>1
<1> QED BY <1>2

\* What a page lacks has a full page before it: that which comes before the first one lacking.
LEMMA PageIsFull ==
  ASSUME NEW found \in SUBSET Restaurants, rank \in Ranks, NEW r \in found \ Page(found)
  PROVE  Cardinality({s \in Page(found) : rank[s] <= rank[r]}) >= PageSize
<1>1. rank \in [Restaurants -> Nat] /\ PageSize \in Nat /\ IsFiniteSet(found)
  BY SearchAssumption, FS_Subset DEF Ranks
<1> DEFINE T == {rank[s] : s \in found \ Page(found)}
<1>2. PICK s \in found \ Page(found) : \A t \in found \ Page(found) : rank[s] <= rank[t]
  <2>1. T \subseteq Nat /\ T # {}
    BY <1>1
  <2>2. PICK m \in T : \A n \in T : m <= n
    BY <2>1, Least
  <2> QED BY <2>2
<1> DEFINE before == {t \in found : rank[t] < rank[s]}
           page   == {t \in Page(found) : rank[t] <= rank[r]}
<1>3. before \subseteq page
  <2> SUFFICES ASSUME NEW t \in found, rank[t] < rank[s]
               PROVE  t \in Page(found) /\ rank[t] <= rank[r]
    OBVIOUS
  <2>1. rank[s] <= rank[r] /\ rank[s] \in Nat /\ rank[t] \in Nat /\ rank[r] \in Nat
    BY <1>1, <1>2
  <2>2. t \in Page(found)
    <3>1. t \notin Page(found) => rank[s] <= rank[t]
      BY <1>2
    <3> QED BY <2>1, <3>1
  <2> QED BY <2>1, <2>2
<1>4. /\ IsFiniteSet(page) /\ IsFiniteSet(before)
      /\ Cardinality(page) \in Nat /\ Cardinality(before) \in Nat
  BY <1>1, FS_Subset, FS_CardinalityType DEF Page
<1>5. Cardinality(before) <= Cardinality(page)
  BY <1>3, <1>4, FS_Subset
<1>6. ~(Cardinality(before) < PageSize)
  BY <1>2 DEF Page
<1> HIDE DEF before, page
<1>7. Cardinality(page) >= PageSize
  BY <1>1, <1>4, <1>5, <1>6
<1> QED BY <1>7 DEF page

\* A restaurant that satisfies the criteria is only left out of an answer for a full page
\* of others that come before it.
THEOREM Complete == Spec => PagesFull
<1>1. ASSUME IInv, [Next]_vars, answer' # answer, answer'.status = 200
      PROVE  \A r \in Wanted \ answer'.hits :
               Cardinality({s \in answer'.hits : rank[s] <= rank[r]}) >= PageSize
  <2>1. FindRestaurants
    BY <1>1, OnlyFoundAnswers
  <2>2. answer'.hits = Page(Matching) /\ criteria \in Criteria /\ rank \in Ranks
    BY <1>1, <2>1 DEF FindRestaurants, Respond, IInv, SInv
  <2>3. Matching \subseteq Restaurants /\ <<Home, RestaurantType>> \in mapped
    BY <1>1, <2>1, IInvMapped, SearchAssumption
    DEF Matching, ServingMapped, FindRestaurants, IInv, SInv, BInv, BootTypeOK
  <2>4. Wanted \subseteq Matching
    <3>1. criteria \in Restaurant /\ \A r \in docs : Content[r] \in Restaurant
      BY <1>1, <2>2, SearchAssumption DEF IInv, BInv, BootTypeOK
    <3> QED BY <2>3, <3>1, QueryFinds DEF Wanted, Matching
  <2> QED BY <2>2, <2>3, <2>4, PageIsFull
<1> QED BY <1>1, Invariance, PTL DEF Spec, PagesFull
=============================================================================
