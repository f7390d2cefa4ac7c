----------------------------- MODULE PageProofs -----------------------------
(***************************************************************************)
(* Theorems of DocumentReady, DataStore, ElementDisplay and                *)
(* PublicCallbacks, parts of the page runtime that share no state.         *)
(*                                                                         *)
(* DocumentReady, for any handlers and any number of holds: TypeOK,        *)
(* ReadySafe and FiresReleased rest on one inductive invariant: readyWait  *)
(* counts the holds of the page and, until the document is ready, the      *)
(* event; and whatever may call ready early finds no body.                 *)
(*                                                                         *)
(* DataStore, for any elements and objects, names, attributes and any      *)
(* number of calls: expandos are given out once, so that entries and       *)
(* elements belong together, and what is known of an element is what its   *)
(* entry tells.                                                            *)
(*                                                                         *)
(* ElementDisplay, for any elements, displays and number of calls: what    *)
(* jQuery keeps of an element is how it looked, the run and what is kept   *)
(* of a stopped one know the property's own value, and an animation with   *)
(* those that wait behind it leads to what was asked last.  What a dequeue *)
(* does for any number of them is shown by induction along the queue.      *)
(*                                                                         *)
(* PublicCallbacks, for any flags, callbacks and number of calls: a list   *)
(* that fires holds all that was heard, all before the place of the fire   *)
(* was heard when the fire began with the whole list, and nothing after it *)
(* in a list without duplicates.  That remove keeps the place is shown by  *)
(* induction along its loop.                                               *)
(***************************************************************************)
EXTENDS DocumentReady, DataStore, ElementDisplay, PublicCallbacks, WellFoundedInduction, TLAPS

Counted   == readyWait = held + (IF isReady THEN 0 ELSE 1)
FiredOnly == fired => isReady
Bodied    == (isReady \/ dom # "loading") => body
PollsIE   == polls => browser = "ie"
Standard  == browser = "w3c" /\ (isReady \/ timers > 0) => dom # "loading"

\* TypeOK in two parts, as the provers need it.
Flagged == /\ body \in BOOLEAN /\ polls \in BOOLEAN /\ bound \in BOOLEAN /\ isReady \in BOOLEAN
           /\ fired \in BOOLEAN /\ broken \in BOOLEAN /\ owed \in BOOLEAN
Typed   == /\ browser \in {"w3c", "ie", "frame"} /\ dom \in {"loading", "interactive", "complete"}
           /\ due \subseteq Events /\ listening \subseteq Events
           /\ timers \in Nat /\ readyWait \in Nat /\ held \in Nat
           /\ waiting \in Seq(Handlers) /\ ran \in Seq(Handlers)
           /\ events \in Seq(Handlers) /\ todo \in Seq(Handlers)

ReadyInv == Typed /\ Counted /\ FiredOnly /\ Bodied /\ PollsIE /\ Standard

\* What any call of ready leaves true, whoever makes it.
LEMMA ReadyKeeps ==
  ASSUME ReadyInv, NEW wait \in BOOLEAN, NEW pending \in Nat, Ready(wait, pending),
         wait => held > 0, browser = "w3c" /\ pending > 0 => dom # "loading",
         browser = "w3c" => wait \/ dom # "loading",
         held' = (IF wait THEN held - 1 ELSE held),
         UNCHANGED <<browser, dom, body, events>>
  PROVE  /\ Counted' /\ FiredOnly' /\ Bodied' /\ Standard'
         /\ readyWait' \in Nat /\ held' \in Nat /\ timers' \in Nat /\ todo' \in Seq(Handlers)
  BY SMTT(30) DEF ReadyInv, Typed, Counted, FiredOnly, Bodied, PollsIE, Standard, Ready,
                  Passes, FireReady, Events

LEMMA ReadyInit == Init => ReadyInv
  BY DEF Init, ReadyInv, Typed, Counted, FiredOnly, Bodied, PollsIE, Standard, Events

LEMMA ScriptsStep ==
  ASSUME ReadyInv, Scripts
  PROVE  ReadyInv'
<1>1. CASE Hold
  BY <1>1 DEF Hold, ReadyInv, Typed, Counted, FiredOnly, Bodied, PollsIE, Standard,
              page, sources, lists, ready
<1>2. CASE Release
  <2>1. Ready(TRUE, timers) /\ held > 0 /\ held' = held - 1
    BY <1>2 DEF Release
  <2>2. UNCHANGED <<page, sources, lists, events>>
    BY <1>2 DEF Release
  <2>3. timers \in Nat /\ (browser = "w3c" /\ timers > 0 => dom # "loading")
    BY DEF ReadyInv, Typed, Standard
  <2>4. /\ Counted' /\ FiredOnly' /\ Bodied' /\ Standard'
        /\ readyWait' \in Nat /\ held' \in Nat /\ timers' \in Nat /\ todo' \in Seq(Handlers)
    BY <2>1, <2>2, <2>3, ReadyKeeps DEF page, lists
  <2>5. QED
    BY <2>2, <2>4 DEF ReadyInv, Typed, PollsIE, page, sources, lists
<1>3. ASSUME BindReady, UNCHANGED <<page, isReady, readyWait, fired, held, ran, todo>>,
             waiting' \in Seq(Handlers), events' \in Seq(Handlers)
      PROVE  ReadyInv'
  <2>1. /\ listening' = listening \/ listening' = Natives
        /\ timers' = timers \/ (dom = "complete" /\ timers' = timers + 1)
        /\ polls' = polls \/ polls' = (browser = "ie")
    BY <1>3, Zenon DEF BindReady
  <2>2. listening' \subseteq Events
    BY <2>1 DEF ReadyInv, Typed, Events, Natives
  <2>3. timers' \in Nat /\ Standard'
    BY <1>3, <2>1 DEF ReadyInv, Typed, Standard, page
  <2>4. PollsIE'
    BY <1>3, <2>1 DEF ReadyInv, PollsIE, page
  <2>5. QED
    BY <1>3, <2>2, <2>3, <2>4 DEF ReadyInv, Typed, Counted, FiredOnly, Bodied, page
<1>4. ASSUME NEW h \in Handlers, AddReady(h)
      PROVE  ReadyInv'
  <2>1. waiting' = Append(waiting, h) /\ events' = events
        /\ BindReady /\ UNCHANGED <<page, isReady, readyWait, fired, held, ran, todo>>
    BY <1>4 DEF AddReady, ready
  <2>2. QED
    BY <1>3, <2>1 DEF ReadyInv, Typed
<1>5. ASSUME NEW h \in Handlers, BindEvent(h)
      PROVE  ReadyInv'
  <2>1. events' = Append(events, h) /\ waiting' = waiting
        /\ BindReady /\ UNCHANGED <<page, isReady, readyWait, fired, held, ran, todo>>
    BY <1>5 DEF BindEvent, lists
  <2>2. QED
    BY <1>3, <2>1 DEF ReadyInv, Typed
<1>6. QED
  BY <1>1, <1>2, <1>4, <1>5 DEF Scripts

LEMMA BrowserStep ==
  ASSUME ReadyInv, Browser
  PROVE  ReadyInv'
<1> USE DEF ReadyInv
<1>1. CASE ParseBody \/ Interactive \/ Complete
  BY <1>1 DEF ParseBody, Interactive, Complete, Typed, Counted, FiredOnly, Bodied,
              PollsIE, Standard, sources, flags, lists, ready
<1>2. ASSUME NEW pending \in Nat, Ready(FALSE, pending), pending <= timers,
             UNCHANGED <<browser, dom, body, held, lists, events>>,
             due' \subseteq Events, listening' \subseteq Events,
             polls' => polls, browser = "w3c" => dom # "loading"
      PROVE  ReadyInv'
  <2>1. /\ Counted' /\ FiredOnly' /\ Bodied' /\ Standard'
        /\ readyWait' \in Nat /\ held' \in Nat /\ timers' \in Nat /\ todo' \in Seq(Handlers)
    BY <1>2, ReadyKeeps DEF lists
  <2>2. QED
    BY <1>2, <2>1 DEF Typed, PollsIE, lists
<1>3. ASSUME UNCHANGED <<flags, todo, browser, dom, body, held, lists, events>>,
             due' \subseteq Events, listening' \subseteq Events,
             polls' => polls
      PROVE  ReadyInv'
  BY <1>3 DEF Typed, Counted, FiredOnly, Bodied, PollsIE, Standard, flags, lists
<1>4. timers \in Nat /\ due \subseteq Events /\ listening \subseteq Events
  BY DEF Typed
<1>5. ASSUME NEW event, NEW states, Comes(event, states), Handled(event \in listening),
             listening' \subseteq listening, UNCHANGED polls,
             browser = "w3c" => dom # "loading"
      PROVE  ReadyInv'
  <2>1. UNCHANGED <<browser, dom, body, held, lists, events>> /\ due' \subseteq Events
        /\ listening' \subseteq Events /\ (polls' => polls)
    BY <1>4, <1>5 DEF Comes
  <2>2. CASE event \in listening
    <3>1. Ready(FALSE, timers)
      BY <1>5, <2>2 DEF Handled
    <3>2. timers <= timers
      BY <1>4
    <3>3. QED
      BY <1>2, <1>4, <1>5, <2>1, <3>1, <3>2
  <2>3. CASE event \notin listening
    <3>1. UNCHANGED <<flags, todo>>
      BY <1>5, <2>3 DEF Handled
    <3>2. QED
      BY <1>3, <2>1, <3>1
  <2>4. QED
    BY <2>2, <2>3
<1>6. CASE DOMContentLoaded
  BY <1>5, <1>6 DEF DOMContentLoaded, Comes
<1>7. CASE ReadyStateChange
  BY <1>5, <1>7 DEF ReadyStateChange, Comes
<1>8. CASE Load
  BY <1>5, <1>8 DEF Load, Comes, sources
<1>9. CASE Timer
  <2>1. /\ timers > 0 /\ Ready(FALSE, timers - 1)
        /\ UNCHANGED <<browser, dom, body, due, listening, polls, held, lists, events>>
    BY <1>9 DEF Timer, page, sources
  <2>2. timers - 1 \in Nat /\ timers - 1 <= timers /\ (browser = "w3c" => dom # "loading")
    BY <1>4, <2>1 DEF Standard
  <2>3. due' \subseteq Events /\ listening' \subseteq Events /\ (polls' => polls)
    BY <1>4, <2>1
  <2>4. QED
    BY <1>2, <2>1, <2>2, <2>3
<1>10. CASE DoScrollCheck
  <2>1. /\ UNCHANGED <<browser, dom, body, due, listening, held, lists, events>>
        /\ browser = "ie" /\ polls
        /\ Ready(FALSE, timers) \/ UNCHANGED <<flags, todo>>
    BY <1>10 DEF DoScrollCheck, PollsIE, page
  <2>2. timers <= timers /\ due' \subseteq Events /\ listening' \subseteq Events
    BY <1>4, <2>1
  <2>3. (polls' => polls) /\ (browser = "w3c" => dom # "loading")
    BY <2>1
  <2>4. QED
    BY <1>2, <1>3, <1>4, <2>1, <2>2, <2>3
<1>11. QED
  BY <1>1, <1>6, <1>7, <1>8, <1>9, <1>10 DEF Browser

LEMMA CallsStep ==
  ASSUME ReadyInv, Calls
  PROVE  ReadyInv'
<1> USE DEF ReadyInv, Typed, Counted, FiredOnly, Bodied, PollsIE, Standard, page, sources,
            lists, flags, ready
<1>1. CASE RunHandler
  <2>1. waiting # <<>> /\ ran' = Append(ran, Head(waiting)) /\ waiting' = Tail(waiting)
    BY <1>1 DEF RunHandler
  <2>2. ran' \in Seq(Handlers) /\ waiting' \in Seq(Handlers)
    BY <2>1
  <2>3. UNCHANGED <<page, sources, isReady, readyWait, fired, timers, held, events, todo>>
    BY <1>1 DEF RunHandler
  <2>4. QED
    BY <2>2, <2>3
<1>2. CASE TriggerReady
  BY <1>2 DEF TriggerReady
<1>3. CASE RunEvent
  <2>1. /\ todo # <<>> /\ (todo' = Tail(todo) \/ todo' = <<>>)
        /\ events' = <<>> \/ events' = events
    BY <1>3 DEF RunEvent
  <2>2. /\ todo \in Seq(Handlers) /\ events \in Seq(Handlers) /\ <<>> \in Seq(Handlers)
        /\ todo # <<>> => Tail(todo) \in Seq(Handlers)
    OBVIOUS
  <2>3. todo' \in Seq(Handlers) /\ events' \in Seq(Handlers)
    BY <2>1, <2>2
  <2>4. UNCHANGED <<page, sources, flags, held, lists>>
    BY <1>3 DEF RunEvent
  <2>5. QED
    BY <2>3, <2>4
<1>4. QED
  BY <1>1, <1>2, <1>3 DEF Calls

LEMMA ReadyStep == ReadyInv /\ [Next]_vars => ReadyInv'
<1>1. CASE UNCHANGED vars
  BY <1>1 DEF ReadyInv, Typed, Counted, FiredOnly, Bodied, PollsIE, Standard, vars, page,
              sources, flags, lists, ready
<1>2. QED
  BY <1>1, ScriptsStep, BrowserStep, CallsStep DEF Next

LEMMA FlaggedInit == Init => Flagged
  BY DEF Init, Flagged

LEMMA FlaggedStep == Flagged /\ [Next]_vars => Flagged'
<1> SUFFICES ASSUME Flagged, [Next]_vars PROVE Flagged'
  OBVIOUS
<1> USE DEF Flagged, page, sources, flags, lists, ready
<1>1. ASSUME NEW wait, NEW pending, Ready(wait, pending)
      PROVE  isReady' \in BOOLEAN /\ fired' \in BOOLEAN /\ owed' \in BOOLEAN
  BY <1>1 DEF Ready, FireReady
<1>2. CASE Release \/ Timer
  BY <1>1, <1>2 DEF Release, Timer
<1>3. CASE DOMContentLoaded \/ ReadyStateChange \/ Load
  BY <1>1, <1>3 DEF DOMContentLoaded, ReadyStateChange, Load, Comes, Handled
<1>4. CASE DoScrollCheck
  BY <1>1, <1>4 DEF DoScrollCheck
<1>5. CASE UNCHANGED vars \/ Hold \/ ParseBody \/ Interactive \/ Complete
  BY <1>5 DEF vars, Hold, ParseBody, Interactive, Complete
<1>6. ASSUME NEW h \in Handlers, AddReady(h) \/ BindEvent(h)
      PROVE  Flagged'
  BY <1>6 DEF AddReady, BindEvent, BindReady
<1>7. CASE RunHandler \/ TriggerReady \/ RunEvent
  BY <1>7 DEF RunHandler, TriggerReady, RunEvent
<1>8. QED
  BY <1>2, <1>3, <1>4, <1>5, <1>6, <1>7 DEF Next, Scripts, Browser, Calls

\* The invariant of document ready holds in every behaviour.
THEOREM InvariantHolds == Spec => []ReadyInv
  BY ReadyInit, ReadyStep, PTL DEF Spec

\* The variables keep their types; readyWait never falls below zero.
THEOREM TypeCorrect == Spec => []TypeOK
<1>1. Flagged /\ ReadyInv => TypeOK
  BY DEF ReadyInv, TypeOK, Typed, Flagged
<1>2. QED
  BY <1>1, FlaggedInit, FlaggedStep, InvariantHolds, PTL DEF Spec

\* In every browser, and for any holds, readyList is fired on a document that is there.
THEOREM FiredWhenReady == Spec => []ReadySafe
<1>1. ReadyInv => ReadySafe
  BY DEF ReadyInv, ReadySafe, FiredOnly, Bodied, Standard
<1>2. QED
  BY <1>1, InvariantHolds, PTL

\* A call of ready that fires the list or triggers the event leaves no hold.
LEMMA ReleasedStep ==
  ASSUME ReadyInv, [Next]_vars
  PROVE  (~fired /\ fired') \/ (~owed /\ todo = <<>> /\ todo' # <<>>) => held' = 0
<1> SUFFICES ASSUME (~fired /\ fired') \/ (~owed /\ todo = <<>> /\ todo' # <<>>)
             PROVE  held' = 0
  OBVIOUS
<1>1. ASSUME NEW wait \in BOOLEAN, NEW pending \in Nat, Ready(wait, pending),
             wait => held > 0, held' = (IF wait THEN held - 1 ELSE held)
      PROVE  held' = 0
  BY <1>1 DEF Ready, Passes, FireReady, ReadyInv, Typed, Counted
<1>2. CASE Release
  BY <1>1, <1>2 DEF Release, ReadyInv, Typed
<1>3. CASE DOMContentLoaded \/ ReadyStateChange \/ Load
  BY <1>1, <1>3 DEF DOMContentLoaded, ReadyStateChange, Load, Comes, Handled, flags,
                    ReadyInv, Typed
<1>4. CASE Timer \/ DoScrollCheck
  <2>1. timers \in Nat
    BY DEF ReadyInv, Typed
  <2>2. ASSUME NEW pending \in Nat, Ready(FALSE, pending), held' = held
        PROVE  held' = 0
    BY <1>1, <2>2
  <2>3. CASE Timer
    <3>1. timers > 0 /\ Ready(FALSE, timers - 1) /\ held' = held
      BY <2>3 DEF Timer
    <3>2. timers - 1 \in Nat
      BY <2>1, <3>1
    <3>3. QED
      BY <2>2, <3>1, <3>2
  <2>4. CASE DoScrollCheck
    <3>1. held' = held /\ (Ready(FALSE, timers) \/ UNCHANGED <<fired, todo>>)
      BY <2>4 DEF DoScrollCheck, flags
    <3>2. QED
      BY <2>1, <2>2, <3>1
  <2>5. QED
    BY <1>4, <2>3, <2>4
<1>5. CASE UNCHANGED vars \/ Hold \/ ParseBody \/ Interactive \/ Complete
  BY <1>5 DEF vars, flags, lists, ready, Hold, ParseBody, Interactive, Complete
<1>6. ASSUME NEW h \in Handlers, AddReady(h) \/ BindEvent(h)
      PROVE  held' = 0
  BY <1>6 DEF AddReady, BindEvent, lists, ready
<1>7. CASE Calls
  <2>1. fired' = fired /\ (owed \/ todo # <<>> \/ todo' = todo)
    BY <1>7 DEF Calls, RunHandler, TriggerReady, RunEvent, flags, ready
  <2>2. QED
    BY <2>1
<1>8. QED
  BY <1>2, <1>3, <1>4, <1>5, <1>6, <1>7 DEF Next, Scripts, Browser

\* No hold is overtaken, by any event of any browser.
THEOREM HoldsRespected == Spec => FiresReleased
  BY InvariantHolds, ReleasedStep, PTL DEF Spec, FiresReleased
-----------------------------------------------------------------------------
IsFunc(f)  == f = [x \in DOMAIN f |-> f[x]]
IsEntry(x) == x = [own |-> x.own, user |-> x.user] /\ IsFunc(x.own) /\ IsFunc(x.user)

\* Keys of nodes are numbers given out once, and an entry is reached from one element.
Keys ==
  /\ uuid \in Nat /\ uuid <= MaxId /\ expando \in [Elements -> Nat] /\ IsFunc(cache)
  /\ \A e \in Elements : expando[e] <= uuid /\ (expando[e] # 0 => e \in Nodes /\ expando[e] \in DOMAIN cache)
  /\ \A e1, e2 \in Elements : e1 # e2 /\ expando[e1] = expando[e2] => expando[e1] = 0
  /\ \A k \in DOMAIN cache : k # 0 /\ IsEntry(cache[k]) /\ \E e \in Elements : Key(e) = k

\* What an entry may hold, and that elements which are not there have none.
Fits(e, entry) ==
  /\ IsEntry(entry) /\ DOMAIN entry.own \subseteq Private /\ DOMAIN entry.user \subseteq Names
  /\ "events" \in DOMAIN entry.own => entry.own["events"] = e

Entries ==
  /\ \A e \in Elements : Fits(e, EntryOf(e))
  /\ asIs \subseteq made /\ made \subseteq Elements
  /\ \A e \in Elements \ made : EntryOf(e) = Empty /\ known[e] = Unknown
  /\ \A e \in Elements : DOMAIN attributes[e] \subseteq {Dashed[n] : n \in Names}
  /\ DOMAIN attributes = Elements /\ IsFunc(known) /\ DOMAIN known = Elements
  /\ \A e \in Elements : IsFunc(known[e]) /\ DOMAIN known[e] = Camels

\* By its camelCase, an entry holds what is known, and camelCase leaves its keys alone.
Tells(entry, knows) ==
  /\ DOMAIN entry.user \subseteq Camels /\ Stable(DOMAIN entry.user)
  /\ \A c \in Camels : knows[c] = IF c \in DOMAIN entry.user THEN entry.user[c] ELSE Missing

KnownOnes == \A e \in Elements \ asIs : Tells(EntryOf(e), known[e])

IInv == Keys /\ Entries /\ KnownOnes

\* What KeptApart says of a step.
Kept ==
  /\ lastCall' = "public" => \A e \in Elements : \A p \in DOMAIN EntryOf(e).own :
       p \in DOMAIN (EntryOf(e).own)' /\ (EntryOf(e).own)'[p] = EntryOf(e).own[p]
  /\ lastCall' = "private" => \A e \in Elements : (EntryOf(e).user)' = EntryOf(e).user

\* The entry of e becomes another one, those of the others stay.
Becomes(e, entry) == \A x \in Elements : EntryOf(x)' = IF x = e THEN entry ELSE EntryOf(x)
-----------------------------------------------------------------------------
\* What Without returns.
LEMMA WithoutIs ==
  ASSUME NEW f, NEW S
  PROVE  /\ IsFunc(Without(f, S)) /\ DOMAIN Without(f, S) = DOMAIN f \ S
         /\ \A y \in DOMAIN f \ S : Without(f, S)[y] = f[y]
BY DEF Without, IsFunc

LEMMA EmptyIs ==
  /\ IsEntry(Empty) /\ DOMAIN Empty.own = {} /\ DOMAIN Empty.user = {}
  /\ Empty.own = Nothing /\ Empty.user = Nothing
  /\ \A e : Fits(e, Empty)
  /\ \A f : IsFunc(f) /\ DOMAIN f = {} => f = Nothing
  /\ Tells(Empty, Unknown) /\ IsFunc(Unknown) /\ DOMAIN Unknown = Camels
BY DEF Empty, Nothing, IsEntry, IsFunc, Fits, Tells, Unknown, Stable

\* An entry with another part.
LEMMA EntryParts ==
  ASSUME NEW entry, IsEntry(entry), NEW f, IsFunc(f)
  PROVE  /\ IsEntry([entry EXCEPT !.user = f]) /\ IsEntry([entry EXCEPT !.own = f])
         /\ [entry EXCEPT !.user = f].own = entry.own /\ [entry EXCEPT !.user = f].user = f
         /\ [entry EXCEPT !.own = f].user = entry.user /\ [entry EXCEPT !.own = f].own = f
BY DEF IsEntry

\* The entry that a key leads to.
LEMMA KeysApart ==
  ASSUME DataAssumption, Keys, NEW e \in Elements, NEW x \in Elements, x # e, HasEntry(e)
  PROVE  Key(x) # Key(e)
<1>1. Key(e) # 0
  BY DEF HasEntry, Keys
<1>2. CASE KindOf[e] = "object"
  BY <1>2 DEF Key, DataAssumption, Keys
<1>3. CASE KindOf[e] # "object"
  BY <1>1, <1>3 DEF Key, DataAssumption, Keys
<1> QED BY <1>2, <1>3

\* Writing changes the entry of one element, whether it had one or gets a key for it.
LEMMA Written ==
  ASSUME DataAssumption, Keys, NEW e \in Elements, NEW entry, IsEntry(entry), Write(e, entry)
  PROVE  Keys' /\ Becomes(e, entry)
<1> DEFINE new == ~HasEntry(e) /\ e \in Nodes
           k   == IF new THEN uuid + 1 ELSE Key(e)
<1>1. cache' = With(cache, k, entry)
  BY DEF Write
<1>2. /\ DOMAIN cache' = DOMAIN cache \cup {k} /\ cache'[k] = entry /\ IsFunc(cache')
      /\ \A j \in DOMAIN cache : j # k => cache'[j] = cache[j]
  <2> HIDE DEF k
  <2>1. IsFunc(cache') /\ DOMAIN cache' = DOMAIN cache \cup {k}
    BY <1>1 DEF With, IsFunc
  <2>2. cache'[k] = entry /\ \A j \in DOMAIN cache : j # k => cache'[j] = cache[j]
    BY <1>1 DEF With
  <2> QED BY <2>1, <2>2
<1>3. /\ uuid' \in Nat /\ uuid' <= MaxId /\ uuid <= uuid' /\ expando' \in [Elements -> Nat]
      /\ new => uuid' = uuid + 1
      /\ \A x \in Elements : expando'[x] = IF new /\ x = e THEN uuid + 1 ELSE expando[x]
  BY DEF Write, Keys, DataAssumption
<1>4. Key(e)' = k /\ k # 0
  <2>1. CASE new
    BY <1>3, <2>1 DEF Key, Nodes, Keys
  <2>2. CASE ~new
    <3>1. Key(e)' = Key(e)
      BY <1>3, <2>2 DEF Key
    <3>2. Key(e) # 0
      BY <2>2 DEF HasEntry, Keys, Nodes, Key, DataAssumption
    <3> QED BY <2>2, <3>1, <3>2
  <2> QED BY <2>1, <2>2
<1>5. ASSUME NEW x \in Elements, x # e
      PROVE  Key(x)' = Key(x) /\ Key(x) # k
  <2>1. Key(x)' = Key(x)
    BY <1>3, <1>5 DEF Key
  <2>2. CASE new
    <3>1. KindOf[x] = "object" => Key(x) \notin Nat
      BY DEF Key, DataAssumption
    <3>2. KindOf[x] # "object" => Key(x) \in Nat /\ Key(x) <= uuid
      BY DEF Key, Keys
    <3>3. k \in Nat /\ k > uuid /\ uuid \in Nat
      BY <2>2 DEF Keys
    <3> HIDE DEF k, new
    <3> QED BY <2>1, <3>1, <3>2, <3>3
  <2>3. CASE HasEntry(e)
    BY <1>5, <2>1, <2>3, KeysApart
  <2>4. CASE ~HasEntry(e) /\ e \notin Nodes
    BY <1>5, <2>1, <2>4 DEF Key, Nodes, Keys, DataAssumption
  <2> QED BY <2>2, <2>3, <2>4
<1> HIDE DEF k, new
<1>6. Becomes(e, entry)
  <2> SUFFICES ASSUME NEW x \in Elements
               PROVE  EntryOf(x)' = IF x = e THEN entry ELSE EntryOf(x)
    BY DEF Becomes
  <2>1. CASE x = e
    BY <1>2, <1>4, <2>1 DEF EntryOf, HasEntry
  <2>2. CASE x # e
    BY <1>2, <1>5, <2>2 DEF EntryOf, HasEntry
  <2> QED BY <2>1, <2>2
<1>7. Keys'
  <2>1. \A j \in DOMAIN cache' : j # 0 /\ IsEntry(cache'[j]) /\ \E x \in Elements : Key(x)' = j
    <3>1. IsEntry(cache'[k]) /\ Key(e)' = k /\ k # 0
      BY <1>2, <1>4
    <3>2. ASSUME NEW j \in DOMAIN cache, j # k
          PROVE  j # 0 /\ IsEntry(cache'[j]) /\ \E x \in Elements : Key(x)' = j
      <4>1. PICK x \in Elements : Key(x) = j
        BY DEF Keys
      <4>2. j # 0 /\ IsEntry(cache'[j])
        BY <1>2, <3>2 DEF Keys
      <4>3. CASE x = e
        <5>1. HasEntry(e) /\ Key(e) = j
          BY <4>1, <4>3 DEF HasEntry
        <5> QED BY <3>2, <5>1 DEF k, new
      <4>4. CASE x # e
        BY <1>5, <4>1, <4>2, <4>4
      <4> QED BY <4>3, <4>4
    <3> QED BY <1>2, <3>1, <3>2
  <2>2. ASSUME NEW x \in Elements
        PROVE  /\ expando'[x] <= uuid'
               /\ expando'[x] # 0 => x \in Nodes /\ expando'[x] \in DOMAIN cache'
    <3>1. CASE new /\ x = e
      <4>1. x \in Nodes /\ expando'[x] = uuid + 1 /\ k = uuid + 1 /\ uuid' = uuid + 1
        BY <1>3, <3>1 DEF new, k
      <4> QED BY <1>2, <1>3, <4>1
    <3>2. CASE ~(new /\ x = e)
      <4>1. expando'[x] = expando[x] /\ expando[x] <= uuid /\ expando[x] \in Nat /\ uuid \in Nat
        BY <1>3, <3>2 DEF Keys
      <4>2. expando[x] # 0 => x \in Nodes /\ expando[x] \in DOMAIN cache
        BY DEF Keys
      <4> QED BY <1>2, <1>3, <4>1, <4>2
    <3> QED BY <3>1, <3>2
  <2>3. ASSUME NEW x \in Elements, NEW y \in Elements, x # y, expando'[x] = expando'[y]
        PROVE  expando'[x] = 0
    <3>1. \A z \in Elements : expando[z] \in Nat /\ expando[z] <= uuid /\ uuid \in Nat
      BY DEF Keys
    <3> QED BY <1>3, <2>3, <3>1 DEF Keys
  <2> QED BY <1>2, <1>3, <2>1, <2>2, <2>3 DEF Keys
<1> QED BY <1>6, <1>7

\* Destroying leaves the element without an entry.
LEMMA Destroyed ==
  ASSUME DataAssumption, Keys, NEW e \in Elements, HasEntry(e), Destroy(e)
  PROVE  Keys' /\ Becomes(e, Empty)
<1>1. /\ DOMAIN cache' = DOMAIN cache \ {Key(e)} /\ IsFunc(cache')
      /\ \A j \in DOMAIN cache \ {Key(e)} : cache'[j] = cache[j]
  BY WithoutIs DEF Destroy
<1>2. /\ uuid' = uuid /\ expando' \in [Elements -> Nat]
      /\ \A x \in Elements : expando'[x] = IF x = e THEN 0 ELSE expando[x]
  BY DEF Destroy, Keys
<1>3. \A x \in Elements : x # e => Key(x)' = Key(x) /\ Key(x) # Key(e)
  BY <1>2, KeysApart DEF Key
<1>4. ~HasEntry(e)'
  BY <1>1, <1>2 DEF HasEntry, Key, Keys
<1>5. Becomes(e, Empty)
  BY <1>1, <1>3, <1>4 DEF Becomes, EntryOf, HasEntry
<1>6. \A j \in DOMAIN cache' : j # 0 /\ IsEntry(cache'[j]) /\ \E x \in Elements : Key(x)' = j
  <2> SUFFICES ASSUME NEW j \in DOMAIN cache'
               PROVE  j # 0 /\ IsEntry(cache'[j]) /\ \E x \in Elements : Key(x)' = j
    OBVIOUS
  <2>1. j \in DOMAIN cache /\ j # Key(e) /\ cache'[j] = cache[j]
    BY <1>1
  <2>2. PICK x \in Elements : Key(x) = j
    BY <2>1 DEF Keys
  <2> QED BY <1>3, <2>1, <2>2 DEF Keys
<1>7. \A x \in Elements : expando'[x] <= uuid /\ (expando'[x] # 0 => x \in Nodes /\ expando'[x] \in DOMAIN cache')
  <2> SUFFICES ASSUME NEW x \in Elements
               PROVE  expando'[x] <= uuid /\ (expando'[x] # 0 => x \in Nodes /\ expando'[x] \in DOMAIN cache')
    OBVIOUS
  <2>1. CASE x = e
    BY <1>2, <2>1 DEF Keys
  <2>2. CASE x # e
    <3>1. expando'[x] = expando[x] /\ expando[x] <= uuid
          /\ (expando[x] # 0 => x \in Nodes /\ expando[x] \in DOMAIN cache)
      BY <1>2, <2>2 DEF Keys
    <3>2. expando[x] # 0 => Key(x) = expando[x]
      BY <3>1 DEF Key, Nodes
    <3> QED BY <1>1, <1>3, <2>2, <3>1, <3>2
  <2> QED BY <2>1, <2>2
<1>8. \A x, y \in Elements : x # y /\ expando'[x] = expando'[y] => expando'[x] = 0
  BY <1>2 DEF Keys
<1> QED BY <1>1, <1>2, <1>5, <1>6, <1>7, <1>8 DEF Keys

\* A removal leaves what it was meant to leave.
LEMMA Rested ==
  ASSUME DataAssumption, Keys, NEW e \in Elements, NEW entry, IsEntry(entry), WriteRest(e, entry),
         ~HasEntry(e) => entry = Empty
  PROVE  Keys' /\ Becomes(e, entry)
<1>1. CASE ~HasEntry(e)
  <2>1. UNCHANGED <<uuid, expando, cache>> /\ EntryOf(e) = Empty
    BY <1>1 DEF WriteRest, EntryOf
  <2> QED BY <1>1, <2>1 DEF Keys, Becomes, EntryOf, HasEntry, Key
<1>2. CASE HasEntry(e) /\ entry = Empty
  BY <1>2, Destroyed DEF WriteRest
<1>3. CASE HasEntry(e) /\ entry # Empty
  BY <1>3, Written DEF WriteRest
<1> QED BY <1>1, <1>2, <1>3
-----------------------------------------------------------------------------
Learns(e, new) == known' = [known EXCEPT ![e] = new]

\* Kept, by what becomes of one entry.
KeptOf(e, entry) ==
  /\ lastCall' = "public" => \A p \in DOMAIN EntryOf(e).own :
       p \in DOMAIN entry.own /\ entry.own[p] = EntryOf(e).own[p]
  /\ lastCall' = "private" => entry.user = EntryOf(e).user

\* A call gives one element another entry and knows what is in it.
LEMMA Changed ==
  ASSUME IInv, NEW e \in Elements, NEW entry, Fits(e, entry), Becomes(e, entry),
         NEW new, IsFunc(new), DOMAIN new = Camels, Learns(e, new), Keys',
         e \in made', made \subseteq made', made' \subseteq made \cup {e},
         asIs' \subseteq made', \A x \in Elements : x # e => (x \in asIs' <=> x \in asIs),
         e \notin asIs' => Tells(entry, new), KeptOf(e, entry),
         \A x \in Elements : DOMAIN attributes'[x] \subseteq {Dashed[n] : n \in Names},
         DOMAIN attributes' = Elements
  PROVE  IInv' /\ Kept
<1>1. \A x \in Elements : EntryOf(x)' = IF x = e THEN entry ELSE EntryOf(x)
  BY DEF Becomes
<1>2. /\ IsFunc(known') /\ DOMAIN known' = Elements
      /\ \A x \in Elements : known'[x] = IF x = e THEN new ELSE known[x]
  BY DEF Learns, IInv, Entries, IsFunc
<1>3. Entries'
  <2>1. \A x \in Elements : Fits(x, EntryOf(x)')
    BY <1>1 DEF IInv, Entries
  <2>2. \A x \in Elements \ made' : EntryOf(x)' = Empty /\ known'[x] = Unknown
    BY <1>1, <1>2 DEF IInv, Entries
  <2>3. \A x \in Elements : IsFunc(known'[x]) /\ DOMAIN known'[x] = Camels
    BY <1>2 DEF IInv, Entries
  <2>4. asIs' \subseteq made' /\ made' \subseteq Elements
    BY DEF IInv, Entries
  <2> QED BY <1>2, <2>1, <2>2, <2>3, <2>4 DEF Entries, Fits
<1>4. KnownOnes'
  <2>1. ASSUME NEW x \in Elements \ asIs'
        PROVE  Tells(EntryOf(x)', known'[x])
    <3>1. CASE x = e
      BY <1>1, <1>2, <2>1, <3>1
    <3>2. CASE x # e
      BY <1>1, <1>2, <2>1, <3>2 DEF IInv, KnownOnes
    <3> QED BY <3>1, <3>2
  <2> QED BY <2>1 DEF KnownOnes, Tells
<1>5. Kept
  BY <1>1 DEF Kept, KeptOf
<1> QED BY <1>3, <1>4, <1>5 DEF IInv

\* A call that neither writes nor learns.
LEMMA Unchanged ==
  ASSUME IInv, UNCHANGED <<uuid, expando, cache, known, asIs>>,
         made \subseteq made', made' \subseteq Elements,
         \A x \in Elements : DOMAIN attributes'[x] \subseteq {Dashed[n] : n \in Names},
         DOMAIN attributes' = Elements
  PROVE  IInv' /\ Kept
<1>1. \A x : EntryOf(x)' = EntryOf(x) /\ Key(x)' = Key(x)
  BY DEF EntryOf, HasEntry, Key
<1>2. Keys'
  BY <1>1 DEF IInv, Keys
<1>3. Entries'
  <2>1. \A x \in Elements : Fits(x, EntryOf(x)')
    BY <1>1 DEF IInv, Entries
  <2>2. asIs' \subseteq made' /\ \A x \in Elements \ made' : EntryOf(x)' = Empty /\ known'[x] = Unknown
    BY <1>1 DEF IInv, Entries
  <2> QED BY <2>1, <2>2 DEF IInv, Entries, Fits
<1>4. KnownOnes'
  BY <1>1 DEF IInv, KnownOnes, Tells
<1>5. Kept
  BY <1>1 DEF Kept
<1> QED BY <1>2, <1>3, <1>4, <1>5 DEF IInv

\* What is known of one name more, or of one name less.
LEMMA Learnt ==
  ASSUME IInv, NEW e \in Elements, NEW c \in Camels, NEW v
  PROVE  LET new == [known[e] EXCEPT ![c] = v]
         IN  /\ IsFunc(new) /\ DOMAIN new = Camels
             /\ \A d \in Camels : new[d] = IF d = c THEN v ELSE known[e][d]
<1>1. IsFunc(known[e]) /\ DOMAIN known[e] = Camels
  BY DEF IInv, Entries
<1> QED BY <1>1 DEF IsFunc

LEMMA CamelIn ==
  ASSUME DataAssumption, NEW n \in Names
  PROVE  /\ Camel[n] \in Camels /\ Camel[n] \in Names /\ Camels \subseteq Names
         /\ Dashed[n] \in Names /\ Base[n] \in Names
BY DEF DataAssumption, Camels

LEMMA MarkedIs ==
  ASSUME IInv, NEW e \in made, NEW off, asIs' = Marked(e, off)
  PROVE  /\ asIs' \subseteq made /\ \A x \in Elements : x # e => (x \in asIs' <=> x \in asIs)
         /\ e \notin asIs' => e \notin asIs /\ ~off
BY DEF IInv, Entries, Marked

\* data(name, value): a value under its camelCase.
LEMMA TellKeeps ==
  ASSUME DataAssumption, IInv, NEW e \in made, NEW n \in Names, NEW v,
         Tell(e, n, v), lastCall' = "public", UNCHANGED <<attributes, made>>
  PROVE  IInv' /\ Kept
<1> DEFINE old   == EntryOf(e)
           user  == With(old.user, Camel[n], v)
           entry == [old EXCEPT !.user = user]
           new   == [known[e] EXCEPT ![Camel[n]] = v]
<1>1. e \in Elements /\ Fits(e, old) /\ IsEntry(old)
  BY DEF IInv, Entries, Fits
<1>2. /\ IsFunc(user) /\ DOMAIN user = DOMAIN old.user \cup {Camel[n]} /\ user[Camel[n]] = v
      /\ \A y \in DOMAIN old.user : y # Camel[n] => user[y] = old.user[y]
  <2> HIDE DEF old
  <2> QED BY DEF With, IsFunc
<1>3. Camel[n] \in Camels /\ Camel[n] \in Names
  BY CamelIn
<1>4. Learns(e, new)
  BY DEF Tell, Known, Learns
<1>5. /\ IsFunc(new) /\ DOMAIN new = Camels
      /\ \A d \in Camels : new[d] = IF d = Camel[n] THEN v ELSE known[e][d]
  BY <1>1, <1>3, Learnt
<1>6. Write(e, entry) /\ asIs' = Marked(e, ~Stable({Camel[n]}))
  BY DEF Tell, Put
<1> HIDE DEF user, new, old
<1>7. IsEntry(entry) /\ entry.own = old.own /\ entry.user = user
  BY <1>1, <1>2, EntryParts, ZenonT(40)
<1> HIDE DEF entry
<1>8. Fits(e, entry)
  BY <1>1, <1>2, <1>3, <1>7 DEF Fits
<1>9. Keys' /\ Becomes(e, entry)
  BY <1>1, <1>6, <1>7, Written DEF IInv
<1>10. e \notin asIs' => Tells(entry, new)
  <2> SUFFICES ASSUME e \notin asIs'
               PROVE  Tells(entry, new)
    OBVIOUS
  <2>1. e \notin asIs /\ Camel[Camel[n]] = Camel[n]
    BY <1>6, MarkedIs DEF Stable
  <2>2. Tells(old, known[e])
    BY <1>1, <2>1 DEF IInv, KnownOnes, old
  <2> QED BY <1>2, <1>3, <1>5, <1>7, <2>1, <2>2 DEF Tells, Stable
<1>11. KeptOf(e, entry)
  BY <1>7 DEF KeptOf, old
<1>12. /\ DOMAIN attributes = Elements
       /\ \A x \in Elements : DOMAIN attributes[x] \subseteq {Dashed[m] : m \in Names}
       /\ asIs' \subseteq made /\ \A x \in Elements : x # e => (x \in asIs' <=> x \in asIs)
  BY <1>6, MarkedIs DEF IInv, Entries
<1> QED BY <1>1, <1>4, <1>5, <1>8, <1>9, <1>10, <1>11, <1>12, Changed

LEMMA Bounds ==
  ASSUME IInv
  PROVE  /\ asIs \subseteq made /\ made \subseteq Elements /\ DOMAIN attributes = Elements
         /\ \A x \in Elements : DOMAIN attributes[x] \subseteq {Dashed[n] : n \in Names}
         /\ IsFunc(known) /\ DOMAIN known = Elements
         /\ \A x \in Elements : /\ IsFunc(known[x]) /\ DOMAIN known[x] = Camels
                                /\ Fits(x, EntryOf(x)) /\ IsEntry(EntryOf(x))
BY DEF IInv, Entries, Fits

LEMMA Idle ==
  ASSUME IInv, UNCHANGED <<uuid, expando, cache, known, asIs>>, UNCHANGED <<made, attributes>>
  PROVE  IInv' /\ Kept
BY Unchanged, Bounds
-----------------------------------------------------------------------------
\* data(name): reading an attribute is putting what it says.
LEMMA ReadKeeps ==
  ASSUME DataAssumption, IInv, NEW e \in Elements, NEW n \in Names, Read(e, n)
  PROVE  IInv' /\ Kept
<1> DEFINE m == IF Stored(e, n) = Missing /\ ~HasAttribute(e, n) THEN Base[n] ELSE n
           v == ReadAs[attributes[e][Dashed[m]]]
<1>1. m \in Names
  BY CamelIn
<1>2. /\ e \in made /\ lastCall' = "public" /\ UNCHANGED <<attributes, made>>
      /\ IF Stored(e, m) = Missing /\ HasAttribute(e, m) THEN DataAttr(e, m)
         ELSE UNCHANGED <<uuid, expando, cache, known, asIs>>
  BY DEF Read, DataCall
<1> HIDE DEF m
<1>3. CASE Tell(e, m, v)
  <2> HIDE DEF v
  <2> QED BY <1>1, <1>2, <1>3, TellKeeps
<1>4. CASE UNCHANGED <<uuid, expando, cache, known, asIs>>
  BY <1>2, <1>4, Idle
<1> QED BY <1>2, <1>3, <1>4 DEF DataAttr

LEMMA SetKeeps ==
  ASSUME DataAssumption, IInv, NEW e \in Elements, NEW n \in Names, NEW v, Set(e, n, v)
  PROVE  IInv' /\ Kept
<1>1. e \in made /\ lastCall' = "public" /\ UNCHANGED <<attributes, made>>
  BY DEF Set, DataCall
<1>2. CASE Accepts(e)
  <2>1. Tell(e, n, v)
    BY <1>2 DEF Set
  <2> QED BY <1>1, <2>1, TellKeeps
<1>3. CASE ~Accepts(e)
  BY <1>1, <1>3, Idle DEF Set
<1> QED BY <1>2, <1>3

\* data(): the attributes that no data hides are read, once, in whatever order they come; each
\* is kept, and known, by the camelCase of its name.
LEMMA ReadAllKeeps ==
  ASSUME DataAssumption, IInv, NEW e \in Elements, ReadAll(e)
  PROVE  IInv' /\ Kept
<1> DEFINE old    == EntryOf(e)
           parses == e \in Nodes /\ "parsedAttrs" \notin DOMAIN old.own
           of     == IF parses THEN attributes[e] ELSE Nothing
           own    == IF parses THEN With(old.own, "parsedAttrs", e) ELSE old.own
<1>1. e \in made /\ lastCall' = "public" /\ UNCHANGED <<attributes, made>>
  BY DEF ReadAll, DataCall
<1>2. CASE ~Accepts(e)
  BY <1>1, <1>2, Idle DEF ReadAll
<1>3. CASE Accepts(e)
  <2>1. PICK order \in Injection(DOMAIN of, 1..Cardinality(DOMAIN of)), read \in SUBSET DOMAIN of :
          LET last == LastOf(order, read)
              new  == [k \in DOMAIN last |-> ReadAs[of[Dashed[Camel[last[k]]]]]]
          IN  /\ Write(e, [own |-> own, user |-> [k \in DOMAIN new \cup DOMAIN old.user |->
                                                   IF k \in DOMAIN new THEN new[k] ELSE old.user[k]]])
              /\ known' = [known EXCEPT ![e] =
                             [c \in Camels |-> IF c \in DOMAIN new THEN new[c] ELSE @[c]]]
              /\ asIs' = Marked(e, ~Stable(DOMAIN new))
    BY <1>3 DEF ReadAll
  <2> DEFINE last  == LastOf(order, read)
             new   == [k \in DOMAIN last |-> ReadAs[of[Dashed[Camel[last[k]]]]]]
             user  == [k \in DOMAIN new \cup DOMAIN old.user |->
                         IF k \in DOMAIN new THEN new[k] ELSE old.user[k]]
             entry == [own |-> own, user |-> user]
             knows == [c \in Camels |-> IF c \in DOMAIN new THEN new[c] ELSE known[e][c]]
  <2>2. /\ Write(e, entry) /\ asIs' = Marked(e, ~Stable(DOMAIN new))
        /\ known' = [known EXCEPT ![e] = [c \in Camels |-> IF c \in DOMAIN new THEN new[c] ELSE @[c]]]
    BY <2>1
  <2>3. Fits(e, old) /\ IsEntry(old)
    BY Bounds
  <2>4. DOMAIN new \subseteq Camels /\ IsFunc(new)
    <3>1. DOMAIN of \subseteq Names
      <4>1. DOMAIN attributes[e] \subseteq Names /\ DOMAIN Nothing \subseteq Names
        BY Bounds, CamelIn DEF Nothing
      <4> QED BY <4>1
    <3>2. DOMAIN new = {Camel[Camel[t]] : t \in read}
      BY DEF LastOf
    <3> HIDE DEF of
    <3>3. \A t \in read : Camel[t] \in Names /\ Camel[Camel[t]] \in Camels
      <4> SUFFICES ASSUME NEW t \in read
                   PROVE  Camel[t] \in Names /\ Camel[Camel[t]] \in Camels
        OBVIOUS
      <4>1. t \in Names
        BY <3>1
      <4>2. Camel[t] \in Names
        BY <4>1, CamelIn
      <4> QED BY <4>2, CamelIn
    <3> QED BY <3>2, <3>3 DEF IsFunc
  <2>5. /\ IsFunc(own) /\ DOMAIN own \subseteq Private
        /\ \A p \in DOMAIN old.own : p \in DOMAIN own /\ own[p] = old.own[p]
        /\ "events" \in DOMAIN own => own["events"] = e
    <3> HIDE DEF old
    <3>1. CASE parses
      BY <2>3, <3>1 DEF With, IsFunc, Fits, Private
    <3>2. CASE ~parses
      BY <2>3, <3>2 DEF IsEntry, Fits
    <3> QED BY <3>1, <3>2
  <2> HIDE DEF old, parses, of, own, last, new
  <2>6. IsFunc(user) /\ IsFunc(knows) /\ DOMAIN knows = Camels
    BY DEF IsFunc
  <2>7. Learns(e, knows)
    BY <2>2, Bounds DEF Learns
  <2>8. Fits(e, entry) /\ IsEntry(entry)
    <3>1. DOMAIN user \subseteq Names
      BY <2>3, <2>4, CamelIn DEF Fits, Camels, DataAssumption
    <3>2. entry.own = own /\ entry.user = user /\ IsEntry(entry)
      BY <2>5, <2>6 DEF IsEntry
    <3> HIDE DEF entry, user
    <3> QED BY <2>5, <3>1, <3>2 DEF Fits
  <2>9. e \notin asIs' => Tells(entry, knows)
    <3> SUFFICES ASSUME e \notin asIs'
                 PROVE  Tells(entry, knows)
      OBVIOUS
    <3>1. e \notin asIs /\ Stable(DOMAIN new)
      BY <1>1, <2>2, MarkedIs
    <3>2. Tells(old, known[e])
      BY <3>1 DEF IInv, KnownOnes, old
    <3> QED BY <2>4, <3>1, <3>2 DEF Tells, Stable
  <2>10. KeptOf(e, entry)
    BY <1>1, <2>5 DEF KeptOf, old
  <2> HIDE DEF entry, knows
  <2>11. Keys' /\ Becomes(e, entry)
    BY <2>2, <2>8, Written DEF IInv
  <2>12. asIs' \subseteq made /\ \A x \in Elements : x # e => (x \in asIs' <=> x \in asIs)
    BY <1>1, <2>2, MarkedIs
  <2> QED BY <1>1, <2>6, <2>7, <2>8, <2>9, <2>10, <2>11, <2>12, Changed, Bounds
<1> QED BY <1>2, <1>3

\* data(object): a key that is not in camelCase marks the element.
LEMMA SetObjectKeeps ==
  ASSUME DataAssumption, IInv, NEW e \in Elements, NEW n \in Names, NEW v, SetObject(e, n, v)
  PROVE  IInv' /\ Kept
<1>1. e \in made /\ lastCall' = "public" /\ UNCHANGED <<attributes, made>>
  BY DEF SetObject, DataCall
<1>2. CASE ~Accepts(e)
  BY <1>1, <1>2, Idle DEF SetObject
<1>3. CASE Accepts(e)
  <2> DEFINE old   == EntryOf(e)
             user  == With(old.user, n, v)
             entry == [old EXCEPT !.user = user]
             new   == [known[e] EXCEPT ![Camel[n]] = v]
  <2>1. /\ Write(e, entry) /\ known' = Known(e, n, v)
        /\ asIs' = Marked(e, ~Stable({n}))
    BY <1>3 DEF SetObject
  <2>2. Fits(e, old) /\ IsEntry(old)
    BY Bounds
  <2>3. Learns(e, new) /\ Camel[n] \in Camels
    BY <2>1, CamelIn DEF Known, Learns
  <2>4. /\ IsFunc(new) /\ DOMAIN new = Camels
        /\ \A d \in Camels : new[d] = IF d = Camel[n] THEN v ELSE known[e][d]
    BY <2>3, Learnt
  <2>5. /\ IsFunc(user) /\ DOMAIN user = DOMAIN old.user \cup {n} /\ user[n] = v
        /\ \A y \in DOMAIN old.user : y # n => user[y] = old.user[y]
    <3> HIDE DEF old
    <3> QED BY DEF With, IsFunc
  <2> HIDE DEF old, user, new
  <2>6. IsEntry(entry) /\ entry.own = old.own /\ entry.user = user
    BY <2>2, <2>5, EntryParts, ZenonT(40)
  <2> HIDE DEF entry
  <2>7. Fits(e, entry)
    BY <2>2, <2>5, <2>6 DEF Fits
  <2>8. e \notin asIs' => Tells(entry, new)
    <3>1. e \notin asIs => Tells(old, known[e])
      BY DEF IInv, KnownOnes, old
    <3>2. e \notin asIs' => e \notin asIs /\ Camel[n] = n
      BY <1>1, <2>1, MarkedIs DEF Stable
    <3> QED BY <2>3, <2>4, <2>5, <2>6, <3>1, <3>2 DEF Tells, Stable
  <2>9. KeptOf(e, entry)
    BY <1>1, <2>6 DEF KeptOf, old
  <2>10. Keys' /\ Becomes(e, entry)
    BY <2>1, <2>6, Written DEF IInv
  <2>11. asIs' \subseteq made /\ \A x \in Elements : x # e => (x \in asIs' <=> x \in asIs)
    BY <1>1, <2>1, MarkedIs
  <2> QED BY <1>1, <2>1, <2>3, <2>4, <2>7, <2>8, <2>9, <2>10, <2>11, Changed, Bounds
<1> QED BY <1>2, <1>3

\* A removal from the page's data: what may be forgotten is what goes.
LEMMA TakenAway ==
  ASSUME DataAssumption, IInv, NEW e \in made, NEW S, NEW new, IsFunc(new), DOMAIN new = Camels,
         WriteRest(e, [EntryOf(e) EXCEPT !.user = Without(@, S)]), Learns(e, new), lastCall' = "public",
         e \notin asIs' => /\ DOMAIN EntryOf(e).user \ S \subseteq Camels
                           /\ Stable(DOMAIN EntryOf(e).user \ S)
                           /\ \A c \in Camels : new[c] = IF c \in DOMAIN EntryOf(e).user \ S
                                                        THEN EntryOf(e).user[c] ELSE Missing,
         asIs' \subseteq made, \A x \in Elements : x # e => (x \in asIs' <=> x \in asIs),
         UNCHANGED <<attributes, made>>
  PROVE  IInv' /\ Kept
<1> DEFINE old   == EntryOf(e)
           user  == Without(old.user, S)
           entry == [old EXCEPT !.user = user]
<1>1. e \in Elements /\ Fits(e, old) /\ IsEntry(old)
  BY Bounds
<1>2. WriteRest(e, entry)
  OBVIOUS
<1>3. ~HasEntry(e) => old = Empty
  BY DEF EntryOf
<1>4. KeptOf(e, entry) <=> (lastCall' = "public" => \A p \in DOMAIN old.own :
                              p \in DOMAIN entry.own /\ entry.own[p] = old.own[p])
  BY DEF KeptOf
<1>5. e \notin asIs' => /\ DOMAIN old.user \ S \subseteq Camels /\ Stable(DOMAIN old.user \ S)
                        /\ \A c \in Camels :
                             new[c] = IF c \in DOMAIN old.user \ S THEN old.user[c] ELSE Missing
  OBVIOUS
<1>6. /\ IsFunc(user) /\ DOMAIN user = DOMAIN old.user \ S
      /\ \A y \in DOMAIN old.user \ S : user[y] = old.user[y]
  <2> HIDE DEF old
  <2> QED BY DEF Without, IsFunc
<1> HIDE DEF old, user
<1>7. IsEntry(entry) /\ entry.own = old.own /\ entry.user = user
  BY <1>1, <1>6, EntryParts, ZenonT(40)
<1> HIDE DEF entry
<1>8. ~HasEntry(e) => entry = Empty
  <2>1. ~HasEntry(e) => user = Nothing /\ old.own = Nothing
    BY <1>3, <1>6, EmptyIs
  <2> QED BY <1>7, <2>1 DEF IsEntry, Empty
<1>9. Keys' /\ Becomes(e, entry)
  BY <1>1, <1>2, <1>7, <1>8, Rested DEF IInv
<1>10. Fits(e, entry) /\ KeptOf(e, entry)
  BY <1>1, <1>4, <1>6, <1>7 DEF Fits
<1>11. e \notin asIs' => Tells(entry, new)
  BY <1>5, <1>6, <1>7 DEF Tells
<1> QED BY <1>1, <1>9, <1>10, <1>11, Changed, Bounds

LEMMA RemoveKeeps ==
  ASSUME DataAssumption, IInv, NEW e \in Elements, NEW form, NEW names, NEW first,
         RemoveData(e, form, names, first)
  PROVE  IInv' /\ Kept
<1> DEFINE user  == EntryOf(e).user
           S     == Meant(user, form, names, first)
           meant == {Camel[n] : n \in names}
           new   == [c \in Camels |-> IF c \in meant THEN Missing ELSE known[e][c]]
<1>1. /\ e \in made /\ lastCall' = "public" /\ UNCHANGED <<attributes, made>>
      /\ WriteRest(e, [EntryOf(e) EXCEPT !.user = Without(@, S)])
      /\ known' = [known EXCEPT ![e] = [c \in Camels |-> IF c \in meant THEN Missing ELSE @[c]]]
      /\ asIs' = Marked(e, S # meant)
  BY DEF RemoveData, DataCall
<1> HIDE DEF S, meant
<1>2. Learns(e, new) /\ IsFunc(new) /\ DOMAIN new = Camels
  BY <1>1, Bounds DEF Learns, IsFunc
<1>3. ASSUME e \notin asIs'
      PROVE  /\ DOMAIN user \ S \subseteq Camels /\ Stable(DOMAIN user \ S)
             /\ \A c \in Camels : new[c] = IF c \in DOMAIN user \ S THEN user[c] ELSE Missing
  <2>1. e \notin asIs /\ S = meant
    BY <1>1, <1>3, MarkedIs
  <2>2. Tells(EntryOf(e), known[e])
    BY <2>1 DEF IInv, KnownOnes
  <2> QED BY <2>1, <2>2 DEF Tells, Stable
<1> HIDE DEF new
<1>4. asIs' \subseteq made /\ \A x \in Elements : x # e => (x \in asIs' <=> x \in asIs)
  BY <1>1, MarkedIs
<1> QED BY <1>1, <1>2, <1>3, <1>4, TakenAway

LEMMA RemoveAllKeeps ==
  ASSUME DataAssumption, IInv, NEW e \in Elements, RemoveAll(e)
  PROVE  IInv' /\ Kept
<1> DEFINE S == DOMAIN EntryOf(e).user
<1>1. /\ e \in made /\ lastCall' = "public" /\ UNCHANGED <<attributes, made>>
      /\ WriteRest(e, [EntryOf(e) EXCEPT !.user = Nothing])
      /\ known' = [known EXCEPT ![e] = Unknown] /\ asIs' = asIs \ {e}
  BY DEF RemoveAll, DataCall
<1>2. Without(EntryOf(e).user, S) = Nothing
  BY DEF Without, Nothing
<1>3. WriteRest(e, [EntryOf(e) EXCEPT !.user = Without(@, S)])
  BY <1>1, <1>2
<1>4. Learns(e, Unknown) /\ IsFunc(Unknown) /\ DOMAIN Unknown = Camels
      /\ S \ S \subseteq Camels /\ Stable(S \ S)
      /\ \A c \in Camels : Unknown[c] = IF c \in S \ S THEN EntryOf(e).user[c] ELSE Missing
  BY <1>1, EmptyIs DEF Learns, Unknown, Stable
<1>5. asIs' \subseteq made /\ \A x \in Elements : x # e => (x \in asIs' <=> x \in asIs)
  BY <1>1, Bounds
<1> QED BY <1>1, <1>3, <1>4, <1>5, TakenAway
-----------------------------------------------------------------------------
\* A call of jQuery itself leaves the page's data, and with it what is known.
LEMMA PrivateKeeps ==
  ASSUME DataAssumption, IInv, NEW e \in made, NEW own, IsFunc(own), DOMAIN own \subseteq Private,
         "events" \in DOMAIN own => own["events"] = e, lastCall' = "private",
         LET entry == [EntryOf(e) EXCEPT !.own = own] IN
           Write(e, entry) \/ (WriteRest(e, entry) /\ (~HasEntry(e) => DOMAIN own = {})),
         UNCHANGED <<attributes, made, known, asIs>>
  PROVE  IInv' /\ Kept
<1> DEFINE old   == EntryOf(e)
           entry == [old EXCEPT !.own = own]
<1>1. e \in Elements /\ Fits(e, old) /\ IsEntry(old) /\ (~HasEntry(e) => old = Empty)
  BY Bounds DEF EntryOf
<1>2. Write(e, entry) \/ (WriteRest(e, entry) /\ (~HasEntry(e) => DOMAIN own = {}))
  OBVIOUS
<1>3. e \notin asIs => Tells(old, known[e])
  BY <1>1 DEF IInv, KnownOnes
<1>4. KeptOf(e, entry) <=> (lastCall' = "private" => entry.user = old.user)
  BY DEF KeptOf
<1> HIDE DEF old
<1>5. IsEntry(entry) /\ entry.own = own /\ entry.user = old.user
  BY <1>1, EntryParts
<1> HIDE DEF entry
<1>6. ~HasEntry(e) /\ DOMAIN own = {} => entry = Empty
  <2>1. ~HasEntry(e) /\ DOMAIN own = {} => own = Nothing /\ old.user = Nothing
    BY <1>1, EmptyIs
  <2> QED BY <1>5, <2>1 DEF IsEntry, Empty
<1>7. Keys' /\ Becomes(e, entry)
  BY <1>1, <1>2, <1>5, <1>6, Written, Rested DEF IInv
<1>8. Fits(e, entry) /\ KeptOf(e, entry)
  BY <1>1, <1>4, <1>5 DEF Fits
<1>9. e \notin asIs => Tells(entry, known[e])
  BY <1>3, <1>5 DEF Tells
<1>10. Learns(e, known[e]) /\ IsFunc(known[e]) /\ DOMAIN known[e] = Camels
  BY <1>1, Bounds DEF Learns, IsFunc
<1> QED BY <1>1, <1>7, <1>8, <1>9, <1>10, Changed, Bounds

LEMMA PutPrivateKeeps ==
  ASSUME DataAssumption, IInv, NEW e \in Elements, NEW p \in {"events", "queue"}, PutPrivate(e, p)
  PROVE  IInv' /\ Kept
<1> DEFINE own == With(EntryOf(e).own, p, e)
<1>1. /\ e \in made /\ lastCall' = "private" /\ UNCHANGED <<attributes, made, known, asIs>>
      /\ Write(e, [EntryOf(e) EXCEPT !.own = own])
  BY DEF PutPrivate, DataCall
<1>2. /\ IsFunc(own) /\ DOMAIN own \subseteq Private
      /\ "events" \in DOMAIN own => own["events"] = e
  BY Bounds DEF With, IsFunc, Fits, Private
<1> HIDE DEF own
<1> QED BY <1>1, <1>2, PrivateKeeps

LEMMA RemovePrivateKeeps ==
  ASSUME DataAssumption, IInv, NEW e \in Elements, NEW p, RemovePrivate(e, p)
  PROVE  IInv' /\ Kept
<1> DEFINE own == Without(EntryOf(e).own, {p})
<1>1. /\ e \in made /\ lastCall' = "private" /\ UNCHANGED <<attributes, made, known, asIs>>
      /\ WriteRest(e, [EntryOf(e) EXCEPT !.own = own])
  BY DEF RemovePrivate, DataCall
<1>2. /\ IsFunc(own) /\ DOMAIN own \subseteq Private
      /\ "events" \in DOMAIN own => own["events"] = e
  BY Bounds DEF Without, IsFunc, Fits
<1>3. ~HasEntry(e) => DOMAIN own = {}
  BY EmptyIs DEF EntryOf, Without
<1> HIDE DEF own
<1> QED BY <1>1, <1>2, <1>3, PrivateKeeps

LEMMA SetAttributeKeeps ==
  ASSUME DataAssumption, IInv, NEW e \in Elements, NEW c \in Names, NEW t, SetAttribute(e, c, t)
  PROVE  IInv' /\ Kept
<1>1. /\ UNCHANGED <<uuid, expando, cache, known, asIs>> /\ UNCHANGED made
      /\ attributes' = [attributes EXCEPT ![e] = With(@, Dashed[c], t)]
  BY DEF SetAttribute
<1>2. DOMAIN With(attributes[e], Dashed[c], t) = DOMAIN attributes[e] \cup {Dashed[c]}
  BY DEF With
<1>3. /\ DOMAIN attributes' = Elements
      /\ \A x \in Elements : DOMAIN attributes'[x] \subseteq {Dashed[n] : n \in Names}
  BY <1>1, <1>2, Bounds
<1> QED BY <1>1, <1>3, Unchanged, Bounds

\* A clone gets an entry of its own, with events of its own, and what is known of the original.
LEMMA CloneKeeps ==
  ASSUME DataAssumption, IInv, NEW e \in Elements, NEW copy \in Elements, NEW withData,
         Clone(e, copy, withData)
  PROVE  IInv' /\ Kept
<1> DEFINE old   == EntryOf(e)
           own   == OwnOf(old, copy)
           entry == [own |-> own, user |-> old.user]
<1>1. /\ e \in made /\ copy \notin made /\ lastCall' = "clone" /\ made' = made \cup {copy}
      /\ attributes' = [attributes EXCEPT ![copy] = attributes[e]]
      /\ CloneData(e, copy, withData)
  BY DEF Clone, DataCall
<1>2. /\ made \subseteq made' /\ made' \subseteq Elements /\ DOMAIN attributes' = Elements
      /\ \A x \in Elements : DOMAIN attributes'[x] \subseteq {Dashed[n] : n \in Names}
  BY <1>1, Bounds
<1>3. CASE UNCHANGED <<uuid, expando, cache, known, asIs>>
  BY <1>2, <1>3, Unchanged
<1>4. CASE /\ Write(copy, entry) /\ known' = [known EXCEPT ![copy] = known[e]]
           /\ asIs' = Marked(copy, e \in asIs)
  <2>1. Fits(e, old) /\ IsEntry(old)
    BY Bounds
  <2>2. Learns(copy, known[e]) /\ IsFunc(known[e]) /\ DOMAIN known[e] = Camels
    BY <1>4, Bounds DEF Learns
  <2>3. e \notin asIs => Tells(old, known[e])
    BY DEF IInv, KnownOnes
  <2>4. KeptOf(copy, entry)
    BY <1>1 DEF KeptOf
  <2> HIDE DEF old
  <2>5. /\ IsFunc(own) /\ DOMAIN own \subseteq Private
        /\ "events" \in DOMAIN own => own["events"] = copy
    BY <2>1 DEF OwnOf, IsFunc, Fits
  <2> HIDE DEF own
  <2>6. IsEntry(entry) /\ entry.own = own /\ entry.user = old.user
    BY <2>1, <2>5 DEF IsEntry
  <2> HIDE DEF entry
  <2>7. Fits(copy, entry)
    BY <2>1, <2>5, <2>6 DEF Fits
  <2>8. Keys' /\ Becomes(copy, entry)
    BY <1>4, <2>6, Written DEF IInv
  <2>9. copy \notin asIs' => Tells(entry, known[e])
    BY <1>4, <2>3, <2>6 DEF Tells, Marked
  <2>10. asIs' \subseteq made' /\ \A x \in Elements : x # copy => (x \in asIs' <=> x \in asIs)
    BY <1>1, <1>4, Bounds DEF Marked
  <2> QED BY <1>1, <1>2, <2>2, <2>4, <2>7, <2>8, <2>9, <2>10, Changed
<1> QED BY <1>1, <1>3, <1>4 DEF CloneData

LEMMA CleanKeeps ==
  ASSUME DataAssumption, IInv, NEW e \in Elements, Clean(e)
  PROVE  IInv' /\ Kept
<1>1. e \in made /\ e \in Nodes /\ lastCall' = "clean" /\ UNCHANGED <<attributes, made>>
  BY DEF Clean, DataCall
<1>2. CASE UNCHANGED <<uuid, expando, cache, known, asIs>>
  BY <1>1, <1>2, Idle
<1>3. CASE /\ expando[e] # 0 /\ Destroy(e)
           /\ known' = [known EXCEPT ![e] = Unknown] /\ asIs' = asIs \ {e}
  <2>1. HasEntry(e)
    BY <1>1, <1>3 DEF IInv, Keys, HasEntry, Key, Nodes
  <2>2. Keys' /\ Becomes(e, Empty)
    BY <1>3, <2>1, Destroyed DEF IInv
  <2>3. Learns(e, Unknown)
    BY <1>3 DEF Learns
  <2>4. KeptOf(e, Empty)
    BY <1>1 DEF KeptOf
  <2>5. asIs' \subseteq made' /\ \A x \in Elements : x # e => (x \in asIs' <=> x \in asIs)
    BY <1>1, <1>3, Bounds
  <2> QED BY <1>1, <2>2, <2>3, <2>4, <2>5, Changed, Bounds, EmptyIs
<1> QED BY <1>2, <1>3 DEF Clean
-----------------------------------------------------------------------------
LEMMA InitIInv == ASSUME DataAssumption, DataInit PROVE IInv
<1>1. /\ uuid = 0 /\ expando = [e \in Elements |-> 0] /\ cache = Nothing
      /\ attributes = [e \in Elements |-> Nothing] /\ made \subseteq Elements
      /\ known = [e \in Elements |-> Unknown] /\ asIs = {}
  BY DEF DataInit, DataAssumption
<1>2. DOMAIN Nothing = {} /\ IsFunc(Nothing)
  BY DEF Nothing, IsFunc
<1>3. \A e \in Elements : EntryOf(e) = Empty
  BY <1>1, <1>2 DEF EntryOf, HasEntry
<1>4. Keys
  BY <1>1, <1>2 DEF Keys, DataAssumption
<1>5. Entries
  BY <1>1, <1>2, <1>3, EmptyIs DEF Entries, IsFunc
<1>6. KnownOnes
  BY <1>1, <1>3, EmptyIs DEF KnownOnes
<1> QED BY <1>4, <1>5, <1>6 DEF IInv

LEMMA NextKeeps == ASSUME DataAssumption, IInv, DataNext PROVE IInv' /\ Kept
<1>1. PICK e \in Elements :
        \/ ReadAll(e) \/ RemoveAll(e) \/ Clean(e)
        \/ \E n \in Names : Read(e, n)
        \/ \E n \in Names, t \in Texts : SetAttribute(e, n, t)
        \/ \E n \in Names, v \in Values : Set(e, n, v) \/ SetObject(e, n, v)
        \/ \E form \in {"array", "name", "string"}, names \in Together :
             \E first \in names : RemoveData(e, form, names, first)
        \/ \E p \in {"events", "queue"} : PutPrivate(e, p) \/ RemovePrivate(e, p)
        \/ \E copy \in Elements, withData \in BOOLEAN : Clone(e, copy, withData)
  BY DEF DataNext
<1>2. CASE ReadAll(e) \/ RemoveAll(e) \/ Clean(e)
  BY <1>2, ReadAllKeeps, RemoveAllKeeps, CleanKeeps
<1>3. CASE \E n \in Names : Read(e, n)
  BY <1>3, ReadKeeps
<1>4. CASE \E n \in Names, t \in Texts : SetAttribute(e, n, t)
  BY <1>4, SetAttributeKeeps
<1>5. CASE \E n \in Names, v \in Values : Set(e, n, v) \/ SetObject(e, n, v)
  BY <1>5, SetKeeps, SetObjectKeeps
<1>6. CASE \E form \in {"array", "name", "string"}, names \in Together :
        \E first \in names : RemoveData(e, form, names, first)
  BY <1>6, RemoveKeeps
<1>7. CASE \E p \in {"events", "queue"} : PutPrivate(e, p) \/ RemovePrivate(e, p)
  BY <1>7, PutPrivateKeeps, RemovePrivateKeeps
<1>8. CASE \E copy \in Elements, withData \in BOOLEAN : Clone(e, copy, withData)
  BY <1>8, CloneKeeps
<1> QED BY <1>1, <1>2, <1>3, <1>4, <1>5, <1>6, <1>7, <1>8

LEMMA StutterKeeps == ASSUME IInv, UNCHANGED dataVars PROVE IInv'
<1>1. UNCHANGED <<uuid, expando, cache, known, asIs>> /\ UNCHANGED <<made, attributes>>
  BY DEF dataVars
<1> QED BY <1>1, Idle

LEMMA Invariance == ASSUME DataAssumption PROVE DataSpec => []IInv
<1>1. DataInit => IInv
  BY InitIInv
<1>2. IInv /\ [DataNext]_dataVars => IInv'
  BY NextKeeps, StutterKeeps
<1> QED BY <1>1, <1>2, PTL DEF DataSpec
-----------------------------------------------------------------------------
\* What the invariant says of the cache, of the clones' events and of what data returns.
LEMMA StateParts ==
  ASSUME DataAssumption, IInv
  PROVE  OwnEntry /\ EventsApart /\ ReadsWhatIsKnown
<1>1. OwnEntry
  BY DEF IInv, Keys, OwnEntry, Nodes
<1>2. EventsApart
  BY DEF IInv, Entries, Fits, EventsApart
<1>3. ReadsWhatIsKnown
  <2> SUFFICES ASSUME NEW e \in made \ asIs, NEW n \in Names
               PROVE  Stored(e, n) = IF n = "events" /\ known[e][n] \in Falsy THEN OwnEvents(e)
                                     ELSE known[e][Camel[n]]
    BY DEF ReadsWhatIsKnown
  <2> DEFINE user == EntryOf(e).user
  <2>1. /\ \A c \in Camels : known[e][c] = IF c \in DOMAIN user THEN user[c] ELSE Missing
        /\ \A k \in DOMAIN user : Camel[k] = k
    BY DEF IInv, Entries, KnownOnes, Tells, Stable
  <2>2. known[e][Camel[n]] = IF Camel[n] \in DOMAIN user THEN user[Camel[n]] ELSE Missing
    BY <2>1, CamelIn
  <2>3. ByName(user, n) = known[e][Camel[n]]
    BY <2>1, <2>2 DEF ByName
  <2>4. n = "events" => Camel[n] = n /\ Missing \in Falsy
    BY DEF DataAssumption
  <2> HIDE DEF user
  <2>5. n = "events" => (known[e][n] \in Falsy <=> ~(n \in DOMAIN user /\ user[n] \notin Falsy))
    BY <2>2, <2>4
  <2> QED BY <2>3, <2>5 DEF Stored, user
<1> QED BY <1>1, <1>2, <1>3

LEMMA TypeParts ==
  ASSUME DataAssumption, IInv
  PROVE  DataTypeOK
<1>1. uuid \in 0..MaxId /\ expando \in [Elements -> 0..MaxId]
  BY DEF IInv, Keys, DataAssumption
<1>2. ASSUME NEW k \in DOMAIN cache
      PROVE  /\ k \in 1..MaxId \cup {e \in Elements : KindOf[e] = "object"}
             /\ DOMAIN cache[k].own \subseteq Private /\ DOMAIN cache[k].user \subseteq Names
  <2>1. k # 0 /\ \E e \in Elements : Key(e) = k
    BY DEF IInv, Keys
  <2>2. PICK e \in Elements : Key(e) = k
    BY <2>1
  <2>3. DOMAIN cache[k].own \subseteq Private /\ DOMAIN cache[k].user \subseteq Names
    <3>1. EntryOf(e) = cache[k]
      BY <2>2 DEF EntryOf, HasEntry
    <3> QED BY <3>1, Bounds DEF Fits
  <2>4. CASE KindOf[e] = "object"
    BY <2>2, <2>3, <2>4 DEF Key
  <2>5. CASE KindOf[e] # "object"
    <3>1. expando[e] = k /\ expando[e] \in 0..MaxId
      BY <1>1, <2>2, <2>5 DEF Key
    <3> QED BY <2>1, <2>3, <3>1 DEF DataAssumption
  <2> QED BY <2>4, <2>5
<1>3. \A e \in made \ asIs : DOMAIN EntryOf(e).user \subseteq Camels /\ Stable(DOMAIN EntryOf(e).user)
  BY Bounds DEF IInv, KnownOnes, Tells
<1> QED BY <1>1, <1>2, <1>3, Bounds DEF DataTypeOK

\* Keys that are used once, entries of what jQuery and the page may store, under keys that
\* camelCase leaves alone, but where a call stored or removed others.
THEOREM DataTypeCorrect ==
  ASSUME DataAssumption
  PROVE  DataSpec => []DataTypeOK
<1>1. IInv => DataTypeOK
  BY TypeParts
<1> QED BY <1>1, Invariance, PTL

\* jQuery.data, removeData, acceptData, data, dataAttr, cloneCopyEvent, cleanData: entries of
\* the cache and elements belong to each other one to one, clones share no events, a name is
\* found to be what it was last known to be however it is spelled, jQuery's events by theirs
\* if that is nothing true, and neither the page's calls nor jQuery's own take anything from
\* the data of the other.  camelCase may be any function: elements of which a call stored or
\* removed another key than a camelCase that it leaves alone are excepted from what is found.
THEOREM DataStaysApart ==
  ASSUME DataAssumption
  PROVE  DataSpec => DataApart
<1>1. IInv => OwnEntry /\ EventsApart /\ ReadsWhatIsKnown
  BY StateParts
<1>2. IInv /\ [DataNext]_dataVars => [Kept]_dataVars
  BY NextKeeps
<1>3. DataSpec => [](OwnEntry /\ EventsApart /\ ReadsWhatIsKnown)
  BY <1>1, Invariance, PTL
<1>4. DataSpec => [][Kept]_dataVars
  BY <1>2, Invariance, PTL DEF DataSpec
<1>5. DataSpec => KeptApart
  BY <1>4 DEF KeptApart, Kept
<1> QED BY <1>3, <1>5 DEF DataApart
-----------------------------------------------------------------------------
Items == [way : Ways, instant : BOOLEAN]

\* What a node is in the middle of a dequeue: a show may still be called.
NodeInTurn ==
  [style : Displays \cup {"", "none"}, sheet : Displays \cup {"none"}, sized : BOOLEAN,
   old : Displays \cup {Absent}, size : 0..Full, fxshow : 0..Full \cup {Absent},
   toggle : {"show", "hide", Absent}, waiting : Seq(Items),
   run : [way : {"show", "hide", "none"}, orig : 0..Full, start : 0..Full, end : 0..Full],
   shows : BOOLEAN]

\* Nothing waits for an animation that is not there.
RunShaped(n) == n.run.way = "none" => n.run = NoRun
Settled(n) == RunShaped(n) /\ (n.run = NoRun => n.waiting = <<>>)

\* The displays that an element may have that looked like L.
Looks(n, L) == {L} \cup (IF n.sized /\ L = "inline" THEN {"inline-block"} ELSE {})

\* What was kept is a look of the element; until something is kept it shows without an
\* inline display.
LooksKept(n, L) ==
  /\ n.old \in Looks(n, L) \cup {Absent}
  /\ n.style \in Looks(n, L) \cup {"", "none"}
  /\ n.style = "" => n.old = Absent
  /\ n.old = Absent /\ n.style \in {"", "none"} =>
       L = IF n.sheet = "none" THEN DefaultDisplay ELSE n.sheet

SizeIn(n) ==
  IF n.run = NoRun THEN n.fxshow = Full \/ (n.fxshow = Absent /\ n.size = Full)
  ELSE /\ n.run.orig = Full /\ n.fxshow \in {Full, Absent}
       /\ n.run.way = "hide" /\ n.fxshow = Absent => n.run.start = Full

\* An animation runs on what is shown, and leads to what w says with those that wait.
LeadsTo(n, w) ==
  IF n.run = NoRun THEN n.toggle = Absent /\ (Hidden(n) <=> w = "hide")
  ELSE ~Hidden(n) /\ w = AskedLast(n.run.way, n.waiting)

DisplayInv ==
  /\ DisplayTypeOK
  /\ bare \in {BrowserDisplay, "none"}
  /\ \A e \in Boxes : Settled(node[e])
  /\ \A e \in Boxes \ touched : LooksKept(node[e], look[e])
  /\ \A e \in Boxes \ lost : SizeIn(node[e])
  /\ \A e \in Boxes \ crossed : LeadsTo(node[e], asked[e])

\* What a change of display leaves alone.
SameMotion(n, m) ==
  /\ m.sheet = n.sheet /\ m.sized = n.sized /\ m.size = n.size /\ m.fxshow = n.fxshow
  /\ m.toggle = n.toggle /\ m.waiting = n.waiting /\ m.run = n.run /\ m.shows = n.shows

LEMMA Restyled ==
  ASSUME NEW n \in NodeInTurn, NEW s \in Displays \cup {"", "none"}
  PROVE  /\ [n EXCEPT !.style = s] \in NodeInTurn /\ SameMotion(n, [n EXCEPT !.style = s])
         /\ [n EXCEPT !.style = s].style = s /\ [n EXCEPT !.style = s].old = n.old
BY DEF NodeInTurn, SameMotion

LEMMA ShownByTyped ==
  ASSUME DisplayAssumption, bare \in {BrowserDisplay, "none"}, NEW n \in NodeInTurn
  PROVE  /\ ShownBy(n) \in NodeInTurn /\ SameMotion(n, ShownBy(n)) /\ ~Hidden(ShownBy(n))
<1> DEFINE first == IF AsksDefault(n) THEN [Unhidden(n) EXCEPT !.old = DefaultDisplay] ELSE Unhidden(n)
<1>1. DefaultDisplay \in Displays
  BY DEF DefaultDisplay, DisplayAssumption
<1>2. Unhidden(n) \in NodeInTurn /\ SameMotion(n, Unhidden(n)) /\ Unhidden(n).old = n.old
  BY DEF NodeInTurn, Unhidden, SameMotion
<1>3. first \in NodeInTurn /\ SameMotion(n, first) /\ first.style = Unhidden(n).style
  BY <1>1, <1>2, ZenonT(40) DEF NodeInTurn, SameMotion
<1>4. ShownBy(n) \in NodeInTurn /\ SameMotion(n, ShownBy(n))
  <2> DEFINE style == IF first.old = Absent THEN "" ELSE first.old
  <2>1. ShownBy(n) = IF first.style \in {"", "none"} THEN [first EXCEPT !.style = style] ELSE first
    BY DEF ShownBy
  <2>2. style \in Displays \cup {""}
    BY <1>3 DEF NodeInTurn
  <2> HIDE DEF first, style
  <2>3. /\ [first EXCEPT !.style = style] \in NodeInTurn
        /\ SameMotion(first, [first EXCEPT !.style = style])
    BY <1>3, <2>2, Restyled
  <2>4. ShownBy(n) \in NodeInTurn /\ SameMotion(first, ShownBy(n))
    BY <1>3, <2>1, <2>3 DEF SameMotion
  <2> QED BY <1>3, <2>4 DEF SameMotion
<1>5. ShownBy(n).style # "none"
  <2>1. CASE AsksDefault(n)
    BY <1>1, <2>1, <1>3 DEF ShownBy, NodeInTurn, AsksDefault, DisplayAssumption
  <2>2. CASE ~AsksDefault(n)
    BY <2>2, <1>2 DEF ShownBy, NodeInTurn, Unhidden, DisplayAssumption
  <2> QED BY <2>1, <2>2
<1>6. ShownBy(n).style = "" => n.sheet # "none"
  <2>1. CASE AsksDefault(n)
    BY <1>1, <2>1, <1>3 DEF ShownBy, NodeInTurn, AsksDefault, DisplayAssumption
  <2>2. CASE ~AsksDefault(n)
    <3>1. ShownBy(n).style = "" => Unhidden(n).style = ""
      BY <2>2, <1>2 DEF ShownBy, NodeInTurn, Unhidden, DisplayAssumption
    <3> QED BY <2>2, <1>2, <3>1 DEF AsksDefault, Hidden, Display, SameMotion
  <2> QED BY <2>1, <2>2
<1>7. ~Hidden(ShownBy(n))
  BY <1>4, <1>5, <1>6 DEF Hidden, Display, SameMotion
<1> QED BY <1>4, <1>7

LEMMA ShownByLooks ==
  ASSUME DisplayAssumption, bare \in {BrowserDisplay, "none"}, NEW n \in NodeInTurn,
         NEW L \in Displays, LooksKept(n, L)
  PROVE  LooksKept(ShownBy(n), L)
<1>1. SameMotion(n, ShownBy(n)) /\ Looks(ShownBy(n), L) = Looks(n, L)
  BY ShownByTyped DEF SameMotion, Looks
<1>2. Unhidden(n).old = n.old
  BY DEF NodeInTurn, Unhidden
<1>3. CASE AsksDefault(n)
  <2>1. n.old = Absent /\ n.sheet = "none" /\ n.style \in {"", "none"}
    BY <1>3 DEF AsksDefault, Unhidden, NodeInTurn, Hidden, Display, LooksKept, DisplayAssumption
  <2>2. DefaultDisplay = L
    BY <2>1 DEF LooksKept
  <2>3. ShownBy(n).old = L /\ ShownBy(n).style = L
    BY <1>3, <2>2 DEF ShownBy, AsksDefault, Unhidden, NodeInTurn, DisplayAssumption
  <2> QED BY <1>1, <2>3 DEF LooksKept, Looks, DisplayAssumption
<1>4. CASE ~AsksDefault(n)
  <2>1. ShownBy(n).old = n.old
    BY <1>2, <1>4 DEF ShownBy, Unhidden, NodeInTurn
  <2>2. CASE n.style \in {"", "none"} /\ n.old = Absent
    <3>1. ShownBy(n).style = ""
      BY <1>4, <2>2 DEF ShownBy, Unhidden, NodeInTurn, DisplayAssumption
    <3> QED BY <1>1, <2>1, <2>2, <3>1 DEF LooksKept, SameMotion
  <2>3. CASE n.style \in {"", "none"} /\ n.old # Absent
    <3>1. ShownBy(n).style = n.old
      BY <1>4, <2>3 DEF ShownBy, Unhidden, NodeInTurn, DisplayAssumption
    <3>2. n.old \in Displays
      BY <2>3 DEF NodeInTurn
    <3> QED BY <1>1, <2>1, <2>3, <3>1, <3>2 DEF LooksKept, DisplayAssumption
  <2>4. CASE n.style \notin {"", "none"}
    <3>1. ShownBy(n).style = n.style
      BY <1>4, <2>4 DEF ShownBy, Unhidden, NodeInTurn, DisplayAssumption
    <3> QED BY <1>1, <2>1, <2>4, <3>1 DEF LooksKept
  <2> QED BY <2>2, <2>3, <2>4
<1> QED BY <1>3, <1>4

LEMMA HiddenByTyped ==
  ASSUME DisplayAssumption, NEW n \in NodeInTurn
  PROVE  HiddenBy(n) \in NodeInTurn /\ SameMotion(n, HiddenBy(n)) /\ Hidden(HiddenBy(n))
BY DEF HiddenBy, NodeInTurn, SameMotion, Hidden, Display, DisplayAssumption

LEMMA HiddenByLooks ==
  ASSUME DisplayAssumption, NEW n \in NodeInTurn, NEW L \in Displays, LooksKept(n, L)
  PROVE  LooksKept(HiddenBy(n), L)
BY DEF HiddenBy, NodeInTurn, Hidden, Display, DisplayAssumption, LooksKept, Looks

Runs == [way : {"show", "hide", "none"}, orig : 0..Full, start : 0..Full, end : 0..Full]

\* The last step of an animation.
LEMMA EndedFacts ==
  ASSUME DisplayAssumption, NEW n \in NodeInTurn
  PROVE  /\ Ended(n) \in NodeInTurn /\ Ended(n).run = NoRun /\ Ended(n).toggle = Absent
         /\ Ended(n).size = n.run.orig /\ Ended(n).fxshow = Absent
         /\ Ended(n).waiting = n.waiting /\ Ended(n).shows = n.shows
         /\ Hidden(Ended(n)) <=> n.run.way = "hide" \/ Hidden(n)
         /\ \A L \in Displays : LooksKept(n, L) => LooksKept(Ended(n), L)
<1> DEFINE hid == IF n.run.way = "hide" THEN HiddenBy(n) ELSE n
<1>1. hid \in NodeInTurn /\ SameMotion(n, hid)
  BY HiddenByTyped DEF SameMotion
<1>2. Hidden(hid) <=> n.run.way = "hide" \/ Hidden(n)
  BY HiddenByTyped
<1>3. \A L \in Displays : LooksKept(n, L) => LooksKept(hid, L)
  BY HiddenByLooks
<1>4. n.run.orig \in 0..Full /\ NoRun \in Runs
  <2>1. Full \in Nat
    BY DEF DisplayAssumption
  <2>2. NoRun \in Runs
    BY <2>1 DEF NoRun, Runs
  <2> QED BY <2>2 DEF NodeInTurn
<1>5. Ended(n) = [hid EXCEPT !.size = n.run.orig, !.fxshow = Absent, !.toggle = Absent, !.run = NoRun]
  BY DEF Ended
<1> HIDE DEF hid
<1>6. Ended(n) \in NodeInTurn
  <2>1. [hid EXCEPT !.size = n.run.orig] \in NodeInTurn
    BY <1>1, <1>4 DEF NodeInTurn
  <2>2. [hid EXCEPT !.size = n.run.orig, !.fxshow = Absent] \in NodeInTurn
    BY <2>1 DEF NodeInTurn
  <2>3. [hid EXCEPT !.size = n.run.orig, !.fxshow = Absent, !.toggle = Absent] \in NodeInTurn
    BY <2>2 DEF NodeInTurn
  <2> QED BY <1>4, <1>5, <2>3, ZenonT(40) DEF NodeInTurn, Runs
<1>7. /\ Ended(n).run = NoRun /\ Ended(n).toggle = Absent
      /\ Ended(n).size = n.run.orig /\ Ended(n).fxshow = Absent
      /\ Ended(n).waiting = hid.waiting /\ Ended(n).shows = hid.shows
      /\ Ended(n).style = hid.style /\ Ended(n).old = hid.old
      /\ Ended(n).sheet = hid.sheet /\ Ended(n).sized = hid.sized
  BY <1>1, <1>5 DEF NodeInTurn
<1>8. Hidden(Ended(n)) <=> Hidden(hid)
  BY <1>7 DEF Hidden, Display
<1>9. \A L \in Displays : LooksKept(hid, L) => LooksKept(Ended(n), L)
  BY <1>7 DEF LooksKept, Looks
<1> QED BY <1>1, <1>2, <1>3, <1>6, <1>7, <1>8, <1>9 DEF SameMotion

\* Where an animation begins and ends.
LEMMA RunFacts ==
  ASSUME DisplayAssumption, NEW n \in NodeInTurn
  PROVE  /\ Shows(n) \in Runs /\ Shows(n).way = "show" /\ Hides(n) \in Runs /\ Hides(n).way = "hide"
         /\ Hides(n).start = n.size
         /\ n.fxshow = Full \/ (n.fxshow = Absent /\ n.size = Full) =>
              Shows(n).orig = Full /\ Hides(n).orig = Full
<1>1. n.size \in 0..Full /\ n.fxshow \in 0..Full \cup {Absent} /\ n.sized \in BOOLEAN
  BY DEF NodeInTurn
<1>2. Full \in Nat /\ Full # 0 /\ Absent \notin 0..Full
  BY DEF DisplayAssumption
<1>3. Or(n.fxshow, n.size) \in 0..Full
  BY <1>1, <1>2 DEF Or
<1>4. n.fxshow = Full \/ (n.fxshow = Absent /\ n.size = Full) => Or(n.fxshow, n.size) = Full
  BY <1>1, <1>2 DEF Or
<1>5. Shows(n) \in Runs /\ Shows(n).way = "show" /\ Shows(n).orig = Or(n.fxshow, n.size)
  BY <1>1, <1>2, <1>3 DEF Shows, Runs
<1>6. /\ Hides(n) \in Runs /\ Hides(n).way = "hide" /\ Hides(n).orig = Or(n.fxshow, n.size)
      /\ Hides(n).start = n.size
  BY <1>1, <1>2, <1>3 DEF Hides, Runs
<1> QED BY <1>4, <1>5, <1>6

Inlined(n) == IF n.sized /\ Display(n) = "inline" THEN [n EXCEPT !.style = "inline-block"] ELSE n

LEMMA InlinedFacts ==
  ASSUME DisplayAssumption, NEW n \in NodeInTurn
  PROVE  /\ Inlined(n) \in NodeInTurn /\ SameMotion(n, Inlined(n)) /\ (Hidden(Inlined(n)) <=> Hidden(n))
         /\ \A L \in Displays : LooksKept(n, L) => LooksKept(Inlined(n), L)
<1>1. CASE n.sized /\ Display(n) = "inline"
  <2>1. "inline" \in Displays
    BY <1>1 DEF Display, NodeInTurn
  <2>2. "inline-block" \in Displays
    BY <2>1 DEF DisplayAssumption
  <2>3. /\ Inlined(n) \in NodeInTurn /\ SameMotion(n, Inlined(n))
        /\ Inlined(n).style = "inline-block" /\ Inlined(n).old = n.old
    BY <1>1, <2>2, Restyled DEF Inlined
  <2>4. ~Hidden(Inlined(n)) /\ ~Hidden(n)
    BY <1>1, <2>3 DEF Hidden, Display
  <2>5. ASSUME NEW L \in Displays, LooksKept(n, L) PROVE LooksKept(Inlined(n), L)
    <3>1. L = "inline"
      BY <1>1, <2>5 DEF LooksKept, Looks, Display
    <3> QED BY <1>1, <2>3, <2>5, <3>1 DEF LooksKept, Looks, SameMotion
  <2> QED BY <2>3, <2>4, <2>5
<1>2. CASE ~(n.sized /\ Display(n) = "inline")
  BY <1>2 DEF Inlined, SameMotion
<1> QED BY <1>1, <1>2

\* Which way an animation goes, and what it has made of the element when it begins.
Way(n, item) ==
  IF n.toggle # Absent THEN n.toggle
  ELSE IF item.way # "toggle" THEN item.way ELSE IF Hidden(n) THEN "show" ELSE "hide"
Started(n, item) ==
  [Inlined(n) EXCEPT
     !.toggle = IF n.toggle # Absent \/ item.way = "toggle"
                THEN IF Way(n, item) = "show" THEN "hide" ELSE "show" ELSE @,
     !.run = IF Way(n, item) = "show" THEN Shows(Inlined(n)) ELSE Hides(Inlined(n))]
Skipped(n, item) == (item.way = "hide" /\ Hidden(n)) \/ (item.way = "show" /\ ~Hidden(n))

LEMMA WayIs ==
  ASSUME NEW n \in NodeInTurn, NEW item \in Items
  PROVE  Way(n, item) \in {"show", "hide"}
BY DEF Way, NodeInTurn, Items, Ways

LEMMA BegunCases ==
  ASSUME NEW n \in NodeInTurn, NEW item \in Items
  PROVE  /\ Skipped(n, item) => Begun(n, item) = n
         /\ ~Skipped(n, item) =>
              Begun(n, item) =
                IF Way(n, item) = "hide"
                THEN IF item.instant THEN Ended(Started(n, item)) ELSE Started(n, item)
                ELSE IF item.instant THEN [Ended(Started(n, item)) EXCEPT !.shows = TRUE]
                     ELSE ShownBy([Started(n, item) EXCEPT !.size = Started(n, item).run.start])
<1> DEFINE way == CASE n.toggle # Absent -> n.toggle
                    [] n.toggle = Absent /\ item.way # "toggle" -> item.way
                    [] n.toggle = Absent /\ item.way = "toggle" -> IF Hidden(n) THEN "show" ELSE "hide"
           inline == IF n.sized /\ Display(n) = "inline" THEN [n EXCEPT !.style = "inline-block"] ELSE n
           begun == [inline EXCEPT !.toggle = IF n.toggle # Absent \/ item.way = "toggle"
                                          THEN IF way = "show" THEN "hide" ELSE "show" ELSE @,
                               !.run = IF way = "show" THEN Shows(inline) ELSE Hides(inline)]
           sized == [begun EXCEPT !.size = begun.run.start]
           skipped == (item.way = "hide" /\ Hidden(n)) \/ (item.way = "show" /\ ~Hidden(n))
<1>1. way = Way(n, item)
  BY DEF Way
<1>2. Way(n, item) \in {"show", "hide"} /\ item.instant \in BOOLEAN
  BY WayIs DEF Items
<1>3. begun = Started(n, item)
  BY <1>1 DEF Started, Inlined
<1>4. Begun(n, item) =
        CASE skipped -> n
          [] OTHER -> CASE way = "hide" /\ item.instant  -> Ended(begun)
                        [] way = "hide" /\ ~item.instant -> begun
                        [] way = "show" /\ item.instant  -> [Ended(begun) EXCEPT !.shows = TRUE]
                        [] way = "show" /\ ~item.instant -> ShownBy(sized)
  BY DEF Begun
<1>5. sized = [Started(n, item) EXCEPT !.size = Started(n, item).run.start]
  BY <1>3
<1>6. skipped = Skipped(n, item)
  BY DEF Skipped
<1> HIDE DEF way, begun, sized, inline, skipped
<1>7. CASE skipped
  BY <1>4, <1>6, <1>7
<1>8. CASE ~skipped
  <2>1. way = "hide" \/ way = "show"
    BY <1>1, <1>2
  <2> QED BY <1>1, <1>2, <1>3, <1>4, <1>5, <1>6, <1>8, <2>1
<1> QED BY <1>7, <1>8

LEMMA StartedFacts ==
  ASSUME DisplayAssumption, NEW n \in NodeInTurn, NEW item \in Items
  PROVE  /\ Started(n, item) \in NodeInTurn
         /\ Started(n, item).run = IF Way(n, item) = "show" THEN Shows(Inlined(n)) ELSE Hides(Inlined(n))
         /\ Started(n, item).waiting = n.waiting /\ Started(n, item).shows = n.shows
         /\ Started(n, item).size = n.size /\ Started(n, item).fxshow = n.fxshow
         /\ Hidden(Started(n, item)) <=> Hidden(n)
         /\ \A L \in Displays : LooksKept(n, L) => LooksKept(Started(n, item), L)
<1> DEFINE toggle == IF n.toggle # Absent \/ item.way = "toggle"
                     THEN IF Way(n, item) = "show" THEN "hide" ELSE "show" ELSE Inlined(n).toggle
           run == IF Way(n, item) = "show" THEN Shows(Inlined(n)) ELSE Hides(Inlined(n))
           i == Inlined(n)
<1>1. /\ i \in NodeInTurn /\ SameMotion(n, i) /\ (Hidden(i) <=> Hidden(n))
      /\ \A L \in Displays : LooksKept(n, L) => LooksKept(i, L)
  BY InlinedFacts
<1>2. toggle \in {"show", "hide", Absent}
  BY <1>1 DEF NodeInTurn
<1>3. run \in Runs
  BY <1>1, RunFacts
<1>4. Started(n, item) = [i EXCEPT !.toggle = toggle, !.run = run]
  BY DEF Started
<1> HIDE DEF toggle, run, i
<1>5. [i EXCEPT !.toggle = toggle] \in NodeInTurn
  BY <1>1, <1>2 DEF NodeInTurn
<1>6. Started(n, item) \in NodeInTurn
  BY <1>3, <1>4, <1>5 DEF NodeInTurn, Runs
<1>7. /\ Started(n, item).run = run
      /\ Started(n, item).waiting = i.waiting /\ Started(n, item).shows = i.shows
      /\ Started(n, item).size = i.size /\ Started(n, item).fxshow = i.fxshow
      /\ Started(n, item).style = i.style /\ Started(n, item).old = i.old
      /\ Started(n, item).sheet = i.sheet /\ Started(n, item).sized = i.sized
  BY <1>1, <1>4 DEF NodeInTurn
<1>8. Hidden(Started(n, item)) <=> Hidden(i)
  BY <1>7 DEF Hidden, Display
<1>9. \A L \in Displays : LooksKept(i, L) => LooksKept(Started(n, item), L)
  BY <1>7 DEF LooksKept, Looks
<1> QED BY <1>1, <1>6, <1>7, <1>8, <1>9 DEF SameMotion, run, i

\* In the middle of a dequeue a show that is still to be called counts.
LeadsInTurn(n, w) ==
  IF n.run = NoRun
  THEN n.waiting = <<>> /\ n.toggle = Absent /\ (w = "hide" <=> Hidden(n) /\ ~n.shows)
  ELSE ~n.shows /\ ~Hidden(n) /\ w = AskedLast(n.run.way, n.waiting)

LEMMA AskedNone ==
  ASSUME NEW w
  PROVE  AskedLast(w, <<>>) = w
<1>1. AskedBy(w, <<>>) = [i \in 0..0 |-> w]
  <2> DEFINE g == [i \in 0..0 |-> w]
  <2>1. g = [i \in 0..Len(<<>>) |-> IF i = 0 THEN w ELSE After(g[i - 1], <<>>[i])]
    OBVIOUS
  <2>2. \A f : f = [i \in 0..Len(<<>>) |-> IF i = 0 THEN w ELSE After(f[i - 1], <<>>[i])] => f = g
    OBVIOUS
  <2> HIDE DEF g
  <2> QED BY <2>1, <2>2 DEF AskedBy
<1> QED BY <1>1 DEF AskedLast

\* Induction, over a set.
LEMMA Least ==
  ASSUME NEW S, S \subseteq Nat, S # {}
  PROVE  \E i \in S : \A j \in S : i <= j
<1>1. PICK i \in S : \A j \in S : ~(<<j, i>> \in OpToRel(<, Nat))
  BY NatLessThanWellFounded, WFMin
<1>2. ASSUME NEW j \in S PROVE i <= j
  <2>1. ~(j < i)
    BY <1>1 DEF OpToRel
  <2> QED BY <2>1
<1> QED BY <1>2

LEMMA Climb ==
  ASSUME NEW S, S \subseteq Nat, 0 \in S, \A k \in S : k + 1 \in S
  PROVE  S = Nat
<1> SUFFICES ASSUME Nat \ S # {} PROVE FALSE
  OBVIOUS
<1>1. PICK m \in Nat \ S : \A k \in Nat \ S : m <= k
  BY Least, Nat \ S \subseteq Nat
<1>2. m # 0 /\ m - 1 \in Nat
  OBVIOUS
<1>3. m - 1 \in S
  BY <1>1, <1>2
<1>4. (m - 1) + 1 \in S
  BY <1>3
<1> QED BY <1>1, <1>4

\* What is asked for is defined for every sequence of those that wait.
LEMMA AskedByIs ==
  ASSUME NEW w, NEW s \in Seq(Items)
  PROVE  AskedBy(w, s) =
           [i \in 0..Len(s) |-> IF i = 0 THEN w ELSE After(AskedBy(w, s)[i - 1], s[i])]
<1> DEFINE Recurs(g, k) == g = [i \in 0..k |-> IF i = 0 THEN w ELSE After(g[i - 1], s[i])]
           S == {k \in Nat : \E g : Recurs(g, k)}
<1>1. 0 \in S
  <2> DEFINE g == [i \in 0..0 |-> w]
  <2>1. Recurs(g, 0)
    OBVIOUS
  <2> HIDE DEF g, Recurs
  <2> QED BY <2>1
<1>2. ASSUME NEW k \in S PROVE k + 1 \in S
  <2>1. PICK g : Recurs(g, k)
    OBVIOUS
  <2> DEFINE h == [i \in 0..(k + 1) |-> IF i = k + 1 THEN After(g[k], s[k + 1]) ELSE g[i]]
  <2>2. \A i \in 0..k : g[i] = IF i = 0 THEN w ELSE After(g[i - 1], s[i])
    BY <2>1
  <2>3. \A i \in 0..(k + 1) : h[i] = IF i = 0 THEN w ELSE After(h[i - 1], s[i])
    <3> SUFFICES ASSUME NEW i \in 0..(k + 1) PROVE h[i] = IF i = 0 THEN w ELSE After(h[i - 1], s[i])
      OBVIOUS
    <3>1. CASE i = k + 1
      BY <3>1
    <3>2. CASE i # k + 1
      BY <2>2, <3>2
    <3> QED BY <3>1, <3>2
  <2>4. Recurs(h, k + 1)
    BY <2>3
  <2> HIDE DEF h, Recurs
  <2> QED BY <2>4
<1>3. Len(s) \in S
  <2>1. S \subseteq Nat
    OBVIOUS
  <2> HIDE DEF S
  <2>2. S = Nat
    BY <1>1, <1>2, <2>1, Climb
  <2> QED BY <2>2
<1>4. \E g : Recurs(g, Len(s))
  BY <1>3
<1>5. AskedBy(w, s) = CHOOSE g : Recurs(g, Len(s))
  BY DEF AskedBy
<1> QED BY <1>4, <1>5

LEMMA AskedByValues ==
  ASSUME NEW w, NEW s \in Seq(Items)
  PROVE  /\ AskedBy(w, s)[0] = w
         /\ \A i \in 1..Len(s) : AskedBy(w, s)[i] = After(AskedBy(w, s)[i - 1], s[i])
<1> DEFINE g == AskedBy(w, s)
<1>1. g = [i \in 0..Len(s) |-> IF i = 0 THEN w ELSE After(g[i - 1], s[i])]
  BY AskedByIs
<1> HIDE DEF g
<1>2. g[0] = w /\ \A i \in 1..Len(s) : g[i] = After(g[i - 1], s[i])
  BY <1>1
<1> QED BY <1>2 DEF g

LEMMA AskedAppend ==
  ASSUME NEW w, NEW s \in Seq(Items), NEW x \in Items
  PROVE  AskedLast(w, Append(s, x)) = After(AskedLast(w, s), x)
<1> DEFINE t == Append(s, x)
           f == AskedBy(w, s)
           g == AskedBy(w, t)
           S == {k \in Nat : k <= Len(s) => g[k] = f[k]}
<1>1. t \in Seq(Items) /\ Len(t) = Len(s) + 1 /\ t[Len(s) + 1] = x /\ \A i \in 1..Len(s) : t[i] = s[i]
  OBVIOUS
<1>2. f[0] = w /\ \A i \in 1..Len(s) : f[i] = After(f[i - 1], s[i])
  BY AskedByValues
<1>3. g[0] = w /\ \A i \in 1..Len(t) : g[i] = After(g[i - 1], t[i])
  BY <1>1, AskedByValues, ZenonT(40)
<1> HIDE DEF t, f, g
<1>4. 0 \in S
  BY <1>2, <1>3
<1>5. ASSUME NEW k \in S PROVE k + 1 \in S
  <2>1. CASE k + 1 <= Len(s)
    <3>1. k + 1 \in 1..Len(s) /\ k + 1 \in 1..Len(t) /\ k <= Len(s)
      BY <1>1, <2>1
    <3>2. g[k + 1] = After(g[(k + 1) - 1], t[k + 1]) /\ f[k + 1] = After(f[(k + 1) - 1], s[k + 1])
      BY <1>2, <1>3, <3>1
    <3>3. (k + 1) - 1 = k /\ g[k] = f[k] /\ t[k + 1] = s[k + 1]
      BY <1>1, <3>1
    <3> QED BY <3>2, <3>3
  <2> QED BY <2>1
<1>6. Len(s) \in S
  <2>1. S \subseteq Nat
    OBVIOUS
  <2> HIDE DEF S
  <2>2. S = Nat
    BY <1>4, <1>5, <2>1, Climb
  <2> QED BY <2>2
<1>7. g[Len(s) + 1] = After(f[Len(s)], x)
  <2>1. Len(s) + 1 \in 1..Len(t) /\ (Len(s) + 1) - 1 = Len(s)
    BY <1>1
  <2> QED BY <1>1, <1>3, <1>6, <2>1
<1> QED BY <1>1, <1>7 DEF AskedLast, f, g, t

\* What one of those that wait does to the element.
LEMMA BegunFacts ==
  ASSUME DisplayAssumption, bare \in {BrowserDisplay, "none"}, NEW n \in NodeInTurn, NEW item \in Items,
         n.run = NoRun
  PROVE  /\ Begun(n, item) \in NodeInTurn /\ RunShaped(Begun(n, item))
         /\ Begun(n, item).waiting = n.waiting
         /\ \A L \in Displays : LooksKept(n, L) => LooksKept(Begun(n, item), L)
         /\ SizeIn(n) => SizeIn(Begun(n, item))
         /\ \A w \in {"show", "hide"} :
              LeadsInTurn(n, w) /\ ~n.shows =>
                /\ LeadsInTurn(Begun(n, item), After(w, item))
                /\ Begun(n, item).shows => item.instant /\ item.way # "hide"
<1> DEFINE b == Begun(n, item)
           s == Started(n, item)
           way == Way(n, item)
<1>1. CASE Skipped(n, item)
  <2>1. b = n
    BY <1>1, BegunCases
  <2>2. RunShaped(n)
    BY DEF RunShaped
  <2>3. ASSUME NEW w \in {"show", "hide"}, LeadsInTurn(n, w), ~n.shows
        PROVE  LeadsInTurn(n, After(w, item))
    <3>1. w = "hide" <=> Hidden(n)
      BY <2>3 DEF LeadsInTurn
    <3>2. After(w, item) = w
      BY <1>1, <3>1, <2>3 DEF Skipped, After
    <3> QED BY <2>3, <3>2
  <2> QED BY <2>1, <2>2, <2>3
<1>2. CASE ~Skipped(n, item)
  <2>0. /\ s \in NodeInTurn /\ s.run = (IF way = "show" THEN Shows(Inlined(n)) ELSE Hides(Inlined(n)))
        /\ s.waiting = n.waiting /\ s.shows = n.shows /\ s.size = n.size /\ s.fxshow = n.fxshow
        /\ (Hidden(s) <=> Hidden(n)) /\ \A L \in Displays : LooksKept(n, L) => LooksKept(s, L)
    BY StartedFacts
  <2>1. way \in {"show", "hide"} /\ item.instant \in BOOLEAN
    BY WayIs DEF Items
  <2>2. b = IF way = "hide" THEN IF item.instant THEN Ended(s) ELSE s
            ELSE IF item.instant THEN [Ended(s) EXCEPT !.shows = TRUE]
                 ELSE ShownBy([s EXCEPT !.size = s.run.start])
    BY <1>2, BegunCases
  <2>3. /\ Inlined(n) \in NodeInTurn /\ Inlined(n).size = n.size /\ Inlined(n).fxshow = n.fxshow
    BY InlinedFacts DEF SameMotion
  <2>4. /\ s.run \in Runs /\ s.run.way = way /\ s.run # NoRun
        /\ SizeIn(n) => s.run.orig = Full
        /\ way = "hide" => s.run.start = n.size
    <3> DEFINE i == Inlined(n)
    <3>1. /\ Shows(i) \in Runs /\ Shows(i).way = "show" /\ Hides(i) \in Runs /\ Hides(i).way = "hide"
          /\ Hides(i).start = i.size
          /\ i.fxshow = Full \/ (i.fxshow = Absent /\ i.size = Full) =>
               Shows(i).orig = Full /\ Hides(i).orig = Full
      BY <2>3, RunFacts
    <3>2. SizeIn(n) => n.fxshow = Full \/ (n.fxshow = Absent /\ n.size = Full)
      BY DEF SizeIn
    <3>3. s.run \in Runs /\ s.run.way = way
      BY <2>0, <2>1, <3>1
    <3>4. s.run # NoRun
      BY <2>1, <3>3 DEF NoRun
    <3> HIDE DEF s, way
    <3> QED BY <2>0, <2>1, <2>3, <3>1, <3>2, <3>3, <3>4 DEF s, way
  <2>5. RunShaped(s) /\ (SizeIn(n) => SizeIn(s))
    <3>1. RunShaped(s)
      BY <2>1, <2>4 DEF RunShaped
    <3>2. SizeIn(n) => n.fxshow = Full \/ (n.fxshow = Absent /\ n.size = Full)
      BY DEF SizeIn
    <3>3. Absent # Full
      <4>1. Full \in Nat /\ Absent \notin 0..Full
        BY DEF DisplayAssumption
      <4>2. Full \in 0..Full
        BY <4>1
      <4> QED BY <4>1, <4>2
    <3> HIDE DEF s, way
    <3> QED BY <2>0, <2>1, <2>4, <3>1, <3>2, <3>3 DEF SizeIn
  <2>6. ASSUME NEW w \in {"show", "hide"}, LeadsInTurn(n, w), ~n.shows
        PROVE  /\ After(w, item) = way /\ (way = "hide" => ~Hidden(n)) /\ n.waiting = <<>>
               /\ way = "show" => item.way # "hide"
    <3>1. (w = "hide" <=> Hidden(n)) /\ n.toggle = Absent /\ n.waiting = <<>>
      BY <2>6 DEF LeadsInTurn
    <3>2. item.way \in Ways
      BY DEF Items
    <3> QED BY <1>2, <2>6, <3>1, <3>2 DEF Way, After, Flip, Skipped, Ways
  <2>7. /\ Ended(s) \in NodeInTurn /\ Ended(s).run = NoRun /\ Ended(s).toggle = Absent
        /\ Ended(s).size = s.run.orig /\ Ended(s).fxshow = Absent
        /\ Ended(s).waiting = s.waiting /\ Ended(s).shows = s.shows
        /\ (Hidden(Ended(s)) <=> s.run.way = "hide" \/ Hidden(s))
        /\ \A L \in Displays : LooksKept(s, L) => LooksKept(Ended(s), L)
    BY <2>0, EndedFacts
  <2> HIDE DEF s, way, b
  <2>8. CASE way = "hide" /\ item.instant
    <3>1. b = Ended(s)
      BY <2>2, <2>8
    <3>2. RunShaped(b) /\ (SizeIn(n) => SizeIn(b))
      BY <3>1, <2>4, <2>7 DEF RunShaped, SizeIn
    <3>3. ASSUME NEW w \in {"show", "hide"}, LeadsInTurn(n, w), ~n.shows
          PROVE  LeadsInTurn(b, After(w, item)) /\ ~b.shows
      BY <2>0, <2>4, <2>6, <2>7, <2>8, <3>1, <3>3 DEF LeadsInTurn
    <3> QED BY <2>0, <2>7, <3>1, <3>2, <3>3 DEF b
  <2>9. CASE way = "hide" /\ ~item.instant
    <3>1. b = s
      BY <2>2, <2>9
    <3>3. ASSUME NEW w \in {"show", "hide"}, LeadsInTurn(n, w), ~n.shows
          PROVE  LeadsInTurn(b, After(w, item)) /\ ~b.shows
      BY <2>0, <2>4, <2>6, <2>9, <3>1, <3>3, AskedNone DEF LeadsInTurn
    <3> QED BY <2>0, <2>5, <3>1, <3>3 DEF b
  <2>10. CASE way = "show" /\ item.instant
    <3> DEFINE x == Ended(s)
    <3>1. b = [x EXCEPT !.shows = TRUE]
      BY <2>2, <2>10
    <3>2. b \in NodeInTurn
      BY <2>7, <3>1 DEF NodeInTurn
    <3>3. /\ b.run = x.run /\ b.toggle = x.toggle /\ b.size = x.size /\ b.fxshow = x.fxshow
          /\ b.waiting = x.waiting /\ b.shows /\ b.style = x.style /\ b.sheet = x.sheet
          /\ b.old = x.old /\ b.sized = x.sized
      BY <2>7, <3>1 DEF NodeInTurn
    <3> HIDE DEF x
    <3>4. RunShaped(b) /\ (SizeIn(n) => SizeIn(b))
      BY <3>3, <2>4, <2>7 DEF RunShaped, SizeIn, x
    <3>5. \A L \in Displays : LooksKept(x, L) => LooksKept(b, L)
      BY <3>3 DEF LooksKept, Looks
    <3>6. ASSUME NEW w \in {"show", "hide"}, LeadsInTurn(n, w), ~n.shows
          PROVE  LeadsInTurn(b, After(w, item)) /\ item.way # "hide"
      BY <2>0, <2>6, <2>7, <2>10, <3>3, <3>6 DEF LeadsInTurn, x
    <3> QED BY <2>0, <2>7, <2>10, <3>2, <3>3, <3>4, <3>5, <3>6 DEF b, x
  <2>11. CASE way = "show" /\ ~item.instant
    <3> DEFINE y == [s EXCEPT !.size = s.run.start]
    <3>1. b = ShownBy(y)
      BY <2>2, <2>11
    <3>2. y \in NodeInTurn
      BY <2>0, <2>4 DEF NodeInTurn, Runs
    <3>3. /\ y.run = s.run /\ y.toggle = s.toggle /\ y.fxshow = s.fxshow
          /\ y.waiting = s.waiting /\ y.shows = s.shows /\ y.style = s.style /\ y.sheet = s.sheet
          /\ y.old = s.old /\ y.sized = s.sized
      BY <2>0 DEF NodeInTurn
    <3> HIDE DEF y
    <3>4. b \in NodeInTurn /\ SameMotion(y, b) /\ ~Hidden(b)
      BY <3>1, <3>2, ShownByTyped
    <3>5. \A L \in Displays : LooksKept(s, L) => LooksKept(b, L)
      <4>1. \A L \in Displays : LooksKept(s, L) => LooksKept(y, L)
        BY <3>3 DEF LooksKept, Looks
      <4> QED BY <3>1, <3>2, <4>1, ShownByLooks
    <3>6. RunShaped(b) /\ (SizeIn(n) => SizeIn(b))
      BY <2>4, <2>5, <3>3, <3>4 DEF RunShaped, SizeIn, SameMotion
    <3>7. ASSUME NEW w \in {"show", "hide"}, LeadsInTurn(n, w), ~n.shows
          PROVE  LeadsInTurn(b, After(w, item)) /\ ~b.shows
      BY <2>0, <2>4, <2>6, <2>11, <3>3, <3>4, <3>7, AskedNone DEF LeadsInTurn, SameMotion
    <3> QED BY <2>0, <3>3, <3>4, <3>5, <3>6, <3>7 DEF b, SameMotion
  <2> QED BY <2>1, <2>8, <2>9, <2>10, <2>11
<1> QED BY <1>1, <1>2

\* What dequeue makes of the element is defined however many wait.
LEMMA BeganIs ==
  ASSUME NEW n, n.waiting \in Seq(Items)
  PROVE  /\ Began(n)[0] = [n EXCEPT !.waiting = <<>>]
         /\ \A i \in 1..Len(n.waiting) :
              Began(n)[i] = IF Began(n)[i - 1].run # NoRun
                            THEN [Began(n)[i - 1] EXCEPT !.waiting = Append(@, n.waiting[i])]
                            ELSE Begun(Began(n)[i - 1], n.waiting[i])
<1> DEFINE w == [n EXCEPT !.waiting = <<>>]
           Then(m, i) == IF m.run # NoRun THEN [m EXCEPT !.waiting = Append(@, n.waiting[i])]
                                         ELSE Begun(m, n.waiting[i])
           Recurs(g, k) == g = [i \in 0..k |-> IF i = 0 THEN w ELSE Then(g[i - 1], i)]
           S == {k \in Nat : \E g : Recurs(g, k)}
<1>1. Began(n) = CHOOSE g : Recurs(g, Len(n.waiting))
  BY DEF Began
<1> HIDE DEF w, Then
<1>2. 0 \in S
  <2> DEFINE g == [i \in 0..0 |-> w]
  <2>1. Recurs(g, 0)
    OBVIOUS
  <2> HIDE DEF g, Recurs
  <2> QED BY <2>1
<1>3. ASSUME NEW k \in S PROVE k + 1 \in S
  <2>1. PICK g : Recurs(g, k)
    OBVIOUS
  <2> DEFINE h == [i \in 0..(k + 1) |-> IF i = k + 1 THEN Then(g[k], k + 1) ELSE g[i]]
  <2>2. \A i \in 0..k : g[i] = IF i = 0 THEN w ELSE Then(g[i - 1], i)
    BY <2>1
  <2>3. \A i \in 0..(k + 1) : h[i] = IF i = 0 THEN w ELSE Then(h[i - 1], i)
    <3> SUFFICES ASSUME NEW i \in 0..(k + 1) PROVE h[i] = IF i = 0 THEN w ELSE Then(h[i - 1], i)
      OBVIOUS
    <3>1. CASE i = k + 1
      BY <3>1
    <3>2. CASE i # k + 1
      BY <2>2, <3>2
    <3> QED BY <3>1, <3>2
  <2>4. Recurs(h, k + 1)
    BY <2>3
  <2> HIDE DEF h, Recurs
  <2> QED BY <2>4
<1>4. Len(n.waiting) \in S
  <2>1. S \subseteq Nat
    OBVIOUS
  <2> HIDE DEF S
  <2>2. S = Nat
    BY <1>2, <1>3, <2>1, Climb
  <2> QED BY <2>2
<1>5. \E g : Recurs(g, Len(n.waiting))
  BY <1>4
<1> DEFINE f == Began(n)
<1>6. f = [i \in 0..Len(n.waiting) |-> IF i = 0 THEN w ELSE Then(f[i - 1], i)]
  BY <1>1, <1>5
<1> HIDE DEF f
<1>7. f[0] = w /\ \A i \in 1..Len(n.waiting) : f[i] = Then(f[i - 1], i)
  BY <1>6, SMTT(30)
<1> QED BY <1>7 DEF f, w, Then

LEMMA WaitingSet ==
  ASSUME NEW n \in NodeInTurn, NEW s \in Seq(Items)
  PROVE  [n EXCEPT !.waiting = s] \in NodeInTurn
BY DEF NodeInTurn

\* One that waits behind an animation.
LEMMA WaitsFacts ==
  ASSUME NEW n \in NodeInTurn, NEW item \in Items
  PROVE  LET m == [n EXCEPT !.waiting = Append(@, item)]
         IN  /\ m \in NodeInTurn /\ m.run = n.run /\ m.waiting = Append(n.waiting, item)
             /\ m.shows = n.shows
             /\ (Hidden(m) <=> Hidden(n)) /\ (RunShaped(n) => RunShaped(m))
             /\ \A L : LooksKept(n, L) => LooksKept(m, L)
             /\ SizeIn(n) => SizeIn(m)
<1> DEFINE m == [n EXCEPT !.waiting = Append(@, item)]
<1>1. n.waiting \in Seq(Items)
  BY DEF NodeInTurn
<1>2. Append(n.waiting, item) \in Seq(Items)
  BY <1>1
<1>3. m = [n EXCEPT !.waiting = Append(n.waiting, item)]
  BY DEF NodeInTurn
<1>4. m \in NodeInTurn
  BY <1>2, <1>3 DEF NodeInTurn
<1>5. /\ m.run = n.run /\ m.waiting = Append(n.waiting, item) /\ m.shows = n.shows
      /\ m.style = n.style /\ m.sheet = n.sheet /\ m.sized = n.sized /\ m.old = n.old
      /\ m.size = n.size /\ m.fxshow = n.fxshow /\ m.toggle = n.toggle
  BY DEF NodeInTurn
<1> HIDE DEF m
<1>6. (Hidden(m) <=> Hidden(n)) /\ (RunShaped(n) => RunShaped(m))
  BY <1>5 DEF Hidden, Display, RunShaped
<1>7. \A L : LooksKept(n, L) => LooksKept(m, L)
  BY <1>5 DEF LooksKept, Looks
<1>8. SizeIn(n) => SizeIn(m)
  BY <1>5 DEF SizeIn
<1> QED BY <1>4, <1>5, <1>6, <1>7, <1>8 DEF m

\* Through a dequeue.
InTurn(n, m) ==
  /\ m \in NodeInTurn /\ RunShaped(m) /\ (m.run = NoRun => m.waiting = <<>>)
  /\ \A L \in Displays : LooksKept(n, L) => LooksKept(m, L)
  /\ SizeIn(n) => SizeIn(m)

Heading(n, m, i) ==
  \A w \in {"show", "hide"} :
    n.toggle = Absent /\ (w = "hide" <=> Hidden(n)) /\ ~ShowsLate(n) =>
      LeadsInTurn(m, AskedBy(w, n.waiting)[i]) /\ (m.shows => i = Len(n.waiting))

LEMMA AskedTyped ==
  ASSUME NEW w \in {"show", "hide"}, NEW s \in Seq(Items), NEW i \in 0..Len(s)
  PROVE  AskedBy(w, s)[i] \in {"show", "hide"}
<1> DEFINE f == AskedBy(w, s)
           S == {k \in Nat : k <= Len(s) => f[k] \in {"show", "hide"}}
<1>1. f[0] = w /\ \A k \in 1..Len(s) : f[k] = After(f[k - 1], s[k])
  BY AskedByValues
<1> HIDE DEF f
<1>2. 0 \in S
  BY <1>1
<1>3. ASSUME NEW k \in S PROVE k + 1 \in S
  <2>1. CASE k + 1 <= Len(s)
    <3>1. k + 1 \in 1..Len(s) /\ k <= Len(s) /\ (k + 1) - 1 = k
      BY <2>1
    <3>2. f[k + 1] = After(f[k], s[k + 1]) /\ f[k] \in {"show", "hide"} /\ s[k + 1] \in Items
      BY <1>1, <3>1
    <3>3. f[k + 1] \in {"show", "hide"}
      BY <3>2 DEF After, Flip, Items, Ways
    <3> QED BY <3>3
  <2> QED BY <2>1
<1>4. S = Nat
  <2>1. S \subseteq Nat
    OBVIOUS
  <2> HIDE DEF S
  <2> QED BY <1>2, <1>3, <2>1, Climb
<1> QED BY <1>4 DEF f

LEMMA BeganFacts ==
  ASSUME DisplayAssumption, bare \in {BrowserDisplay, "none"}, NEW n \in NodeInTurn,
         n.run = NoRun, ~n.shows
  PROVE  LET last == Began(n)[Len(n.waiting)] IN InTurn(n, last) /\ Heading(n, last, Len(n.waiting))
<1> DEFINE f == Began(n)
           N == Len(n.waiting)
           S == {k \in Nat : k <= N => InTurn(n, f[k]) /\ Heading(n, f[k], k)}
<1>1. n.waiting \in Seq(Items) /\ N \in Nat
  <2>1. n.waiting \in Seq(Items)
    BY DEF NodeInTurn
  <2> QED BY <2>1
<1>2. /\ f[0] = [n EXCEPT !.waiting = <<>>]
      /\ \A i \in 1..N : f[i] = IF f[i - 1].run # NoRun
                                THEN [f[i - 1] EXCEPT !.waiting = Append(@, n.waiting[i])]
                                ELSE Begun(f[i - 1], n.waiting[i])
  <2>1. /\ Began(n)[0] = [n EXCEPT !.waiting = <<>>]
        /\ \A i \in 1..Len(n.waiting) :
             Began(n)[i] = IF Began(n)[i - 1].run # NoRun
                           THEN [Began(n)[i - 1] EXCEPT !.waiting = Append(@, n.waiting[i])]
                           ELSE Begun(Began(n)[i - 1], n.waiting[i])
    BY ONLY <1>1, BeganIs
  <2> QED BY ONLY <2>1 DEF f, N
<1> HIDE DEF f
<1>3. 0 \in S
  <2> DEFINE m == [n EXCEPT !.waiting = <<>>]
  <2>1. m \in NodeInTurn
    <3>1. <<>> \in Seq(Items)
      OBVIOUS
    <3> QED BY <3>1, WaitingSet
  <2>2. /\ m.run = n.run /\ m.waiting = <<>> /\ m.shows = n.shows
        /\ m.style = n.style /\ m.sheet = n.sheet /\ m.sized = n.sized /\ m.old = n.old
        /\ m.size = n.size /\ m.fxshow = n.fxshow /\ m.toggle = n.toggle
    BY DEF NodeInTurn
  <2> HIDE DEF m
  <2>3. InTurn(n, m)
    BY <2>1, <2>2 DEF InTurn, RunShaped, LooksKept, Looks, SizeIn
  <2>4. Hidden(m) <=> Hidden(n)
    BY <2>2 DEF Hidden, Display
  <2>5. Heading(n, m, 0)
    BY <1>1, <2>2, <2>4, AskedByValues DEF Heading, LeadsInTurn
  <2> QED BY <1>2, <2>3, <2>5 DEF m
<1>4. ASSUME NEW k \in S, k + 1 <= N PROVE InTurn(n, f[k + 1]) /\ Heading(n, f[k + 1], k + 1)
  <2> DEFINE m == f[k]
             item == n.waiting[k + 1]
  <2>1. /\ k + 1 \in 1..N /\ (k + 1) - 1 = k /\ k \in 0..N
        /\ InTurn(n, m) /\ Heading(n, m, k) /\ item \in Items
    BY <1>1, <1>4
  <2>2. f[k + 1] = IF m.run # NoRun THEN [m EXCEPT !.waiting = Append(@, item)] ELSE Begun(m, item)
    BY <1>2, <2>1
  <2>3. \A w : AskedBy(w, n.waiting)[k + 1] = After(AskedBy(w, n.waiting)[k], item)
    BY <1>1, <2>1, AskedByValues
  <2>4. \A w \in {"show", "hide"} : AskedBy(w, n.waiting)[k] \in {"show", "hide"}
    BY <1>1, <2>1, AskedTyped
  <2> HIDE DEF m, item
  <2>5. CASE m.run # NoRun
    <3> DEFINE x == [m EXCEPT !.waiting = Append(@, item)]
    <3>1. /\ x \in NodeInTurn /\ x.run = m.run /\ x.waiting = Append(m.waiting, item)
          /\ x.shows = m.shows
          /\ (Hidden(x) <=> Hidden(m)) /\ (RunShaped(m) => RunShaped(x))
          /\ \A L : LooksKept(m, L) => LooksKept(x, L)
          /\ SizeIn(m) => SizeIn(x)
      BY <2>1, WaitsFacts DEF InTurn
    <3> HIDE DEF x
    <3>2. InTurn(n, x)
      BY <2>1, <2>5, <3>1 DEF InTurn
    <3>3. ASSUME NEW w \in {"show", "hide"}, n.toggle = Absent, w = "hide" <=> Hidden(n), ~ShowsLate(n)
          PROVE  LeadsInTurn(x, AskedBy(w, n.waiting)[k + 1]) /\ (x.shows => k + 1 = N)
      <4>1. LeadsInTurn(m, AskedBy(w, n.waiting)[k])
        BY <2>1, <3>3 DEF Heading
      <4>2. ~m.shows /\ ~Hidden(m) /\ AskedBy(w, n.waiting)[k] = AskedLast(m.run.way, m.waiting)
        BY <2>5, <4>1 DEF LeadsInTurn
      <4>3. m.waiting \in Seq(Items)
        BY <2>1 DEF InTurn, NodeInTurn
      <4>4. AskedLast(x.run.way, x.waiting) = After(AskedLast(m.run.way, m.waiting), item)
        BY <2>1, <3>1, <4>3, AskedAppend
      <4> QED BY <2>3, <2>5, <3>1, <4>2, <4>4 DEF LeadsInTurn
    <3>4. Heading(n, x, k + 1)
      BY <3>3 DEF Heading
    <3> QED BY <2>2, <2>5, <3>2, <3>4 DEF x
  <2>6. CASE m.run = NoRun
    <3> DEFINE b == Begun(m, item)
    <3>1. /\ b \in NodeInTurn /\ RunShaped(b) /\ b.waiting = m.waiting
          /\ \A L \in Displays : LooksKept(m, L) => LooksKept(b, L)
          /\ SizeIn(m) => SizeIn(b)
          /\ \A w \in {"show", "hide"} :
               LeadsInTurn(m, w) /\ ~m.shows =>
                 /\ LeadsInTurn(b, After(w, item))
                 /\ b.shows => item.instant /\ item.way # "hide"
      BY <2>1, <2>6, BegunFacts DEF InTurn
    <3> HIDE DEF b
    <3>2. InTurn(n, b)
      BY <2>1, <2>6, <3>1 DEF InTurn
    <3>3. ASSUME NEW w \in {"show", "hide"}, n.toggle = Absent, w = "hide" <=> Hidden(n), ~ShowsLate(n)
          PROVE  LeadsInTurn(b, AskedBy(w, n.waiting)[k + 1]) /\ (b.shows => k + 1 = N)
      <4>1. LeadsInTurn(m, AskedBy(w, n.waiting)[k]) /\ ~m.shows
        BY <1>1, <2>1, <3>3 DEF Heading
      <4>2. LeadsInTurn(b, AskedBy(w, n.waiting)[k + 1])
        BY <2>3, <2>4, <3>1, <4>1
      <4>3. b.shows => n.waiting[k + 1].instant /\ n.waiting[k + 1].way # "hide"
        BY <2>4, <3>1, <4>1 DEF item
      <4>4. k + 1 # N => k + 1 \in 1..(Len(n.waiting) - 1)
        BY <1>1, <2>1
      <4>5. b.shows => k + 1 = N
        BY <3>3, <4>3, <4>4 DEF ShowsLate
      <4> QED BY <4>2, <4>5
    <3>4. Heading(n, b, k + 1)
      BY <3>3 DEF Heading
    <3> QED BY <2>2, <2>6, <3>2, <3>4 DEF b
  <2> QED BY <2>5, <2>6
<1>5. N \in S
  <2>1. S \subseteq Nat /\ \A k \in S : k + 1 \in S
    BY <1>4
  <2> HIDE DEF S
  <2>2. S = Nat
    BY <1>3, <2>1, Climb
  <2> QED BY <1>1, <2>2
<1> QED BY <1>1, <1>5 DEF f

LEMMA DequeuedFacts ==
  ASSUME DisplayAssumption, bare \in {BrowserDisplay, "none"}, NEW n \in NodeType, n.run = NoRun
  PROVE  /\ Dequeued(n) \in NodeType /\ Settled(Dequeued(n))
         /\ \A L \in Displays : LooksKept(n, L) => LooksKept(Dequeued(n), L)
         /\ SizeIn(n) => SizeIn(Dequeued(n))
         /\ \A w \in {"show", "hide"} :
              n.toggle = Absent /\ (w = "hide" <=> Hidden(n)) /\ ~ShowsLate(n) =>
                LeadsTo(Dequeued(n), AskedLast(w, n.waiting))
<1> DEFINE m == Began(n)[Len(n.waiting)]
           N == Len(n.waiting)
<1>1. n \in NodeInTurn /\ ~n.shows
  BY DEF NodeType, NodeInTurn, Items
<1>2. InTurn(n, m) /\ Heading(n, m, N)
  BY <1>1, BeganFacts
<1>3. ASSUME NEW x \in NodeInTurn, ~x.shows PROVE x \in NodeType
  BY <1>3 DEF NodeType, NodeInTurn, Items
<1>4. Dequeued(n) = IF m.shows THEN ShownBy([m EXCEPT !.shows = FALSE]) ELSE m
  BY DEF Dequeued
<1> HIDE DEF m
<1>5. CASE ~m.shows
  <2>1. m \in NodeType /\ Settled(m)
    BY <1>2, <1>3, <1>5 DEF InTurn, Settled
  <2>2. ASSUME NEW w \in {"show", "hide"}, n.toggle = Absent, w = "hide" <=> Hidden(n), ~ShowsLate(n)
        PROVE  LeadsTo(m, AskedLast(w, n.waiting))
    <3>1. LeadsInTurn(m, AskedLast(w, n.waiting))
      BY <1>2, <2>2 DEF Heading, AskedLast
    <3> QED BY <1>5, <3>1 DEF LeadsInTurn, LeadsTo
  <2> QED BY <1>2, <1>4, <1>5, <2>1, <2>2 DEF InTurn
<1>6. CASE m.shows
  <2> DEFINE x == [m EXCEPT !.shows = FALSE]
             y == ShownBy(x)
  <2>1. m \in NodeInTurn
    BY <1>2 DEF InTurn
  <2>2. x \in NodeInTurn
    BY <2>1 DEF NodeInTurn
  <2>3. /\ x.run = m.run /\ x.waiting = m.waiting /\ ~x.shows
        /\ x.style = m.style /\ x.sheet = m.sheet /\ x.sized = m.sized /\ x.old = m.old
        /\ x.size = m.size /\ x.fxshow = m.fxshow /\ x.toggle = m.toggle
    BY <2>1 DEF NodeInTurn
  <2>4. Dequeued(n) = y
    BY <1>4, <1>6
  <2> HIDE DEF x
  <2>5. y \in NodeInTurn /\ SameMotion(x, y) /\ ~Hidden(y)
    BY <2>2, ShownByTyped
  <2>6. \A L \in Displays : LooksKept(x, L) => LooksKept(y, L)
    BY <2>2, ShownByLooks
  <2> HIDE DEF y
  <2>7. \A L \in Displays : LooksKept(m, L) => LooksKept(x, L)
    BY <2>3 DEF LooksKept, Looks
  <2>8. y \in NodeType
    BY <1>3, <2>3, <2>5 DEF SameMotion
  <2>9. Settled(y)
    BY <1>2, <2>3, <2>5 DEF InTurn, Settled, RunShaped, SameMotion
  <2>10. SizeIn(m) => SizeIn(y)
    BY <2>3, <2>5 DEF SizeIn, SameMotion
  <2>11. ASSUME NEW w \in {"show", "hide"}, n.toggle = Absent, w = "hide" <=> Hidden(n), ~ShowsLate(n)
        PROVE  LeadsTo(y, AskedLast(w, n.waiting))
    <3>1. LeadsInTurn(m, AskedLast(w, n.waiting))
      BY <1>2, <2>11 DEF Heading, AskedLast
    <3> QED BY <1>6, <2>3, <2>5, <3>1 DEF LeadsInTurn, LeadsTo, SameMotion
  <2> QED BY <1>2, <2>4, <2>6, <2>7, <2>8, <2>9, <2>10, <2>11 DEF InTurn
<1> QED BY <1>5, <1>6
-----------------------------------------------------------------------------
LEMMA NodeTypes ==
  /\ \A n \in NodeType : n \in NodeInTurn /\ ~n.shows
  /\ \A n \in NodeInTurn : ~n.shows => n \in NodeType
<1>1. ASSUME NEW n \in NodeType PROVE n \in NodeInTurn /\ ~n.shows
  BY DEF NodeType, NodeInTurn, Items
<1>2. ASSUME NEW n \in NodeInTurn, ~n.shows PROVE n \in NodeType
  BY <1>2 DEF NodeType, NodeInTurn, Items
<1> QED BY <1>1, <1>2

LEMMA BecomeInv ==
  ASSUME DisplayInv, NEW e \in Boxes, NEW n \in NodeType, NEW w \in {"show", "hide"}, NEW cross \in BOOLEAN,
         Become(e, n, w, cross), displayCalls' \in 0..DisplayCalls, lost \subseteq lost',
         Settled(n), e \notin touched => LooksKept(n, look[e]), e \notin lost' => SizeIn(n),
         e \notin crossed /\ ~cross => LeadsTo(n, w)
  PROVE  DisplayInv'
<1>1. /\ node' = [node EXCEPT ![e] = n] /\ asked' = [asked EXCEPT ![e] = w]
      /\ crossed' = (IF cross THEN crossed \cup {e} ELSE crossed)
      /\ bare' = bare /\ look' = look /\ touched' = touched
  BY DEF Become
<1>2. DisplayTypeOK'
  BY <1>1 DEF DisplayInv, DisplayTypeOK
<1>3. /\ node'[e] = n /\ asked'[e] = w
      /\ \A f \in Boxes \ {e} : node'[f] = node[f] /\ asked'[f] = asked[f]
  BY <1>1 DEF DisplayInv, DisplayTypeOK
<1>4. \A f \in Boxes : Settled(node'[f])
  BY <1>3 DEF DisplayInv
<1>5. DefaultDisplay' = DefaultDisplay
  BY <1>1 DEF DefaultDisplay
<1>6. \A f \in Boxes \ touched' : LooksKept(node[f], look[f])' <=> LooksKept(node'[f], look[f])
  BY <1>1, <1>5 DEF LooksKept, Looks
<1>7. \A f \in Boxes \ touched' : LooksKept(node[f], look[f])'
  BY <1>1, <1>3, <1>6 DEF DisplayInv
<1>8. \A f \in Boxes \ lost' : SizeIn(node'[f])
  BY <1>3 DEF DisplayInv
<1>9. \A f \in Boxes \ crossed' : LeadsTo(node'[f], asked'[f])
  BY <1>1, <1>3 DEF DisplayInv
<1> QED BY <1>1, <1>2, <1>4, <1>7, <1>8, <1>9 DEF DisplayInv

\* What the invariant says of one element.
LEMMA Of ==
  ASSUME DisplayInv, NEW e \in Boxes
  PROVE  /\ node[e] \in NodeType /\ node[e] \in NodeInTurn /\ ~node[e].shows
         /\ look[e] \in Displays /\ asked[e] \in {"show", "hide"}
         /\ bare \in {BrowserDisplay, "none"} /\ Settled(node[e])
         /\ e \notin touched => LooksKept(node[e], look[e])
         /\ e \notin lost => SizeIn(node[e])
         /\ e \notin crossed => LeadsTo(node[e], asked[e])
<1>1. node[e] \in NodeType /\ look[e] \in Displays /\ asked[e] \in {"show", "hide"}
  BY DEF DisplayInv, DisplayTypeOK
<1> QED BY <1>1, NodeTypes DEF DisplayInv

LEMMA CallTyped ==
  ASSUME DisplayAssumption, DisplayInv, DisplayCall
  PROVE  displayCalls' \in 0..DisplayCalls
<1>1. DisplayCalls \in Nat /\ displayCalls \in 0..DisplayCalls
  BY DEF DisplayAssumption, DisplayInv, DisplayTypeOK
<1> QED BY <1>1 DEF DisplayCall

LEMMA ShowInv ==
  ASSUME DisplayAssumption, DisplayInv, NEW e \in Boxes, Show(e)
  PROVE  DisplayInv'
<1> DEFINE n == node[e]
           m == ShownBy(n)
<1>1. /\ n \in NodeType /\ n \in NodeInTurn /\ ~n.shows /\ look[e] \in Displays
      /\ bare \in {BrowserDisplay, "none"} /\ Settled(n)
      /\ e \notin touched => LooksKept(n, look[e])
      /\ e \notin lost => SizeIn(n)
      /\ e \notin crossed => LeadsTo(n, asked[e])
  BY Of
<1>2. Become(e, m, "show", ~AtRest(e)) /\ displayCalls' \in 0..DisplayCalls /\ lost' = lost
  BY CallTyped DEF Show
<1>3. m \in NodeInTurn /\ SameMotion(n, m) /\ ~Hidden(m)
  BY <1>1, ShownByTyped
<1>4. e \notin touched => LooksKept(m, look[e])
  BY <1>1, ShownByLooks
<1>5. AtRest(e) => n.run = NoRun
  BY DEF AtRest
<1> HIDE DEF n, m
<1>6. m \in NodeType /\ Settled(m) /\ (e \notin lost => SizeIn(m))
  BY <1>1, <1>3, NodeTypes DEF Settled, RunShaped, SizeIn, SameMotion
<1>7. e \notin crossed /\ AtRest(e) => LeadsTo(m, "show")
  BY <1>1, <1>3, <1>5 DEF LeadsTo, SameMotion
<1> QED BY <1>2, <1>4, <1>6, <1>7, BecomeInv

LEMMA HideInv ==
  ASSUME DisplayAssumption, DisplayInv, NEW e \in Boxes, Hide(e)
  PROVE  DisplayInv'
<1> DEFINE n == node[e]
           m == HiddenBy(n)
<1>1. /\ n \in NodeType /\ n \in NodeInTurn /\ ~n.shows /\ look[e] \in Displays
      /\ bare \in {BrowserDisplay, "none"} /\ Settled(n)
      /\ e \notin touched => LooksKept(n, look[e])
      /\ e \notin lost => SizeIn(n)
      /\ e \notin crossed => LeadsTo(n, asked[e])
  BY Of
<1>2. Become(e, m, "hide", ~AtRest(e)) /\ displayCalls' \in 0..DisplayCalls /\ lost' = lost
  BY CallTyped DEF Hide
<1>3. m \in NodeInTurn /\ SameMotion(n, m) /\ Hidden(m)
  BY <1>1, HiddenByTyped
<1>4. e \notin touched => LooksKept(m, look[e])
  BY <1>1, HiddenByLooks
<1>5. AtRest(e) => n.run = NoRun
  BY DEF AtRest
<1> HIDE DEF n, m
<1>6. m \in NodeType /\ Settled(m) /\ (e \notin lost => SizeIn(m))
  BY <1>1, <1>3, NodeTypes DEF Settled, RunShaped, SizeIn, SameMotion
<1>7. e \notin crossed /\ AtRest(e) => LeadsTo(m, "hide")
  BY <1>1, <1>3, <1>5 DEF LeadsTo, SameMotion
<1> QED BY <1>2, <1>4, <1>6, <1>7, BecomeInv

LEMMA AfterTyped ==
  ASSUME NEW w \in {"show", "hide"}, NEW item \in Items
  PROVE  After(w, item) \in {"show", "hide"}
BY DEF After, Flip, Items, Ways

LEMMA AnimateInv ==
  ASSUME DisplayAssumption, DisplayInv, NEW e \in Boxes, NEW item \in Items, Animate(e, item)
  PROVE  DisplayInv'
<1> DEFINE n == node[e]
           m == [n EXCEPT !.waiting = Append(@, item)]
           d == Dequeued(m)
           w == After(asked[e], item)
<1>1. /\ n \in NodeType /\ n \in NodeInTurn /\ ~n.shows /\ look[e] \in Displays
      /\ bare \in {BrowserDisplay, "none"} /\ Settled(n)
      /\ e \notin touched => LooksKept(n, look[e])
      /\ e \notin lost => SizeIn(n)
      /\ e \notin crossed => LeadsTo(n, asked[e])
  BY Of
<1>2. /\ Become(e, IF n.run = NoRun THEN d ELSE m, w, FALSE) /\ displayCalls' \in 0..DisplayCalls
      /\ lost' = lost
  BY CallTyped DEF Animate
<1>3. asked[e] \in {"show", "hide"} /\ w \in {"show", "hide"}
  BY Of, AfterTyped
<1>4. /\ m \in NodeInTurn /\ m.run = n.run /\ m.waiting = Append(n.waiting, item)
      /\ m.shows = n.shows
      /\ (Hidden(m) <=> Hidden(n)) /\ (RunShaped(n) => RunShaped(m))
      /\ \A L : LooksKept(n, L) => LooksKept(m, L)
      /\ SizeIn(n) => SizeIn(m)
  BY <1>1, WaitsFacts
<1>5. m \in NodeType /\ m.toggle = n.toggle /\ n.waiting \in Seq(Items)
  <2>1. m.toggle = n.toggle /\ n.waiting \in Seq(Items)
    BY <1>1 DEF NodeInTurn
  <2> QED BY <1>1, <1>4, <2>1, NodeTypes
<1> HIDE DEF n, m, w
<1>6. CASE n.run # NoRun
  <2>1. Settled(m)
    BY <1>1, <1>4, <1>6 DEF Settled
  <2>2. e \notin crossed => LeadsTo(m, w)
    <3>1. AskedLast(n.run.way, Append(n.waiting, item)) = After(AskedLast(n.run.way, n.waiting), item)
      BY <1>5, AskedAppend
    <3> QED BY <1>1, <1>4, <1>6, <3>1 DEF LeadsTo, w
  <2>3. Become(e, m, w, FALSE)
    BY <1>2, <1>6
  <2> QED BY <1>1, <1>2, <1>3, <1>4, <1>5, <2>1, <2>2, <2>3, BecomeInv
<1>7. CASE n.run = NoRun
  <2>1. /\ d \in NodeType /\ Settled(d)
        /\ \A L \in Displays : LooksKept(m, L) => LooksKept(d, L)
        /\ SizeIn(m) => SizeIn(d)
        /\ \A v \in {"show", "hide"} :
             m.toggle = Absent /\ (v = "hide" <=> Hidden(m)) /\ ~ShowsLate(m) =>
               LeadsTo(d, AskedLast(v, m.waiting))
    BY <1>1, <1>4, <1>5, <1>7, DequeuedFacts
  <2>2. n.waiting = <<>>
    BY <1>1, <1>7 DEF Settled
  <2>3. Len(m.waiting) = 1
    BY <1>4, <2>2
  <2>4. ~ShowsLate(m)
    BY <2>3 DEF ShowsLate
  <2>5. AskedLast(asked[e], m.waiting) = w
    <3>1. <<>> \in Seq(Items)
      OBVIOUS
    <3>2. AskedLast(asked[e], Append(<<>>, item)) = After(AskedLast(asked[e], <<>>), item)
      BY <3>1, AskedAppend
    <3> QED BY <1>4, <2>2, <3>2, AskedNone DEF w
  <2>6. e \notin crossed => LeadsTo(d, w)
    BY <1>1, <1>3, <1>4, <1>5, <1>7, <2>1, <2>4, <2>5 DEF LeadsTo
  <2>7. Become(e, d, w, FALSE)
    BY <1>2, <1>7
  <2> HIDE DEF d
  <2> QED BY <1>1, <1>2, <1>3, <1>4, <2>1, <2>6, <2>7, BecomeInv
<1> QED BY <1>6, <1>7

LEMMA StepInv ==
  ASSUME DisplayAssumption, DisplayInv, NEW e \in Boxes, DisplayStep(e)
  PROVE  DisplayInv'
<1> DEFINE n == node[e]
           s == IF n.size < n.run.end THEN n.size + 1 ELSE n.size - 1
           m == [n EXCEPT !.size = s]
<1>1. /\ n \in NodeType /\ n \in NodeInTurn /\ ~n.shows /\ look[e] \in Displays
      /\ asked[e] \in {"show", "hide"}
      /\ bare \in {BrowserDisplay, "none"} /\ Settled(n)
      /\ e \notin touched => LooksKept(n, look[e])
      /\ e \notin lost => SizeIn(n)
      /\ e \notin crossed => LeadsTo(n, asked[e])
  BY Of
<1>2. /\ n.run # NoRun /\ n.size # n.run.end
      /\ node' = [node EXCEPT ![e] = m]
      /\ UNCHANGED <<bare, look, touched, asked, crossed, lost, displayCalls>>
  BY <1>1 DEF DisplayStep, NodeInTurn, DisplayInv, DisplayTypeOK
<1>3. s \in 0..Full
  <2>1. n.size \in 0..Full /\ n.run.end \in 0..Full
    BY <1>1 DEF NodeInTurn
  <2>2. Full \in Nat
    BY DEF DisplayAssumption
  <2> QED BY <1>2, <2>1, <2>2
<1>4. m \in NodeInTurn
  BY <1>1, <1>3 DEF NodeInTurn
<1>5. /\ m.run = n.run /\ m.waiting = n.waiting /\ m.shows = n.shows
      /\ m.style = n.style /\ m.sheet = n.sheet /\ m.sized = n.sized /\ m.old = n.old
      /\ m.fxshow = n.fxshow /\ m.toggle = n.toggle
  BY <1>1 DEF NodeInTurn
<1>6. m \in NodeType
  BY <1>1, <1>4, <1>5, NodeTypes
<1> HIDE DEF m, s
<1>7. Settled(m) /\ (e \notin lost => SizeIn(m))
  BY <1>1, <1>2, <1>5 DEF Settled, RunShaped, SizeIn
<1>8. e \notin touched => LooksKept(m, look[e])
  BY <1>1, <1>5 DEF LooksKept, Looks
<1>9. e \notin crossed => LeadsTo(m, asked[e])
  BY <1>1, <1>2, <1>5 DEF LeadsTo, Hidden, Display
<1>10. Become(e, m, asked[e], FALSE)
  <2>1. asked = [asked EXCEPT ![e] = asked[e]]
    BY DEF DisplayInv, DisplayTypeOK
  <2> QED BY <1>2, <2>1 DEF Become
<1>11. displayCalls' \in 0..DisplayCalls /\ lost' = lost
  BY <1>2 DEF DisplayInv, DisplayTypeOK
<1> QED BY <1>1, <1>6, <1>7, <1>8, <1>9, <1>10, <1>11, BecomeInv

LEMMA EndInv ==
  ASSUME DisplayAssumption, DisplayInv, NEW e \in Boxes, End(e)
  PROVE  DisplayInv'
<1> DEFINE n == node[e]
           m == Ended(n)
           d == Dequeued(m)
           w == asked[e]
<1>1. /\ n \in NodeType /\ n \in NodeInTurn /\ ~n.shows /\ look[e] \in Displays
      /\ w \in {"show", "hide"}
      /\ bare \in {BrowserDisplay, "none"} /\ Settled(n)
      /\ e \notin touched => LooksKept(n, look[e])
      /\ e \notin lost => SizeIn(n)
      /\ e \notin crossed => LeadsTo(n, w)
  BY Of
<1>2. /\ n.run # NoRun /\ Become(e, d, w, ShowsLate(n)) /\ displayCalls' \in 0..DisplayCalls
      /\ lost' = lost
  BY DEF End, DisplayInv, DisplayTypeOK
<1>3. /\ m \in NodeInTurn /\ m.run = NoRun /\ m.toggle = Absent
      /\ m.size = n.run.orig /\ m.fxshow = Absent
      /\ m.waiting = n.waiting /\ m.shows = n.shows
      /\ (Hidden(m) <=> n.run.way = "hide" \/ Hidden(n))
      /\ \A L \in Displays : LooksKept(n, L) => LooksKept(m, L)
  BY <1>1, EndedFacts
<1>4. m \in NodeType
  BY <1>1, <1>3, NodeTypes
<1>5. n.run.way \in {"show", "hide"}
  BY <1>1, <1>2 DEF NodeInTurn, Settled, RunShaped
<1> HIDE DEF n, m, w
<1>6. /\ d \in NodeType /\ Settled(d)
      /\ \A L \in Displays : LooksKept(m, L) => LooksKept(d, L)
      /\ SizeIn(m) => SizeIn(d)
      /\ \A v \in {"show", "hide"} :
           m.toggle = Absent /\ (v = "hide" <=> Hidden(m)) /\ ~ShowsLate(m) =>
             LeadsTo(d, AskedLast(v, m.waiting))
  BY <1>1, <1>3, <1>4, DequeuedFacts
<1>7. e \notin lost => SizeIn(m)
  BY <1>1, <1>2, <1>3 DEF SizeIn
<1>8. ShowsLate(m) <=> ShowsLate(n)
  BY <1>3 DEF ShowsLate
<1>9. e \notin crossed /\ ~ShowsLate(n) => LeadsTo(d, w)
  BY <1>1, <1>2, <1>3, <1>5, <1>6, <1>8 DEF LeadsTo
<1>10. ShowsLate(n) \in BOOLEAN
  BY DEF ShowsLate
<1> HIDE DEF d
<1> QED BY <1>1, <1>2, <1>3, <1>6, <1>7, <1>9, <1>10, BecomeInv

\* An animation that stop takes away, without the jump to its end.
LEMMA SavedFacts ==
  ASSUME DisplayAssumption, NEW n \in NodeInTurn
  PROVE  LET m == [SaveState(n) EXCEPT !.run = NoRun]
         IN  /\ m \in NodeInTurn /\ m.run = NoRun /\ m.toggle = n.toggle /\ m.waiting = n.waiting
             /\ m.shows = n.shows /\ (Hidden(m) <=> Hidden(n))
             /\ m.fxshow = IF n.run.way = "hide" /\ n.fxshow = Absent THEN n.run.start ELSE n.fxshow
             /\ \A L \in Displays : LooksKept(n, L) => LooksKept(m, L)
<1> DEFINE s == SaveState(n)
           m == [s EXCEPT !.run = NoRun]
<1>1. NoRun \in Runs
  <2>1. Full \in Nat
    BY DEF DisplayAssumption
  <2> QED BY <2>1 DEF NoRun, Runs
<1>2. n.run.start \in 0..Full
  BY DEF NodeInTurn
<1>3. s \in NodeInTurn
  BY <1>2 DEF SaveState, NodeInTurn
<1>4. /\ s.waiting = n.waiting /\ s.shows = n.shows /\ s.toggle = n.toggle
      /\ s.style = n.style /\ s.sheet = n.sheet /\ s.sized = n.sized /\ s.old = n.old
      /\ s.fxshow = IF n.run.way = "hide" /\ n.fxshow = Absent THEN n.run.start ELSE n.fxshow
  BY DEF SaveState, NodeInTurn
<1> HIDE DEF s
<1>5. m \in NodeInTurn
  BY <1>1, <1>3 DEF NodeInTurn, Runs
<1>6. /\ m.waiting = s.waiting /\ m.shows = s.shows /\ m.toggle = s.toggle /\ m.run = NoRun
      /\ m.style = s.style /\ m.sheet = s.sheet /\ m.sized = s.sized /\ m.old = s.old
      /\ m.fxshow = s.fxshow
  BY <1>3 DEF NodeInTurn
<1> HIDE DEF m
<1>7. Hidden(m) <=> Hidden(n)
  BY <1>4, <1>6 DEF Hidden, Display
<1>8. \A L \in Displays : LooksKept(n, L) => LooksKept(m, L)
  BY <1>4, <1>6 DEF LooksKept, Looks
<1> QED BY <1>4, <1>5, <1>6, <1>7, <1>8 DEF m, s

\* Clearing the queue.
LEMMA ClearedFacts ==
  ASSUME NEW n \in NodeInTurn
  PROVE  LET m == [n EXCEPT !.waiting = <<>>]
         IN  /\ m \in NodeInTurn /\ m.run = n.run /\ m.toggle = n.toggle /\ m.shows = n.shows
             /\ m.fxshow = n.fxshow /\ (Hidden(m) <=> Hidden(n)) /\ (SizeIn(n) => SizeIn(m))
             /\ \A L \in Displays : LooksKept(n, L) => LooksKept(m, L)
<1> DEFINE m == [n EXCEPT !.waiting = <<>>]
<1>1. <<>> \in Seq(Items)
  OBVIOUS
<1>2. m \in NodeInTurn
  BY <1>1, WaitingSet
<1>3. /\ m.run = n.run /\ m.toggle = n.toggle /\ m.shows = n.shows
      /\ m.style = n.style /\ m.sheet = n.sheet /\ m.sized = n.sized /\ m.old = n.old
      /\ m.fxshow = n.fxshow /\ m.size = n.size
  BY DEF NodeInTurn
<1> HIDE DEF m
<1>4. Hidden(m) <=> Hidden(n)
  BY <1>3 DEF Hidden, Display
<1>5. SizeIn(n) => SizeIn(m)
  BY <1>3 DEF SizeIn
<1>6. \A L \in Displays : LooksKept(n, L) => LooksKept(m, L)
  BY <1>3 DEF LooksKept, Looks
<1> QED BY <1>2, <1>3, <1>4, <1>5, <1>6 DEF m

LEMMA StopInv ==
  ASSUME DisplayAssumption, DisplayInv, NEW e \in Boxes, NEW clearQueue \in BOOLEAN,
         NEW gotoEnd \in BOOLEAN, Stop(e, clearQueue, gotoEnd)
  PROVE  DisplayInv'
<1> DEFINE o == node[e]
           n == IF clearQueue THEN [o EXCEPT !.waiting = <<>>] ELSE o
           m == IF gotoEnd THEN Ended(n) ELSE [SaveState(n) EXCEPT !.run = NoRun]
           left == IF gotoEnd THEN n.run.way ELSE "show"
           cross == ShowsLate(n) \/ (~gotoEnd /\ n.toggle # Absent)
           d == Dequeued(m)
           w == AskedLast(left, n.waiting)
<1>1. /\ o \in NodeType /\ o \in NodeInTurn /\ ~o.shows /\ look[e] \in Displays
      /\ bare \in {BrowserDisplay, "none"} /\ Settled(o)
      /\ e \notin touched => LooksKept(o, look[e])
      /\ e \notin lost => SizeIn(o)
      /\ e \notin crossed => LeadsTo(o, asked[e])
  BY Of
<1>2. /\ n.run # NoRun /\ Become(e, d, w, cross) /\ displayCalls' \in 0..DisplayCalls
      /\ lost' = IF ~gotoEnd /\ n.run.way = "show" /\ n.fxshow = Absent THEN lost \cup {e} ELSE lost
  BY CallTyped DEF Stop
<1>3. /\ n \in NodeInTurn /\ ~n.shows /\ n.run = o.run
      /\ (Hidden(n) <=> Hidden(o)) /\ (SizeIn(o) => SizeIn(n))
      /\ \A L \in Displays : LooksKept(o, L) => LooksKept(n, L)
  BY <1>1, ClearedFacts
<1> HIDE DEF o, n
<1>4. n.run.way \in {"show", "hide"}
  BY <1>1, <1>2, <1>3 DEF NodeInTurn, Settled, RunShaped
<1>5. /\ m \in NodeInTurn /\ m.run = NoRun /\ m.waiting = n.waiting /\ ~m.shows
      /\ \A L \in Displays : LooksKept(n, L) => LooksKept(m, L)
  BY <1>3, EndedFacts, SavedFacts
<1>6. e \notin lost' => SizeIn(m)
  <2>1. CASE gotoEnd
    <3>1. m.size = n.run.orig /\ m.fxshow = Absent
      BY <1>3, <2>1, EndedFacts
    <3>2. e \notin lost' => SizeIn(n)
      BY <1>1, <1>2, <1>3, <2>1
    <3> HIDE DEF m
    <3> QED BY <1>2, <1>5, <3>1, <3>2 DEF SizeIn
  <2>2. CASE ~gotoEnd
    <3>1. m.fxshow = IF n.run.way = "hide" /\ n.fxshow = Absent THEN n.run.start ELSE n.fxshow
      BY <1>3, <2>2, SavedFacts
    <3>2. e \notin lost' => SizeIn(n) /\ ~(n.run.way = "show" /\ n.fxshow = Absent)
      BY <1>1, <1>2, <1>3, <2>2
    <3> HIDE DEF m
    <3> QED BY <1>2, <1>4, <1>5, <3>1, <3>2 DEF SizeIn
  <2> QED BY <2>1, <2>2
<1>7. e \notin crossed /\ ~cross => m.toggle = Absent /\ (left = "hide" <=> Hidden(m))
  <2>1. e \notin crossed => ~Hidden(n)
    BY <1>1, <1>2, <1>3 DEF LeadsTo
  <2>2. CASE gotoEnd
    <3>1. m.toggle = Absent /\ (Hidden(m) <=> n.run.way = "hide" \/ Hidden(n))
      BY <1>3, <2>2, EndedFacts
    <3> HIDE DEF m
    <3> QED BY <2>1, <2>2, <3>1
  <2>3. CASE ~gotoEnd
    <3>1. m.toggle = n.toggle /\ (Hidden(m) <=> Hidden(n))
      BY <1>3, <2>3, SavedFacts
    <3> HIDE DEF m
    <3> QED BY <2>1, <2>3, <3>1
  <2> QED BY <2>2, <2>3
<1> HIDE DEF m
<1>8. m \in NodeType
  BY <1>5, NodeTypes
<1>9. /\ d \in NodeType /\ Settled(d)
      /\ \A L \in Displays : LooksKept(m, L) => LooksKept(d, L)
      /\ SizeIn(m) => SizeIn(d)
      /\ \A v \in {"show", "hide"} :
           m.toggle = Absent /\ (v = "hide" <=> Hidden(m)) /\ ~ShowsLate(m) =>
             LeadsTo(d, AskedLast(v, m.waiting))
  BY <1>1, <1>5, <1>8, DequeuedFacts
<1>10. ShowsLate(m) <=> ShowsLate(n)
  BY <1>5 DEF ShowsLate
<1>11. left \in {"show", "hide"}
  BY <1>4
<1>12. cross \in BOOLEAN /\ (~cross => ~ShowsLate(n))
  BY DEF ShowsLate
<1> HIDE DEF left, cross, d
<1>13. e \notin crossed /\ ~cross => LeadsTo(d, w)
  BY <1>5, <1>7, <1>9, <1>10, <1>11, <1>12
<1>14. w \in {"show", "hide"}
  <2>1. n.waiting \in Seq(Items)
    BY <1>3 DEF NodeInTurn
  <2>2. Len(n.waiting) \in 0..Len(n.waiting)
    BY <2>1
  <2> QED BY <1>11, <2>1, <2>2, AskedTyped DEF AskedLast
<1>15. lost \subseteq lost'
  BY <1>2
<1>16. e \notin touched => LooksKept(d, look[e])
  BY <1>1, <1>3, <1>5, <1>9
<1>17. e \notin lost' => SizeIn(d)
  BY <1>6, <1>9
<1> HIDE DEF w
<1> QED BY <1>2, <1>9, <1>12, <1>13, <1>14, <1>15, <1>16, <1>17, BecomeInv

\* A style or a style sheet that the page gives an element.
LEMMA RestyleInv ==
  ASSUME DisplayAssumption, DisplayInv, NEW e \in Boxes, NEW n \in NodeInTurn, Restyle(e, n),
         n.sized = node[e].sized, n.old = node[e].old, n.size = node[e].size,
         n.fxshow = node[e].fxshow, n.toggle = node[e].toggle, n.waiting = node[e].waiting,
         n.run = node[e].run, n.shows = node[e].shows
  PROVE  DisplayInv'
<1> DEFINE o == node[e]
<1>1. /\ o \in NodeType /\ ~o.shows /\ look[e] \in Displays
      /\ bare \in {BrowserDisplay, "none"} /\ Settled(o)
      /\ e \notin lost => SizeIn(o)
      /\ e \notin crossed => LeadsTo(o, asked[e])
  BY Of
<1>2. /\ node' = [node EXCEPT ![e] = n] /\ bare' = bare /\ lost' = lost
      /\ asked' = [asked EXCEPT ![e] = IF Hidden(n) THEN "hide" ELSE "show"]
      /\ crossed' = IF AtRest(e) THEN crossed ELSE crossed \cup {e}
      /\ displayCalls' \in 0..DisplayCalls
      /\ IF o.old = Absent /\ AtRest(e) THEN look' = [look EXCEPT ![e] = Look(n)] /\ touched' = touched
                                        ELSE touched' = touched \cup {e} /\ look' = look
  BY CallTyped DEF Restyle
<1>3. DefaultDisplay \in Displays /\ DefaultDisplay' = DefaultDisplay
  BY <1>1, <1>2 DEF DefaultDisplay, DisplayAssumption
<1>4. Look(n) \in Displays
  BY <1>3 DEF Look, Hidden, Display, NodeInTurn
<1>5. n \in NodeType
  BY <1>1, NodeTypes
<1>6. /\ node'[e] = n /\ asked'[e] = IF Hidden(n) THEN "hide" ELSE "show"
      /\ \A f \in Boxes \ {e} : node'[f] = node[f] /\ asked'[f] = asked[f] /\ look'[f] = look[f]
  BY <1>2 DEF DisplayInv, DisplayTypeOK
<1>7. DisplayTypeOK'
  BY <1>2, <1>4, <1>5 DEF DisplayInv, DisplayTypeOK
<1>8. \A f \in Boxes : Settled(node'[f])
  BY <1>1, <1>6 DEF DisplayInv, Settled, RunShaped
<1>9. \A f \in Boxes \ touched' : LooksKept(node'[f], look'[f])
  <2>1. \A f \in Boxes \ (touched' \cup {e}) : LooksKept(node'[f], look'[f])
    BY <1>2, <1>6 DEF DisplayInv
  <2>2. e \notin touched' => LooksKept(node'[e], look'[e])
    <3>1. e \notin touched' => n.old = Absent /\ look'[e] = Look(n)
      BY <1>2 DEF DisplayInv, DisplayTypeOK
    <3>2. n.style \in Displays \cup {"", "none"} /\ n.sheet \in Displays \cup {"none"}
      BY DEF NodeInTurn
    <3>3. n.old = Absent => LooksKept(n, Look(n))
      BY <3>2 DEF LooksKept, Looks, Look, Hidden, Display, DisplayAssumption
    <3> QED BY <1>6, <3>1, <3>3
  <2> QED BY <2>1, <2>2
<1>10. \A f \in Boxes \ touched' : LooksKept(node[f], look[f])'
  <2>1. \A f : LooksKept(node[f], look[f])' <=> LooksKept(node'[f], look'[f])
    BY <1>3 DEF LooksKept, Looks
  <2> QED BY <1>9, <2>1
<1>11. \A f \in Boxes \ lost' : SizeIn(node'[f])
  BY <1>1, <1>2, <1>6 DEF DisplayInv, SizeIn
<1>12. \A f \in Boxes \ crossed' : LeadsTo(node'[f], asked'[f])
  <2>1. \A f \in Boxes \ (crossed' \cup {e}) : LeadsTo(node'[f], asked'[f])
    BY <1>2, <1>6 DEF DisplayInv
  <2>2. e \notin crossed' => LeadsTo(node'[e], asked'[e])
    BY <1>1, <1>2, <1>6 DEF LeadsTo, AtRest
  <2> QED BY <2>1, <2>2
<1> QED BY <1>2, <1>7, <1>8, <1>10, <1>11, <1>12 DEF DisplayInv

LEMMA SetDisplayInv ==
  ASSUME DisplayAssumption, DisplayInv, NEW e \in Boxes,
         NEW d \in {"", "none", BrowserDisplay}, SetDisplay(e, d)
  PROVE  DisplayInv'
<1> DEFINE n == [node[e] EXCEPT !.style = d]
<1>1. node[e] \in NodeInTurn
  BY Of
<1>2. d \in Displays \cup {"", "none"}
  BY DEF DisplayAssumption
<1>3. n \in NodeInTurn
  BY <1>1, <1>2, Restyled
<1>4. /\ n.sized = node[e].sized /\ n.old = node[e].old /\ n.size = node[e].size
      /\ n.fxshow = node[e].fxshow /\ n.toggle = node[e].toggle /\ n.waiting = node[e].waiting
      /\ n.run = node[e].run /\ n.shows = node[e].shows
  BY <1>1 DEF NodeInTurn
<1>5. Restyle(e, n)
  BY DEF SetDisplay
<1> HIDE DEF n
<1> QED BY <1>3, <1>4, <1>5, RestyleInv

LEMMA SetSheetInv ==
  ASSUME DisplayAssumption, DisplayInv, NEW e \in Boxes,
         NEW d \in Displays \cup {"none"}, SetSheet(e, d)
  PROVE  DisplayInv'
<1> DEFINE n == [node[e] EXCEPT !.sheet = d]
<1>1. node[e] \in NodeInTurn
  BY Of
<1>2. n \in NodeInTurn
  BY <1>1 DEF NodeInTurn
<1>3. /\ n.sized = node[e].sized /\ n.old = node[e].old /\ n.size = node[e].size
      /\ n.fxshow = node[e].fxshow /\ n.toggle = node[e].toggle /\ n.waiting = node[e].waiting
      /\ n.run = node[e].run /\ n.shows = node[e].shows
  BY <1>1 DEF NodeInTurn
<1>4. Restyle(e, n)
  BY DEF SetSheet
<1> HIDE DEF n
<1> QED BY <1>2, <1>3, <1>4, RestyleInv

LEMMA NodeBegins ==
  ASSUME DisplayAssumption, NEW s \in BOOLEAN, NEW d \in Displays \cup {"none"}
  PROVE  LET n == [style |-> "", sheet |-> d, sized |-> s, old |-> Absent, size |-> Full,
                   fxshow |-> Absent, toggle |-> Absent, waiting |-> <<>>, run |-> NoRun,
                   shows |-> FALSE]
         IN  /\ n \in NodeType /\ n.run = NoRun /\ n.waiting = <<>> /\ n.style = "" /\ n.old = Absent
             /\ n.sheet = d /\ n.toggle = Absent /\ n.fxshow = Absent /\ n.size = Full
<1>1. Full \in Nat
  BY DEF DisplayAssumption
<1>2. NoRun \in Runs
  BY <1>1 DEF NoRun, Runs
<1>3. <<>> \in Seq([way : Ways, instant : BOOLEAN])
  OBVIOUS
<1> QED BY <1>1, <1>2, <1>3 DEF NodeType, Runs

LEMMA DisplayBegins == ASSUME DisplayAssumption, DisplayInit PROVE DisplayInv
<1>1. PICK sheet \in [Boxes -> Displays \cup {"none"}] :
        /\ node = [e \in Boxes |->
                     [style |-> "", sheet |-> sheet[e], sized |-> e \in SizedOnes,
                      old |-> Absent, size |-> Full, fxshow |-> Absent, toggle |-> Absent,
                      waiting |-> <<>>, run |-> NoRun, shows |-> FALSE]]
        /\ look = [e \in Boxes |-> Look(node[e])]
        /\ asked = [e \in Boxes |-> IF sheet[e] = "none" THEN "hide" ELSE "show"]
  BY DEF DisplayInit
<1>2. bare \in {BrowserDisplay, "none"} /\ displayCalls = 0
  BY DEF DisplayInit
<1>3. DefaultDisplay \in Displays
  BY <1>2 DEF DefaultDisplay, DisplayAssumption
<1>4. Full \in Nat /\ DisplayCalls \in Nat
  BY DEF DisplayAssumption
<1>6. ASSUME NEW e \in Boxes
      PROVE  /\ node[e] \in NodeType /\ node[e].run = NoRun /\ node[e].waiting = <<>>
             /\ node[e].style = "" /\ node[e].old = Absent /\ node[e].sheet = sheet[e]
             /\ node[e].toggle = Absent /\ node[e].fxshow = Absent /\ node[e].size = Full
             /\ sheet[e] \in Displays \cup {"none"}
  <2>1. node[e] = [style |-> "", sheet |-> sheet[e], sized |-> e \in SizedOnes,
                   old |-> Absent, size |-> Full, fxshow |-> Absent, toggle |-> Absent,
                   waiting |-> <<>>, run |-> NoRun, shows |-> FALSE]
    BY <1>1, Zenon
  <2>2. (e \in SizedOnes) \in BOOLEAN
    OBVIOUS
  <2>3. sheet[e] \in Displays \cup {"none"}
    BY <1>1
  <2>4. PICK s \in BOOLEAN : s = (e \in SizedOnes)
    BY <2>2, Zenon
  <2>5. node[e] = [style |-> "", sheet |-> sheet[e], sized |-> s,
                   old |-> Absent, size |-> Full, fxshow |-> Absent, toggle |-> Absent,
                   waiting |-> <<>>, run |-> NoRun, shows |-> FALSE]
    BY <2>1, <2>4, Zenon
  <2> DEFINE n == [style |-> "", sheet |-> sheet[e], sized |-> s,
                   old |-> Absent, size |-> Full, fxshow |-> Absent, toggle |-> Absent,
                   waiting |-> <<>>, run |-> NoRun, shows |-> FALSE]
  <2>6. /\ n \in NodeType /\ n.run = NoRun /\ n.waiting = <<>> /\ n.style = "" /\ n.old = Absent
        /\ n.sheet = sheet[e] /\ n.toggle = Absent /\ n.fxshow = Absent /\ n.size = Full
    BY <2>3, NodeBegins, Zenon
  <2> HIDE DEF n
  <2> QED BY <2>3, <2>5, <2>6, Zenon DEF n
<1>7. node \in [Boxes -> NodeType]
  BY <1>1, <1>6
<1>8. \A e \in Boxes : Look(node[e]) \in Displays /\ LooksKept(node[e], Look(node[e]))
  BY <1>3, <1>6 DEF Look, LooksKept, Looks, Hidden, Display, DisplayAssumption
<1>9. DisplayTypeOK
  <2>1. look = [e \in Boxes |-> Look(node[e])] /\ bare \in Displays \cup {"none"}
    BY <1>1, <1>2 DEF DisplayAssumption
  <2>2. asked \in [Boxes -> {"show", "hide"}]
    BY <1>1
  <2> QED BY <1>2, <1>4, <1>7, <1>8, <2>1, <2>2 DEF DisplayTypeOK
<1>10. \A e \in Boxes : Settled(node[e]) /\ SizeIn(node[e])
  BY <1>6 DEF Settled, RunShaped, SizeIn
<1>11. \A e \in Boxes : look[e] = Look(node[e])
  BY <1>1
<1>12. \A e \in Boxes : LeadsTo(node[e], asked[e])
  BY <1>1, <1>6 DEF LeadsTo, Hidden, Display
<1> QED BY <1>2, <1>8, <1>9, <1>10, <1>11, <1>12 DEF DisplayInv

LEMMA DisplayKept == ASSUME DisplayAssumption, DisplayInv, [DisplayNext]_displayVars PROVE DisplayInv'
<1>1. CASE UNCHANGED displayVars
  <2>1. /\ node' = node /\ bare' = bare /\ look' = look /\ touched' = touched /\ asked' = asked
        /\ crossed' = crossed /\ lost' = lost /\ displayCalls' = displayCalls
    BY <1>1 DEF displayVars
  <2>2. \A e \in Boxes : LooksKept(node[e], look[e])' <=> LooksKept(node[e], look[e])
    BY <2>1 DEF LooksKept, Looks, DefaultDisplay
  <2> QED BY <2>1, <2>2 DEF DisplayInv, DisplayTypeOK
<1>2. CASE DisplayNext
  <2>1. PICK e \in Boxes :
          \/ Show(e) \/ Hide(e) \/ Toggle(e) \/ DisplayStep(e) \/ End(e)
          \/ \E way \in Ways, instant \in BOOLEAN : Animate(e, [way |-> way, instant |-> instant])
          \/ \E clearQueue, gotoEnd \in BOOLEAN : Stop(e, clearQueue, gotoEnd)
          \/ \E d \in {"", "none", BrowserDisplay} : SetDisplay(e, d)
          \/ \E d \in Displays \cup {"none"} : SetSheet(e, d)
    BY <1>2 DEF DisplayNext
  <2>2. CASE Show(e) \/ Hide(e) \/ Toggle(e)
    BY <2>2, ShowInv, HideInv DEF Toggle
  <2>3. CASE DisplayStep(e)
    BY <2>3, StepInv
  <2>4. CASE End(e)
    BY <2>4, EndInv
  <2>5. ASSUME NEW way \in Ways, NEW instant \in BOOLEAN, Animate(e, [way |-> way, instant |-> instant])
        PROVE  DisplayInv'
    <3>1. [way |-> way, instant |-> instant] \in Items
      BY DEF Items
    <3> QED BY <2>5, <3>1, AnimateInv
  <2>6. ASSUME NEW clearQueue \in BOOLEAN, NEW gotoEnd \in BOOLEAN, Stop(e, clearQueue, gotoEnd)
        PROVE  DisplayInv'
    BY <2>6, StopInv
  <2>7. ASSUME NEW d \in {"", "none", BrowserDisplay}, SetDisplay(e, d)
        PROVE  DisplayInv'
    BY <2>7, SetDisplayInv
  <2>8. ASSUME NEW d \in Displays \cup {"none"}, SetSheet(e, d)
        PROVE  DisplayInv'
    BY <2>8, SetSheetInv
  <2> QED BY <2>1, <2>2, <2>3, <2>4, <2>5, <2>6, <2>7, <2>8
<1> QED BY <1>1, <1>2

\* Whatever is animated, stopped and picked up again in whatever order, an element, what jQuery
\* keeps of it and what is queued for it stay what the code reads them as.
THEOREM DisplayTyped == ASSUME DisplayAssumption PROVE DisplaySpec => []DisplayTypeOK
<1>1. DisplayInit => DisplayInv
  BY DisplayBegins
<1>2. DisplayInv /\ [DisplayNext]_displayVars => DisplayInv'
  BY DisplayKept
<1>3. DisplayInv => DisplayTypeOK
  BY DEF DisplayInv
<1> QED BY <1>1, <1>2, <1>3, PTL DEF DisplaySpec

LEMMA InvRestores == ASSUME DisplayAssumption, DisplayInv PROVE DisplayRestored
<1>1. LooksAsBefore
  <2> SUFFICES ASSUME NEW e \in Boxes \ touched, ~Hidden(node[e])
               PROVE  Display(node[e]) \in Looks(node[e], look[e])
    BY DEF LooksAsBefore, Looks
  <2>1. LooksKept(node[e], look[e]) /\ look[e] \in Displays
    BY Of
  <2> QED BY <2>1 DEF LooksKept, Looks, Hidden, Display
<1>2. SizeKept
  BY DEF DisplayInv, SizeKept, SizeIn
<1>3. EndsAsAsked
  BY DEF DisplayInv, EndsAsAsked, AtRest, LeadsTo
<1> QED BY <1>1, <1>2, <1>3 DEF DisplayRestored

\* An element that the page shows and hides only through jQuery has its display back whenever it
\* is shown, the animated property gets its own value back, and when all that was queued has ended
\* the element is as the last call asked: for any elements, displays, length of an animation and
\* number of calls.
THEOREM DisplayComesBack == ASSUME DisplayAssumption PROVE DisplaySpec => []DisplayRestored
<1>1. DisplayInit => DisplayInv
  BY DisplayBegins
<1>2. DisplayInv /\ [DisplayNext]_displayVars => DisplayInv'
  BY DisplayKept
<1>3. DisplayInv => DisplayRestored
  BY InvRestores
<1> QED BY <1>1, <1>2, <1>3, PTL DEF DisplaySpec
-----------------------------------------------------------------------------
\* PublicCallbacks: one list, and the fire that calls it.
Cells ==
  [list : Seq(Callbacks), on : BOOLEAN, stack : Seq(Nat), open : BOOLEAN,
   memory : Nat \cup {Undefined, True}, firing : BOOLEAN, index : Int, length : Int]
Fires == [list : FlagSets, value : Nat, in : Callbacks \cup {Nobody}]

\* The callbacks that a fire is through with or is calling.
Behind(c, fire) == IF fire.in = Nobody THEN c.index ELSE c.index + 1

Distinct(s) == \A i, j \in 1..Len(s) : s[i] = s[j] => i = j

\* What was heard of the callbacks of a list that goes on after the first k.
GoesOn(kinds, c, k, b) ==
  /\ c.length = Len(c.list) /\ k \in 0..Len(c.list)
  /\ \A g \in b.heard : \E i \in 1..Len(c.list) : c.list[i] = g
  /\ b.whole /\ ~b.halted => \A i \in 1..k : c.list[i] \in b.heard
  /\ "unique" \in kinds => \A i \in (k + 1)..Len(c.list) : c.list[i] \notin b.heard

OneFire(kinds, c, fs, b, s) ==
  /\ Len(fs) = 1 /\ fs[1].list = kinds
  /\ CB!Remembers(c) => c.memory = fs[1].value
  /\ s # Undefined => s = fs[1].value \/ (s = True /\ ~c.on)
  /\ c.on => GoesOn(kinds, c, Behind(c, fs[1]), b)
  /\ b.halted => fs[1].in = Nobody /\ c.index = c.length

Steady(kinds, c, fs, b, s) ==
  /\ ~c.on => c.list = <<>>
  /\ ~c.open => c.stack = <<>>
  /\ "unique" \in kinds => Distinct(c.list)
  /\ s # Undefined => ~c.open /\ c.memory \in {s, Undefined, True}
  /\ ~c.firing => fs = <<>>
  /\ c.firing => OneFire(kinds, c, fs, b, s)

PublicTyped ==
  /\ chosen \in FlagSets /\ public \in [FlagSets -> Cells] /\ publicFrames \in Seq(Fires)
  /\ publicOps \in Nat /\ shut \in Nat \cup {Undefined, True}
  /\ batch \in [whole : BOOLEAN, heard : SUBSET Callbacks, halted : BOOLEAN]

PublicInv ==
  ~disturbed => PublicTyped /\ Steady(chosen, public[chosen], publicFrames, batch, shut)

\* A step of the page or of the loop, seen from the list.
LEMMA ListSet ==
  ASSUME PublicTyped, NEW c \in Cells, public' = [public EXCEPT ![chosen] = c], chosen' = chosen
  PROVE  public' \in [FlagSets -> Cells] /\ public'[chosen'] = c
BY DEF PublicTyped

LEMMA ListIs ==
  ASSUME PublicTyped
  PROVE  /\ public[chosen] \in Cells
         /\ publicFrames # <<>> =>
              /\ Len(publicFrames) \in Nat \ {0}
              /\ Last(publicFrames) = publicFrames[Len(publicFrames)]
              /\ Last(publicFrames) \in Fires
BY DEF PublicTyped, Last

LEMMA CellIs ==
  ASSUME NEW c \in Cells
  PROVE  /\ c.list \in Seq(Callbacks) /\ c.on \in BOOLEAN /\ c.stack \in Seq(Nat)
         /\ c.open \in BOOLEAN /\ c.memory \in Nat \cup {Undefined, True}
         /\ c.firing \in BOOLEAN /\ c.index \in Int /\ c.length \in Int
BY DEF Cells

LEMMA PublicStart ==
  ASSUME PublicInit
  PROVE  PublicInv
<1> DEFINE c == CB!NewList(<<>>)
<1>1. c \in Cells /\ c.list = <<>> /\ c.on /\ c.stack = <<>> /\ c.open /\ ~c.firing
  BY DEF CB!NewList, Cells
<1>2. public \in [FlagSets -> Cells] /\ public[chosen] = c
  BY <1>1 DEF PublicInit
<1> HIDE DEF c
<1>3. PublicTyped
  BY <1>2 DEF PublicInit, PublicTyped, Batch
<1>4. Steady(chosen, c, <<>>, batch, Undefined)
  BY <1>1 DEF Steady, Distinct
<1> QED BY <1>2, <1>3, <1>4 DEF PublicInit, PublicInv

\* What was kept of the places of a list, up to i, by the loop of remove.
Moved(m) ==
  IF m.firing /\ Len(m.list) <= m.length
  THEN [m EXCEPT !.length = @ - 1, !.index = IF Len(m.list) <= @ THEN @ - 1 ELSE @] ELSE m

PastPlace(f, g, m) == IF g = f THEN Moved(m) ELSE [m EXCEPT !.list = Append(@, g)]

LEMMA RemovedIs ==
  ASSUME NEW c \in Cells, NEW f
  PROVE  \E p : /\ p[0] = [c EXCEPT !.list = <<>>]
                /\ \A i \in 1..Len(c.list) : p[i] = PastPlace(f, c.list[i], p[i - 1])
                /\ CB!Removed(c, f) = p[Len(c.list)]
<1> DEFINE N == Len(c.list)
           start == [c EXCEPT !.list = <<>>]
           Then(m, i) == PastPlace(f, c.list[i], m)
           Recurs(g, k) == g = [i \in 0..k |-> IF i = 0 THEN start ELSE Then(g[i - 1], i)]
           S == {k \in Nat : \E g : Recurs(g, k)}
<1>0. N \in Nat
  BY CellIs
<1>1. CB!Removed(c, f) = (CHOOSE g : Recurs(g, N))[N]
  BY DEF CB!Removed, PastPlace, Moved
<1> HIDE DEF Then, start, N
<1>2. 0 \in S
  <2> DEFINE g == [i \in 0..0 |-> start]
  <2>1. Recurs(g, 0)
    OBVIOUS
  <2> HIDE DEF g, Recurs
  <2> QED BY <2>1
<1>3. ASSUME NEW k \in S PROVE k + 1 \in S
  <2>1. PICK g : Recurs(g, k)
    OBVIOUS
  <2> DEFINE h == [i \in 0..(k + 1) |-> IF i = k + 1 THEN Then(g[k], k + 1) ELSE g[i]]
  <2>2. \A i \in 0..k : g[i] = IF i = 0 THEN start ELSE Then(g[i - 1], i)
    BY <2>1
  <2>3. \A i \in 0..(k + 1) : h[i] = IF i = 0 THEN start ELSE Then(h[i - 1], i)
    <3> SUFFICES ASSUME NEW i \in 0..(k + 1)
                 PROVE  h[i] = IF i = 0 THEN start ELSE Then(h[i - 1], i)
      OBVIOUS
    <3>1. CASE i = k + 1
      BY <3>1
    <3>2. CASE i # k + 1
      BY <2>2, <3>2
    <3> QED BY <3>1, <3>2
  <2>4. Recurs(h, k + 1)
    BY <2>3
  <2> HIDE DEF h, Recurs
  <2> QED BY <2>4
<1>4. N \in S
  <2>1. S \subseteq Nat
    OBVIOUS
  <2> HIDE DEF S
  <2>2. S = Nat
    BY <1>2, <1>3, <2>1, Climb
  <2> QED BY <1>0, <2>2
<1>5. \E g : Recurs(g, N)
  BY <1>4
<1> DEFINE p == CHOOSE g : Recurs(g, N)
<1>6. Recurs(p, N)
  <2> HIDE DEF Recurs
  <2> QED BY <1>5
<1> HIDE DEF p
<1>7. p[0] = start /\ \A i \in 1..N : p[i] = Then(p[i - 1], i)
  BY <1>0, <1>6
<1>8. CB!Removed(c, f) = p[N]
  BY <1>1 DEF p
<1> HIDE DEF Recurs, S
<1> QED BY <1>7, <1>8 DEF Then, start, N

\* What the first i places of a list have left of it when every f of them is taken out.
Leaves(c, f, i, m) ==
  /\ m \in Cells /\ Len(m.list) <= i
  /\ m.on = c.on /\ m.stack = c.stack /\ m.open = c.open /\ m.memory = c.memory
  /\ m.firing = c.firing
  /\ \A j \in 1..Len(m.list) : \E h \in 1..i : m.list[j] = c.list[h] /\ c.list[h] # f
  /\ \A h \in 1..i : c.list[h] # f => \E j \in 1..Len(m.list) : m.list[j] = c.list[h]
  /\ Distinct(c.list) => Distinct(m.list)

\* A fire that is at its index k keeps its place.
KeepsPlace(c, f, i, m) ==
  /\ m.length = Len(c.list) - (i - Len(m.list))
  /\ i <= c.index + 1 => m.index = c.index - (i - Len(m.list))
  /\ i >= c.index + 1 =>
       /\ m.index + 1 \in 0..Len(m.list)
       /\ \A j \in 1..(m.index + 1) : \E h \in 1..(c.index + 1) :
            m.list[j] = c.list[h] /\ c.list[h] # f
       /\ \A j \in (m.index + 2)..Len(m.list) : \E h \in (c.index + 2)..i : m.list[j] = c.list[h]

AtPlace(c) == c.firing /\ c.length = Len(c.list) /\ c.index + 1 \in 0..Len(c.list)

LEMMA PastLeaves ==
  ASSUME NEW c \in Cells, NEW f, NEW i \in 1..Len(c.list), NEW m, Leaves(c, f, i - 1, m)
  PROVE  Leaves(c, f, i, PastPlace(f, c.list[i], m))
<1> DEFINE n == PastPlace(f, c.list[i], m)
           g == c.list[i]
<1>1. /\ m \in Cells /\ m.list \in Seq(Callbacks) /\ Len(m.list) \in Nat /\ i \in Nat
      /\ c.list \in Seq(Callbacks) /\ Len(c.list) \in Nat /\ g \in Callbacks
      /\ m.index \in Int /\ m.length \in Int
  BY CellIs DEF Leaves
<1>2. CASE g = f
  <2>1. /\ n \in Cells /\ n.list = m.list /\ n.on = m.on /\ n.stack = m.stack /\ n.open = m.open
        /\ n.memory = m.memory /\ n.firing = m.firing
    <3> DEFINE x == IF Len(m.list) <= m.index THEN m.index - 1 ELSE m.index
    <3>1. x \in Int /\ m.length - 1 \in Int
      BY <1>1
    <3>2. n = m \/ n = [m EXCEPT !.length = m.length - 1, !.index = x]
      BY <1>1, <1>2 DEF PastPlace, Moved, Cells
    <3> HIDE DEF x, n
    <3> QED BY <1>1, <3>1, <3>2 DEF Cells
  <2> HIDE DEF n
  <2>2. \A h \in 1..i : h = i \/ h \in 1..(i - 1)
    BY <1>1
  <2>3. \A h \in 1..(i - 1) : h \in 1..i
    BY <1>1
  <2>4. Len(n.list) <= i
    BY <1>1, <2>1 DEF Leaves
  <2> QED BY <1>2, <2>1, <2>2, <2>3, <2>4 DEF Leaves, n
<1>3. CASE g # f
  <2> DEFINE l == Len(m.list)
  <2>1. /\ n.list = Append(m.list, g) /\ n.on = m.on /\ n.stack = m.stack
        /\ n.open = m.open /\ n.memory = m.memory /\ n.firing = m.firing
        /\ n = [m EXCEPT !.list = Append(m.list, g)]
    BY <1>1, <1>3 DEF PastPlace, Cells
  <2>2. /\ n.list \in Seq(Callbacks) /\ Len(n.list) = l + 1 /\ n.list[l + 1] = g
        /\ \A j \in 1..l : n.list[j] = m.list[j]
    BY <1>1, <2>1
  <2>3. n \in Cells
    BY <1>1, <2>1, <2>2 DEF Cells
  <2> HIDE DEF n
  <2>4. l \in Nat /\ l <= i - 1
    BY <1>1 DEF Leaves
  <2> HIDE DEF l
  <2>5. \A j \in 1..(l + 1) : j = l + 1 \/ j \in 1..l
    BY <2>4
  <2>6. ASSUME NEW j \in 1..(l + 1)
        PROVE  \E h \in 1..i : n.list[j] = c.list[h] /\ c.list[h] # f
    <3>1. CASE j = l + 1
      BY <3>1, <1>1, <1>3, <2>2
    <3>2. CASE j \in 1..l
      <4>1. PICK h \in 1..(i - 1) : m.list[j] = c.list[h] /\ c.list[h] # f
        BY <3>2 DEF Leaves, l
      <4> QED BY <4>1, <3>2, <2>2, <1>1
    <3> QED BY <3>1, <3>2, <2>5
  <2>7. ASSUME NEW h \in 1..i, c.list[h] # f
        PROVE  \E j \in 1..(l + 1) : n.list[j] = c.list[h]
    <3>1. CASE h = i
      BY <3>1, <2>2, <2>4
    <3>2. CASE h \in 1..(i - 1)
      <4>1. PICK j \in 1..l : m.list[j] = c.list[h]
        BY <3>2, <2>7 DEF Leaves, l
      <4> QED BY <4>1, <2>2, <2>4
    <3> QED BY <3>1, <3>2, <1>1
  <2>8. ASSUME Distinct(c.list) PROVE Distinct(n.list)
    <3>1. \A j \in 1..l : m.list[j] # g
      <4> SUFFICES ASSUME NEW j \in 1..l, m.list[j] = g PROVE FALSE
        OBVIOUS
      <4>1. PICK h \in 1..(i - 1) : m.list[j] = c.list[h]
        BY DEF Leaves, l
      <4>2. h \in 1..Len(c.list) /\ h # i
        BY <1>1
      <4> QED BY <4>1, <4>2, <2>8 DEF Distinct
    <3>2. Distinct(m.list)
      BY <2>8 DEF Leaves
    <3>3. \A j, k \in 1..l : n.list[j] = n.list[k] => j = k
      BY <3>2, <2>2 DEF Distinct, l
    <3> QED BY <3>1, <3>3, <2>2, <2>5 DEF Distinct
  <2>9. Len(n.list) <= i /\ Len(n.list) = l + 1
    BY <1>1, <2>2, <2>4
  <2>10. /\ n.on = c.on /\ n.stack = c.stack /\ n.open = c.open /\ n.memory = c.memory
         /\ n.firing = c.firing
    BY <2>1 DEF Leaves
  <2>11. \A j \in 1..Len(n.list) : \E h \in 1..i : n.list[j] = c.list[h] /\ c.list[h] # f
    BY <2>6, <2>9
  <2>12. \A h \in 1..i : c.list[h] # f => \E j \in 1..Len(n.list) : n.list[j] = c.list[h]
    BY <2>7, <2>9
  <2> HIDE DEF g
  <2>13. Leaves(c, f, i, n)
    BY <2>3, <2>8, <2>9, <2>10, <2>11, <2>12 DEF Leaves
  <2> QED BY <2>13 DEF n, g
<1> QED BY <1>2, <1>3

LEMMA PastKeepsPlace ==
  ASSUME NEW c \in Cells, AtPlace(c), NEW f, NEW i \in 1..Len(c.list), NEW m,
         Leaves(c, f, i - 1, m), KeepsPlace(c, f, i - 1, m)
  PROVE  KeepsPlace(c, f, i, PastPlace(f, c.list[i], m))
<1> DEFINE n == PastPlace(f, c.list[i], m)
           g == c.list[i]
           l == Len(m.list)
           x == c.index
           N == Len(c.list)
<1>1. /\ m \in Cells /\ m.list \in Seq(Callbacks) /\ l \in Nat /\ i \in Nat /\ i - 1 \in Nat
      /\ N \in Nat /\ i <= N /\ g \in Callbacks /\ x \in Int /\ x + 1 \in 0..N
      /\ m.index \in Int /\ m.length \in Int /\ l <= i - 1
  BY CellIs DEF Leaves, AtPlace
<1>2. /\ m.firing /\ m.length = N - ((i - 1) - l)
      /\ i - 1 <= x + 1 => m.index = x - ((i - 1) - l)
      /\ i - 1 >= x + 1 =>
           /\ m.index + 1 \in 0..l
           /\ \A j \in 1..(m.index + 1) : \E h \in 1..(x + 1) : m.list[j] = c.list[h] /\ c.list[h] # f
           /\ \A j \in (m.index + 2)..l : \E h \in (x + 2)..(i - 1) : m.list[j] = c.list[h]
  BY DEF Leaves, KeepsPlace, AtPlace
<1>3. /\ n.length = N - (i - Len(n.list))
      /\ n.list = (IF g = f THEN m.list ELSE Append(m.list, g))
      /\ n.index = IF g = f /\ l <= m.index THEN m.index - 1 ELSE m.index
  <2>1. CASE g = f
    <3>1. l <= m.length
      BY <1>1, <1>2, SMTT(30)
    <3>2. n = [m EXCEPT !.length = m.length - 1,
                        !.index = IF l <= m.index THEN m.index - 1 ELSE m.index]
      BY <2>1, <3>1, <1>1, <1>2 DEF PastPlace, Moved, Cells
    <3>3. n.list = m.list /\ n.length = m.length - 1
          /\ n.index = IF l <= m.index THEN m.index - 1 ELSE m.index
      BY <3>2, <1>1 DEF Cells
    <3> HIDE DEF n
    <3> QED BY <2>1, <3>3, <1>1, <1>2, SMTT(30)
  <2>2. CASE g # f
    <3>1. n.list = Append(m.list, g) /\ n.length = m.length /\ n.index = m.index
      BY <2>2, <1>1 DEF PastPlace, Cells
    <3>2. Len(Append(m.list, g)) = l + 1
      BY <1>1
    <3>3. Len(n.list) = l + 1
      BY <3>1, <3>2
    <3> HIDE DEF n, l, N, g
    <3>4. n.length = N - (i - Len(n.list))
      BY <3>1, <3>3, <1>1, <1>2
    <3> QED BY <2>2, <3>1, <3>4
  <2> QED BY <2>1, <2>2
<1> HIDE DEF n
<1>4. g = f => Len(n.list) = l /\ \A j \in 1..l : n.list[j] = m.list[j]
  BY <1>3
<1>5. g # f => /\ Len(n.list) = l + 1 /\ n.list[l + 1] = g
               /\ \A j \in 1..l : n.list[j] = m.list[j]
  BY <1>1, <1>3
<1> HIDE DEF g, l, x, N
<1>6. ASSUME i <= x + 1 PROVE KeepsPlace(c, f, i, n)
  <2>1. m.index = x - ((i - 1) - l) /\ l <= m.index
    BY <1>1, <1>2, <1>6
  <2>2. n.index = x - (i - Len(n.list))
    BY <1>1, <1>3, <1>4, <1>5, <2>1, SMTT(30)
  <2>3. ASSUME i = x + 1
        PROVE  /\ n.index + 1 = Len(n.list) /\ Len(n.list) \in Nat
               /\ \A j \in 1..Len(n.list) : \E h \in 1..(x + 1) :
                    n.list[j] = c.list[h] /\ c.list[h] # f
    <3>1. n.index + 1 = Len(n.list) /\ Len(n.list) \in Nat
      BY <1>1, <1>4, <1>5, <2>2, <2>3
    <3>2. Leaves(c, f, i, n)
      BY PastLeaves DEF n, g
    <3>3. \A j \in 1..Len(n.list) : \E h \in 1..i : n.list[j] = c.list[h] /\ c.list[h] # f
      BY <3>2 DEF Leaves
    <3> QED BY <3>1, <3>3, <2>3
  <2>4. i >= x + 1 => i = x + 1
    BY <1>1, <1>6
  <2>5. ASSUME i = x + 1 PROVE (n.index + 2)..Len(n.list) = {}
    <3>1. \A j \in (n.index + 2)..Len(n.list) : FALSE
      BY <1>1, <1>3, <2>3, <2>5
    <3> QED BY <3>1
  <2>6. ASSUME i = x + 1 PROVE n.index + 1 \in 0..Len(n.list)
    BY <2>3, <2>6
  <2>7. i >= x + 1 =>
          /\ n.index + 1 \in 0..Len(n.list)
          /\ \A j \in 1..(n.index + 1) : \E h \in 1..(x + 1) : n.list[j] = c.list[h] /\ c.list[h] # f
          /\ \A j \in (n.index + 2)..Len(n.list) : \E h \in (x + 2)..i : n.list[j] = c.list[h]
    BY <2>3, <2>4, <2>5, <2>6
  <2>8. n.length = N - (i - Len(n.list))
    BY <1>3
  <2> USE DEF x, N
  <2> QED BY <2>2, <2>7, <2>8, <1>6 DEF KeepsPlace
<1>7. ASSUME i > x + 1 PROVE KeepsPlace(c, f, i, n)
  <2>1. i - 1 >= x + 1 /\ ~(i <= x + 1)
    BY <1>1, <1>7
  <2>2. m.index + 1 \in 0..l
    BY <1>2, <2>1
  <2>3. n.index = m.index
    BY <1>1, <1>3, <2>2
  <2>4. n.index + 1 \in 0..Len(n.list)
    BY <1>1, <1>4, <1>5, <2>2, <2>3
  <2>5. ASSUME NEW j \in 1..(n.index + 1)
        PROVE  \E h \in 1..(x + 1) : n.list[j] = c.list[h] /\ c.list[h] # f
    <3>1. j \in 1..l /\ j \in 1..(m.index + 1)
      BY <1>1, <2>2, <2>3
    <3> QED BY <3>1, <1>2, <1>4, <1>5, <2>1
  <2>6. ASSUME NEW j \in (n.index + 2)..Len(n.list)
        PROVE  \E h \in (x + 2)..i : n.list[j] = c.list[h]
    <3>1. CASE j \in 1..l
      <4>1. j \in (m.index + 2)..l
        BY <3>1, <2>3, <1>1
      <4>2. PICK h \in (x + 2)..(i - 1) : m.list[j] = c.list[h]
        BY <4>1, <1>2, <2>1
      <4> QED BY <3>1, <4>2, <1>1, <1>4, <1>5
    <3>2. CASE j \notin 1..l
      <4>1. g # f /\ j = l + 1
        BY <3>2, <1>1, <1>4, <1>5, <2>2, <2>3
      <4>2. i \in (x + 2)..i
        BY <1>1, <1>7
      <4> QED BY <4>1, <4>2, <1>5 DEF g
    <3> QED BY <3>1, <3>2
  <2>7. n.length = N - (i - Len(n.list))
    BY <1>3
  <2>8. i <= x + 1 => n.index = x - (i - Len(n.list))
    BY <2>1, <1>1, <1>7
  <2> QED BY <2>4, <2>5, <2>6, <2>7, <2>8 DEF KeepsPlace, x, N
<1> QED BY <1>1, <1>6, <1>7 DEF n, g

\* What remove leaves of a list, and of a fire of it.
LEMMA RemovedLeaves ==
  ASSUME NEW c \in Cells, NEW f
  PROVE  LET r == CB!Removed(c, f)
         IN  /\ Leaves(c, f, Len(c.list), r)
             /\ AtPlace(c) => KeepsPlace(c, f, Len(c.list), r)
<1>0. c.list \in Seq(Callbacks) /\ Len(c.list) \in Nat /\ c.index \in Int
  BY CellIs
<1>1. PICK p : /\ p[0] = [c EXCEPT !.list = <<>>]
               /\ \A i \in 1..Len(c.list) : p[i] = PastPlace(f, c.list[i], p[i - 1])
               /\ CB!Removed(c, f) = p[Len(c.list)]
  BY RemovedIs
<1> DEFINE Holds(i) == Leaves(c, f, i, p[i]) /\ (AtPlace(c) => KeepsPlace(c, f, i, p[i]))
           S == {i \in Nat : i <= Len(c.list) => Holds(i)}
<1>2. 0 \in S
  <2>1. /\ p[0] \in Cells /\ p[0].list = <<>> /\ p[0].on = c.on /\ p[0].stack = c.stack
        /\ p[0].open = c.open /\ p[0].memory = c.memory /\ p[0].firing = c.firing
        /\ p[0].index = c.index /\ p[0].length = c.length
    <3>1. <<>> \in Seq(Callbacks)
      OBVIOUS
    <3> QED BY <3>1, <1>1 DEF Cells
  <2>2. Len(p[0].list) = 0
    BY <2>1
  <2>3. Leaves(c, f, 0, p[0])
    BY <2>1, <2>2 DEF Leaves, Distinct
  <2>4. ASSUME AtPlace(c) PROVE KeepsPlace(c, f, 0, p[0])
    BY <1>0, <2>1, <2>2, <2>4 DEF KeepsPlace, AtPlace
  <2> QED BY <2>3, <2>4
<1>3. ASSUME NEW i \in S PROVE i + 1 \in S
  <2> SUFFICES ASSUME i + 1 <= Len(c.list) PROVE Holds(i + 1)
    OBVIOUS
  <2>1. i + 1 \in 1..Len(c.list) /\ (i + 1) - 1 = i /\ Holds(i)
    BY <1>0
  <2>2. p[i + 1] = PastPlace(f, c.list[i + 1], p[i])
    BY <1>1, <2>1
  <2>3. Leaves(c, f, i + 1, p[i + 1])
    BY <2>1, <2>2, PastLeaves
  <2>4. ASSUME AtPlace(c) PROVE KeepsPlace(c, f, i + 1, p[i + 1])
    BY <2>1, <2>2, <2>4, PastKeepsPlace
  <2> QED BY <2>3, <2>4
<1>4. Holds(Len(c.list))
  <2>1. S \subseteq Nat
    OBVIOUS
  <2> HIDE DEF S
  <2>2. S = Nat
    BY <1>2, <1>3, <2>1, Climb
  <2> QED BY <1>0, <2>2 DEF S
<1> QED BY <1>1, <1>4

Batches == [whole : BOOLEAN, heard : SUBSET Callbacks, halted : BOOLEAN]

\* What a step has to leave of the list and of its fire.
LEMMA Stays ==
  ASSUME PublicTyped, NEW n \in Cells, public' = [public EXCEPT ![chosen] = n], chosen' = chosen,
         publicFrames' \in Seq(Fires), publicOps' \in Nat, shut' \in Nat \cup {Undefined, True},
         batch' \in Batches, Steady(chosen, n, publicFrames', batch', shut')
  PROVE  PublicInv'
<1>1. public' \in [FlagSets -> Cells] /\ public'[chosen'] = n /\ chosen \in FlagSets
  BY ListSet DEF PublicTyped
<1>2. PublicTyped'
  BY <1>1 DEF PublicTyped, Batches
<1>3. Steady(chosen', public'[chosen'], publicFrames', batch', shut')
  BY <1>1
<1> QED BY <1>2, <1>3 DEF PublicInv

\* What holds when the page calls: it is a callback of the fire, when one runs.
LEMMA PageCalls ==
  ASSUME PublicInv, ~disturbed
  PROVE  /\ PublicTyped /\ chosen \in FlagSets /\ public[chosen] \in Cells
         /\ publicFrames \in Seq(Fires) /\ publicOps \in Nat /\ publicOps + 1 \in Nat
         /\ shut \in Nat \cup {Undefined, True} /\ batch \in Batches
         /\ Steady(chosen, public[chosen], publicFrames, batch, shut)
         /\ public = [public EXCEPT ![chosen] = public[chosen]]
         /\ public[chosen].firing => publicFrames[1] \in Fires /\ Last(publicFrames) = publicFrames[1]
         /\ CB!PageRuns /\ public[chosen].firing => publicFrames[1].in \in Callbacks
<1>1. /\ PublicTyped /\ chosen \in FlagSets /\ public[chosen] \in Cells
      /\ publicFrames \in Seq(Fires) /\ publicOps \in Nat /\ publicOps + 1 \in Nat
      /\ shut \in Nat \cup {Undefined, True} /\ batch \in Batches
      /\ Steady(chosen, public[chosen], publicFrames, batch, shut)
      /\ public = [public EXCEPT ![chosen] = public[chosen]]
  BY DEF PublicInv, PublicTyped, Batches
<1>2. public[chosen].firing => /\ Len(publicFrames) = 1 /\ publicFrames # <<>>
                               /\ publicFrames[1] \in Fires
                               /\ Last(publicFrames) = publicFrames[1]
  <2> SUFFICES ASSUME public[chosen].firing
               PROVE  Len(publicFrames) = 1 /\ publicFrames # <<>> /\ publicFrames[1] \in Fires
                      /\ Last(publicFrames) = publicFrames[1]
    OBVIOUS
  <2>1. Len(publicFrames) = 1
    BY <1>1 DEF Steady, OneFire
  <2>2. ASSUME NEW S, NEW s \in Seq(S), Len(s) = 1 PROVE s # <<>> /\ s[1] \in S
    <3>1. s # <<>>
      BY <2>2
    <3>2. \A i \in 1..Len(s) : s[i] \in S
      OBVIOUS
    <3> QED BY <3>1, <3>2, <2>2
  <2>3. publicFrames # <<>> /\ publicFrames[1] \in Fires
    BY <1>1, <2>1, <2>2
  <2> QED BY <2>1, <2>3 DEF Last
<1>3. CB!PageRuns /\ public[chosen].firing => publicFrames[1].in \in Callbacks
  <2>1. \A fire \in Fires : fire.in # Nobody => fire.in \in Callbacks
    BY DEF Fires
  <2> QED BY <1>2, <2>1 DEF CB!PageRuns, CB!Last, Last
<1> QED BY <1>1, <1>2, <1>3

LEMMA PublicEmptyKeeps ==
  ASSUME PublicInv, PublicEmpty
  PROVE  PublicInv'
<1> SUFFICES ASSUME ~disturbed' PROVE PublicInv'
  BY DEF PublicInv
<1> DEFINE c == public[chosen]
           n == CB!Emptied(c)
<1>1. ~disturbed /\ ~c.firing
  BY DEF PublicEmpty
<1>2. PublicTyped /\ c \in Cells /\ Steady(chosen, c, publicFrames, batch, shut)
  BY <1>1, PageCalls
<1>3. <<>> \in Seq(Callbacks)
  OBVIOUS
<1>4. /\ n \in Cells /\ n.list = <<>> /\ n.on /\ n.stack = c.stack /\ n.open = c.open
      /\ n.memory = c.memory /\ n.firing = c.firing
  BY <1>2, <1>3 DEF CB!Emptied, Cells
<1>5. public' = [public EXCEPT ![chosen] = n]
  BY DEF PublicEmpty
<1> HIDE DEF n
<1>6. Steady(chosen, n, publicFrames, batch, shut)
  BY <1>1, <1>2, <1>4 DEF Steady, Distinct
<1>7. /\ publicFrames' = publicFrames /\ batch' = batch /\ shut' = shut /\ chosen' = chosen
      /\ publicOps' = publicOps + 1
  BY DEF PublicEmpty, PublicCalls
<1> QED BY <1>1, <1>2, <1>4, <1>5, <1>6, <1>7, Stays, PageCalls

\* A list is disabled, whatever it was.
LEMMA DisabledIs ==
  ASSUME NEW c \in Cells
  PROVE  LET n == CB!Disabled(c)
         IN  /\ n \in Cells /\ n.list = <<>> /\ ~n.on /\ n.stack = <<>> /\ ~n.open
             /\ n.memory = Undefined /\ n.firing = c.firing /\ n.index = c.index
             /\ n.length = c.length
<1>1. <<>> \in Seq(Callbacks) /\ <<>> \in Seq(Nat)
  OBVIOUS
<1> QED BY <1>1 DEF CB!Disabled, Cells

LEMMA DisabledSteady ==
  ASSUME NEW kinds, NEW c \in Cells, NEW fs, NEW b, NEW s,
         Steady(kinds, c, fs, b, s), NEW z, z = True \/ (z = s /\ s # Undefined)
  PROVE  Steady(kinds, CB!Disabled(c), fs, b, z)
<1> DEFINE n == CB!Disabled(c)
<1>1. /\ n.list = <<>> /\ ~n.on /\ n.stack = <<>> /\ ~n.open
      /\ n.memory = Undefined /\ n.firing = c.firing /\ n.index = c.index /\ n.length = c.length
  BY DisabledIs
<1> HIDE DEF n
<1>2. ~CB!Remembers(n)
  BY <1>1 DEF CB!Remembers
<1>3. ASSUME n.firing PROVE OneFire(kinds, n, fs, b, z)
  BY <1>1, <1>2, <1>3 DEF Steady, OneFire
<1>4. Distinct(n.list)
  BY <1>1 DEF Distinct
<1>5. Steady(kinds, n, fs, b, z)
  BY <1>1, <1>3, <1>4 DEF Steady
<1> QED BY <1>5 DEF n

LEMMA PublicDisableKeeps ==
  ASSUME PublicInv, PublicDisable
  PROVE  PublicInv'
<1> SUFFICES ASSUME ~disturbed' PROVE PublicInv'
  BY DEF PublicInv
<1> DEFINE c == public[chosen]
           n == CB!Disabled(c)
<1>1. ~disturbed
  BY DEF PublicDisable
<1>2. PublicTyped /\ c \in Cells /\ Steady(chosen, c, publicFrames, batch, shut)
  BY <1>1, PageCalls
<1>3. n \in Cells
  BY <1>2, DisabledIs
<1>4. public' = [public EXCEPT ![chosen] = n]
  BY DEF PublicDisable
<1>5. Steady(chosen, n, publicFrames, batch, True)
  BY <1>2, DisabledSteady
<1> HIDE DEF n
<1>6. /\ publicFrames' = publicFrames /\ batch' = batch /\ shut' = True /\ chosen' = chosen
      /\ publicOps' = publicOps + 1
  BY DEF PublicDisable, PublicCalls
<1> QED BY <1>1, <1>2, <1>3, <1>4, <1>5, <1>6, Stays, PageCalls

LEMMA PublicLockKeeps ==
  ASSUME PublicInv, PublicLock
  PROVE  PublicInv'
<1> SUFFICES ASSUME ~disturbed' PROVE PublicInv'
  BY DEF PublicInv
<1> DEFINE c == public[chosen]
           n == CB!Locked(c)
<1>1. ~disturbed
  BY DEF PublicLock
<1>2. /\ PublicTyped /\ c \in Cells /\ Steady(chosen, c, publicFrames, batch, shut)
      /\ shut \in Nat \cup {Undefined, True}
  BY <1>1, PageCalls
<1>3. public' = [public EXCEPT ![chosen] = n]
  BY DEF PublicLock
<1>4. /\ publicFrames' = publicFrames /\ batch' = batch /\ chosen' = chosen
      /\ publicOps' = publicOps + 1
      /\ shut' = IF shut # Undefined THEN shut ELSE IF CB!Remembers(c) THEN c.memory ELSE True
  BY DEF PublicLock, PublicCalls
<1>5. CASE CB!Remembers(c)
  <2>1. <<>> \in Seq(Nat)
    OBVIOUS
  <2>2. n = [c EXCEPT !.stack = <<>>, !.open = FALSE]
    BY <1>5 DEF CB!Locked
  <2>3. /\ n \in Cells /\ n.list = c.list /\ n.on = c.on /\ n.stack = <<>> /\ ~n.open
        /\ n.memory = c.memory /\ n.firing = c.firing /\ n.index = c.index /\ n.length = c.length
    BY <2>1, <2>2, <1>2 DEF Cells
  <2> HIDE DEF n
  <2>4. shut' \in Nat /\ shut' = c.memory /\ c.memory # Undefined
    BY <1>2, <1>4, <1>5, CellIs DEF CB!Remembers, Steady
  <2>5. ASSUME n.firing PROVE OneFire(chosen, n, publicFrames, batch, shut')
    <3>1. OneFire(chosen, c, publicFrames, batch, shut)
      BY <1>2, <2>3, <2>5 DEF Steady
    <3> QED BY <3>1, <1>5, <2>3, <2>4 DEF OneFire, CB!Remembers, GoesOn, Behind
  <2>6. Steady(chosen, n, publicFrames, batch, shut')
    BY <1>2, <2>3, <2>4, <2>5 DEF Steady
  <2> QED BY <1>1, <1>2, <1>3, <1>4, <2>3, <2>4, <2>6, Stays, PageCalls
<1>6. CASE ~CB!Remembers(c)
  <2>1. n = CB!Disabled(c)
    BY <1>6 DEF CB!Locked
  <2>2. n \in Cells
    BY <1>2, <2>1, DisabledIs
  <2>3. shut' = True \/ (shut' = shut /\ shut # Undefined)
    BY <1>4, <1>6
  <2>4. Steady(chosen, n, publicFrames, batch, shut')
    BY <1>2, <2>1, <2>3, DisabledSteady
  <2> HIDE DEF n
  <2>5. shut' \in Nat \cup {Undefined, True}
    BY <1>2, <2>3
  <2> QED BY <1>1, <1>2, <1>3, <1>4, <2>2, <2>4, <2>5, Stays, PageCalls
<1> QED BY <1>5, <1>6

LEMMA RemovedSteady ==
  ASSUME NEW kinds, NEW c \in Cells, NEW fs, NEW b, NEW s, NEW f, Steady(kinds, c, fs, b, s),
         c.on, c.firing => fs[1].in # Nobody,
         NEW z, z.whole = b.whole, z.halted = b.halted, z.heard = b.heard \ {f}
  PROVE  Steady(kinds, CB!Removed(c, f), fs, z, s)
<1> DEFINE r == CB!Removed(c, f)
           N == Len(c.list)
<1>1. Leaves(c, f, N, r) /\ (AtPlace(c) => KeepsPlace(c, f, N, r))
  BY RemovedLeaves
<1>2. /\ r \in Cells /\ r.on /\ r.stack = c.stack /\ r.open = c.open /\ r.memory = c.memory
      /\ r.firing = c.firing /\ (Distinct(c.list) => Distinct(r.list))
      /\ \A h \in 1..N : c.list[h] # f => \E j \in 1..Len(r.list) : r.list[j] = c.list[h]
  BY <1>1 DEF Leaves
<1> HIDE DEF r
<1>3. ASSUME c.firing PROVE OneFire(kinds, r, fs, z, s)
  <2>1. OneFire(kinds, c, fs, b, s)
    BY <1>3 DEF Steady
  <2>2. GoesOn(kinds, c, c.index + 1, b)
    BY <2>1, <1>3 DEF OneFire, Behind
  <2>3. N \in Nat /\ c.index \in Int /\ Len(r.list) \in Nat /\ r.index \in Int /\ r.length \in Int
    BY CellIs, <1>2
  <2>4. AtPlace(c) /\ N >= c.index + 1
    BY <1>3, <2>2, <2>3 DEF GoesOn, AtPlace
  <2>5. /\ r.length = N - (N - Len(r.list)) /\ r.index + 1 \in 0..Len(r.list)
        /\ \A j \in 1..(r.index + 1) : \E h \in 1..(c.index + 1) :
             r.list[j] = c.list[h] /\ c.list[h] # f
        /\ \A j \in (r.index + 2)..Len(r.list) : \E h \in (c.index + 2)..N : r.list[j] = c.list[h]
    BY <1>1, <2>4 DEF KeepsPlace
  <2>6. r.length = Len(r.list)
    BY <2>3, <2>5
  <2>7. \A g \in z.heard : \E i \in 1..Len(r.list) : r.list[i] = g
    <3> SUFFICES ASSUME NEW g \in b.heard, g # f PROVE \E i \in 1..Len(r.list) : r.list[i] = g
      OBVIOUS
    <3>1. PICK h \in 1..N : c.list[h] = g
      BY <2>2 DEF GoesOn
    <3> QED BY <3>1, <1>2
  <2>8. ASSUME z.whole, ~z.halted, NEW j \in 1..(r.index + 1) PROVE r.list[j] \in z.heard
    <3>1. PICK h \in 1..(c.index + 1) : r.list[j] = c.list[h] /\ c.list[h] # f
      BY <2>5
    <3>2. c.list[h] \in b.heard
      BY <2>2, <2>8 DEF GoesOn
    <3> QED BY <3>1, <3>2
  <2>9. ASSUME "unique" \in kinds, NEW j \in (r.index + 2)..Len(r.list) PROVE r.list[j] \notin z.heard
    <3>1. PICK h \in (c.index + 2)..N : r.list[j] = c.list[h]
      BY <2>5
    <3>2. h \in ((c.index + 1) + 1)..N
      BY <2>3
    <3>3. c.list[h] \notin b.heard
      BY <2>2, <2>9, <3>2 DEF GoesOn
    <3> QED BY <3>1, <3>3
  <2>10. (r.index + 1) + 1 = r.index + 2
    BY <2>3
  <2>11. GoesOn(kinds, r, r.index + 1, z)
    BY <2>5, <2>6, <2>7, <2>8, <2>9, <2>10 DEF GoesOn
  <2>12. ~z.halted
    BY <2>1, <1>3 DEF OneFire
  <2> QED BY <1>2, <1>3, <2>1, <2>11, <2>12 DEF OneFire, Behind, CB!Remembers
<1>4. Steady(kinds, r, fs, z, s)
  BY <1>2, <1>3 DEF Steady
<1> QED BY <1>4 DEF r

LEMMA PublicRemoveKeeps ==
  ASSUME PublicAssumption, PublicInv, NEW f \in Callbacks, PublicRemove(f)
  PROVE  PublicInv'
<1> SUFFICES ASSUME ~disturbed' PROVE PublicInv'
  BY DEF PublicInv
<1> DEFINE c == public[chosen]
           n == IF c.on THEN CB!Removed(c, f) ELSE c
<1>1. ~disturbed
  BY DEF PublicRemove
<1>2. /\ PublicTyped /\ c \in Cells /\ Steady(chosen, c, publicFrames, batch, shut)
      /\ batch \in Batches /\ publicFrames \in Seq(Fires) /\ publicOps + 1 \in Nat
      /\ shut \in Nat \cup {Undefined, True} /\ chosen \in FlagSets
  BY <1>1, PageCalls
<1>3. c.firing => publicFrames[1].in # Nobody
  BY <1>1, PageCalls DEF PublicRemove, PublicCalls, PublicAssumption
<1>4. /\ publicFrames' = publicFrames /\ shut' = shut /\ chosen' = chosen
      /\ publicOps' = publicOps + 1 /\ batch' = [batch EXCEPT !.heard = batch.heard \ {f}]
      /\ public' = [public EXCEPT ![chosen] = n]
  BY DEF PublicRemove, PublicCalls
<1>5. /\ batch' \in Batches /\ batch'.whole = batch.whole /\ batch'.halted = batch.halted
      /\ batch'.heard = batch.heard \ {f}
  BY <1>2, <1>4 DEF Batches
<1>6. CASE c.on
  <2>1. Steady(chosen, CB!Removed(c, f), publicFrames, batch', shut)
    BY <1>2, <1>3, <1>5, <1>6, RemovedSteady
  <2>2. CB!Removed(c, f) \in Cells
    BY <1>2, RemovedLeaves DEF Leaves
  <2>3. n = CB!Removed(c, f)
    BY <1>6
  <2> HIDE DEF n
  <2> QED BY <1>2, <1>4, <1>5, <2>1, <2>2, <2>3, Stays
<1>7. CASE ~c.on
  <2>1. n = c
    BY <1>7
  <2>2. Steady(chosen, c, publicFrames, batch', shut)
    BY <1>2, <1>5, <1>7 DEF Steady, OneFire
  <2> HIDE DEF n
  <2> QED BY <1>2, <1>4, <1>5, <2>1, <2>2, Stays
<1> QED BY <1>6, <1>7

\* What add makes of the callbacks of a list.
Grown(l, s, f, q) ==
  /\ q \in Seq(Callbacks) /\ Len(q) \in {Len(s), Len(s) + 1}
  /\ \A i \in 1..Len(s) : q[i] = s[i]
  /\ Len(q) = Len(s) + 1 => q[Len(s) + 1] = f /\ ("unique" \in l => \A i \in 1..Len(s) : s[i] # f)

LEMMA PushedIs ==
  ASSUME NEW l \in FlagSets, NEW s \in Seq(Callbacks), NEW f \in Callbacks
  PROVE  Grown(l, s, f, CB!Pushed(s, l, f))
<1> DEFINE p == CB!Pushed(s, l, f)
<1>1. CB!Has(l, "unique") <=> "unique" \in l
  BY DEF CB!Has
<1>2. p = IF "unique" \in l /\ (\E i \in 1..Len(s) : s[i] = f) THEN s ELSE Append(s, f)
  BY <1>1 DEF CB!Pushed, CB!Contains
<1> HIDE DEF p
<1>3. Grown(l, s, f, s)
  <2>1. Len(s) \in Nat
    OBVIOUS
  <2> QED BY <2>1 DEF Grown
<1>4. ASSUME ~("unique" \in l /\ \E i \in 1..Len(s) : s[i] = f) PROVE Grown(l, s, f, Append(s, f))
  <2> DEFINE q == Append(s, f)
  <2>1. q \in Seq(Callbacks) /\ Len(q) = Len(s) + 1 /\ q[Len(s) + 1] = f
        /\ \A i \in 1..Len(s) : q[i] = s[i]
    OBVIOUS
  <2> HIDE DEF q
  <2>2. Grown(l, s, f, q)
    BY <1>4, <2>1 DEF Grown
  <2> QED BY <2>2 DEF q
<1>5. Grown(l, s, f, p)
  BY <1>2, <1>3, <1>4
<1> QED BY <1>5 DEF p

LEMMA GrownDistinct ==
  ASSUME NEW l, "unique" \in l, NEW s \in Seq(Callbacks), NEW f, NEW p, Grown(l, s, f, p),
         Distinct(s)
  PROVE  Distinct(p)
<1>1. /\ p \in Seq(Callbacks) /\ Len(p) \in {Len(s), Len(s) + 1}
      /\ \A i \in 1..Len(s) : p[i] = s[i]
      /\ Len(p) = Len(s) + 1 => p[Len(s) + 1] = f /\ \A i \in 1..Len(s) : s[i] # f
  BY DEF Grown
<1>2. Len(s) \in Nat
  OBVIOUS
<1>3. ASSUME NEW i \in 1..Len(p), NEW j \in 1..Len(p), p[i] = p[j] PROVE i = j
  <2>1. \A k \in 1..Len(p) : k \in 1..Len(s) \/ (k = Len(s) + 1 /\ Len(p) = Len(s) + 1)
    BY <1>1, <1>2
  <2> QED BY <1>1, <1>2, <1>3, <2>1 DEF Distinct
<1> QED BY <1>3 DEF Distinct

\* A fire begins at a place of a list that has heard nothing yet.
LEMMA StartedIs ==
  ASSUME NEW kinds \in FlagSets, NEW c \in Cells, NEW v \in Nat, NEW from \in Nat
  PROVE  LET n == CB!Started(kinds, c, v, from)
         IN  /\ n \in Cells /\ n.list = c.list /\ n.on = c.on /\ n.stack = c.stack
             /\ n.open = c.open /\ n.memory \in {v, True} /\ n.firing /\ n.index = from
             /\ n.length = Len(c.list)
<1> DEFINE m == IF CB!Has(kinds, "memory") THEN v ELSE True
<1>1. m \in {v, True} /\ Len(c.list) \in Nat
  BY CellIs
<1>2. CB!Started(kinds, c, v, from) =
        [c EXCEPT !.memory = m, !.firing = TRUE, !.index = from, !.length = Len(c.list)]
  BY DEF CB!Started
<1> HIDE DEF m
<1>3. m \in Nat \cup {Undefined, True} /\ from \in Int /\ Len(c.list) \in Int
  BY <1>1
<1> QED BY <1>1, <1>2, <1>3 DEF Cells

LEMMA FireIs ==
  ASSUME NEW kinds \in FlagSets, NEW v \in Nat, NEW fs, fs = <<CB!FireOf(kinds, v)>>
  PROVE  /\ fs \in Seq(Fires) /\ Len(fs) = 1 /\ fs[1].list = kinds /\ fs[1].value = v
         /\ fs[1].in = Nobody
<1>1. CB!FireOf(kinds, v) \in Fires
  BY DEF CB!FireOf, Fires
<1> QED BY <1>1 DEF CB!FireOf

LEMMA StartedSteady ==
  ASSUME NEW kinds \in FlagSets, NEW c \in Cells, NEW v \in Nat, NEW from \in 0..Len(c.list),
         ~c.on => c.list = <<>>, ~c.open => c.stack = <<>>, "unique" \in kinds => Distinct(c.list),
         NEW s, s # Undefined => ~c.open /\ s = v,
         NEW b, b.heard = {}, ~b.halted, b.whole => from = 0,
         NEW fs, fs = <<CB!FireOf(kinds, v)>>
  PROVE  Steady(kinds, CB!Started(kinds, c, v, from), fs, b, s)
<1> DEFINE n == CB!Started(kinds, c, v, from)
<1>1. /\ n.list = c.list /\ n.on = c.on /\ n.stack = c.stack /\ n.open = c.open
      /\ n.memory \in {v, True} /\ n.firing /\ n.index = from /\ n.length = Len(c.list)
  BY StartedIs
<1>2. Len(fs) = 1 /\ fs[1].list = kinds /\ fs[1].value = v /\ fs[1].in = Nobody
  BY FireIs
<1> HIDE DEF n
<1>3. ~b.whole \/ \A i \in 1..from : n.list[i] \in b.heard
  BY CellIs
<1>4. GoesOn(kinds, n, from, b)
  BY <1>1, <1>3 DEF GoesOn
<1>5. OneFire(kinds, n, fs, b, s)
  BY <1>1, <1>2, <1>4 DEF OneFire, Behind, CB!Remembers
<1>6. Steady(kinds, n, fs, b, s)
  BY <1>1, <1>5 DEF Steady
<1> QED BY <1>6 DEF n

\* A callback is pushed while the list fires, or while it does not.
LEMMA PushedSteady ==
  ASSUME NEW kinds \in FlagSets, NEW c \in Cells, NEW fs, NEW b, NEW s, Steady(kinds, c, fs, b, s),
         c.on, NEW f \in Callbacks, c.firing => fs[1].in # Nobody,
         NEW p, Grown(kinds, c.list, f, p), NEW n, n.list = p, n.on, n.stack = c.stack, n.open = c.open,
         n.memory = c.memory, n.firing = c.firing, n.index = c.index,
         c.firing => n.length = Len(n.list)
  PROVE  Steady(kinds, n, fs, b, s)
<1> DEFINE L == Len(c.list)
<1>1. /\ p \in Seq(Callbacks) /\ Len(p) \in {L, L + 1}
      /\ \A i \in 1..L : p[i] = c.list[i]
      /\ Len(p) = L + 1 =>
           p[L + 1] = f /\ ("unique" \in kinds => \A i \in 1..L : c.list[i] # f)
  BY DEF Grown
<1>2. L \in Nat /\ c.index \in Int /\ Len(p) \in Nat
  BY CellIs, <1>1
<1>3. "unique" \in kinds => Distinct(p)
  BY CellIs, GrownDistinct DEF Steady
<1>5. ASSUME c.firing PROVE OneFire(kinds, n, fs, b, s)
  <2>1. OneFire(kinds, c, fs, b, s)
    BY <1>5 DEF Steady
  <2>2. GoesOn(kinds, c, c.index + 1, b)
    BY <2>1, <1>5 DEF OneFire, Behind
  <2>3. c.index + 1 \in 0..L /\ \A g \in b.heard : \E i \in 1..L : c.list[i] = g
    BY <2>2 DEF GoesOn
  <2>4. c.index + 1 \in 0..Len(p)
    BY <1>1, <1>2, <2>3
  <2>5. \A i \in 1..L : i \in 1..Len(p)
    BY <1>1, <1>2
  <2>6. \A g \in b.heard : \E i \in 1..Len(p) : p[i] = g
    BY <1>1, <2>3, <2>5
  <2>7. b.whole /\ ~b.halted => \A i \in 1..(c.index + 1) : p[i] \in b.heard
    <3>1. \A i \in 1..(c.index + 1) : i \in 1..L
      BY <1>2, <2>3
    <3> QED BY <1>1, <2>2, <3>1 DEF GoesOn
  <2>8. ASSUME "unique" \in kinds, NEW i \in ((c.index + 1) + 1)..Len(p) PROVE p[i] \notin b.heard
    <3>1. CASE i \in 1..L
      <4>1. i \in ((c.index + 1) + 1)..L
        BY <3>1, <1>2
      <4>2. c.list[i] \notin b.heard
        BY <4>1, <2>2, <2>8 DEF GoesOn
      <4> QED BY <3>1, <4>2, <1>1
    <3>2. CASE i \notin 1..L
      <4>1. i = L + 1 /\ Len(p) = L + 1
        BY <3>2, <1>1, <1>2, <2>3
      <4> QED BY <4>1, <1>1, <2>3, <2>8
    <3> QED BY <3>1, <3>2
  <2>9. GoesOn(kinds, n, c.index + 1, b)
    BY <1>5, <2>4, <2>6, <2>7, <2>8 DEF GoesOn
  <2>10. ~b.halted
    BY <2>1, <1>5 DEF OneFire
  <2> QED BY <2>1, <2>9, <2>10, <1>5 DEF OneFire, Behind, CB!Remembers
<1> QED BY <1>3, <1>5 DEF Steady

LEMMA NoneBegins ==
  ASSUME publicFrames \in Seq(Fires), publicFrames' = publicFrames
  PROVE  ~Begins
<1>1. Len(publicFrames) \in Nat
  OBVIOUS
<1> QED BY <1>1 DEF Begins

LEMMA PublicAddKeeps ==
  ASSUME PublicAssumption, PublicInv, NEW f \in Callbacks, PublicAdd(f)
  PROVE  PublicInv'
<1> SUFFICES ASSUME ~disturbed' PROVE PublicInv'
  BY DEF PublicInv
<1> DEFINE c == public[chosen]
           p == CB!Pushed(c.list, chosen, f)
           n == [c EXCEPT !.list = p]
<1>1. ~disturbed
  BY DEF PublicAdd
<1>2. /\ PublicTyped /\ c \in Cells /\ Steady(chosen, c, publicFrames, batch, shut)
      /\ batch \in Batches /\ publicFrames \in Seq(Fires) /\ publicOps + 1 \in Nat
      /\ shut \in Nat \cup {Undefined, True} /\ chosen \in FlagSets
      /\ public = [public EXCEPT ![chosen] = c]
  BY <1>1, PageCalls
<1>3. c.firing => publicFrames[1].in # Nobody
  BY <1>1, PageCalls DEF PublicAdd, PublicCalls, PublicAssumption
<1>4. /\ shut' = shut /\ chosen' = chosen /\ publicOps' = publicOps + 1
      /\ publicFrames' = CB!Add(CB!Now, chosen, f).fires
      /\ public' = CB!Add(CB!Now, chosen, f).cb
      /\ batch' = IF Begins THEN Batch(FALSE) ELSE batch
  BY DEF PublicAdd, PublicCalls, CB!Goto
<1>5. CB!Now = [cb |-> public, fires |-> publicFrames]
  BY DEF CB!Now
<1>6. /\ p \in Seq(Callbacks) /\ Len(c.list) \in Nat
      /\ Len(p) \in {Len(c.list), Len(c.list) + 1}
      /\ "unique" \in chosen => Distinct(p)
      /\ Grown(chosen, c.list, f, p)
  <2>1. Grown(chosen, c.list, f, p) /\ c.list \in Seq(Callbacks)
    BY <1>2, CellIs, PushedIs
  <2> HIDE DEF p
  <2>2. "unique" \in chosen => Distinct(p)
    BY <1>2, <2>1, GrownDistinct DEF Steady
  <2> QED BY <2>1, <2>2 DEF Grown
<1>7. /\ n \in Cells /\ n.list = p /\ n.on = c.on /\ n.stack = c.stack /\ n.open = c.open
      /\ n.memory = c.memory /\ n.firing = c.firing /\ n.index = c.index
      /\ [n EXCEPT !.length = Len(p)] \in Cells
  <2> HIDE DEF p
  <2>1. Len(p) \in Int
    BY <1>6
  <2> QED BY <1>2, <1>6, <2>1 DEF Cells
<1>8. CASE ~c.on
  <2>1. publicFrames' = publicFrames /\ public' = public
    BY <1>4, <1>5, <1>8 DEF CB!Add
  <2>2. batch' = batch
    BY <1>2, <1>4, <2>1, NoneBegins
  <2> QED BY <1>2, <1>4, <2>1, <2>2, Stays
<1>9. CASE c.on /\ c.firing
  <2> DEFINE q == [n EXCEPT !.length = Len(p)]
  <2>1. publicFrames' = publicFrames /\ public' = [public EXCEPT ![chosen] = q]
    BY <1>4, <1>5, <1>7, <1>9 DEF CB!Add
  <2>2. batch' = batch
    BY <1>2, <1>4, <2>1, NoneBegins
  <2>3. /\ q \in Cells /\ q.list = p /\ q.on /\ q.stack = c.stack /\ q.open = c.open
        /\ q.memory = c.memory /\ q.firing = c.firing /\ q.index = c.index /\ q.length = Len(p)
    BY <1>7, <1>9 DEF Cells
  <2> HIDE DEF q, n, p
  <2>4. Steady(chosen, q, publicFrames, batch, shut)
    BY <1>2, <1>3, <1>6, <1>9, <2>3, PushedSteady
  <2> QED BY <1>2, <1>4, <2>1, <2>2, <2>3, <2>4, Stays
<1>10. CASE c.on /\ ~c.firing /\ CB!Remembers(c)
  <2> DEFINE q == CB!Started(chosen, n, n.memory, Len(c.list))
  <2>1. CB!Remembers(n)
    BY <1>7, <1>10 DEF CB!Remembers
  <2>2. CB!Add(CB!Now, chosen, f) = CB!Fires(CB!Now, chosen, n, n.memory, Len(c.list))
    BY <1>5, <1>7, <1>10, <2>1 DEF CB!Add
  <2>3. publicFrames = <<>> /\ n.memory \in Nat /\ Len(c.list) \in 0..Len(n.list)
    BY <1>2, <1>6, <1>7, <1>10, CellIs DEF Steady, CB!Remembers
  <2>4. /\ publicFrames' = <<CB!FireOf(chosen, n.memory)>>
        /\ public' = [public EXCEPT ![chosen] = q]
    <3>1. /\ publicFrames' = Append(publicFrames, CB!FireOf(chosen, n.memory))
          /\ public' = [public EXCEPT ![chosen] = q]
      <4> HIDE DEF n, q
      <4>1. CB!Now.cb = public /\ CB!Now.fires = publicFrames
        BY <1>5
      <4>2. CB!Add(CB!Now, chosen, f) =
              [cb    |-> [public EXCEPT ![chosen] = q],
               fires |-> Append(publicFrames, CB!FireOf(chosen, n.memory))]
        BY <2>2, <4>1 DEF CB!Fires, q
      <4> QED BY <1>4, <4>2
    <3>2. \A x : Append(<<>>, x) = <<x>>
      OBVIOUS
    <3> QED BY <2>3, <3>1, <3>2
  <2>5. batch' = Batch(FALSE)
    BY <1>4, <2>3, <2>4 DEF Begins
  <2>6. batch' \in Batches /\ batch'.heard = {} /\ ~batch'.halted /\ ~batch'.whole
    BY <2>5 DEF Batches, Batch
  <2>7. shut # Undefined => ~n.open /\ shut = n.memory
    BY <1>2, <1>7, <1>10 DEF Steady, CB!Remembers
  <2> HIDE DEF n
  <2>8. Steady(chosen, q, publicFrames', batch', shut)
    <3>1. /\ ~n.on => n.list = <<>>
          /\ ~n.open => n.stack = <<>>
          /\ "unique" \in chosen => Distinct(n.list)
      BY <1>2, <1>6, <1>7, <1>10 DEF Steady
    <3> QED BY <1>2, <1>7, <2>3, <2>4, <2>6, <2>7, <3>1, StartedSteady
  <2>9. q \in Cells /\ publicFrames' \in Seq(Fires)
    <3>1. q \in Cells
      BY <1>2, <1>6, <1>7, <2>3, StartedIs
    <3>2. publicFrames' \in Seq(Fires)
      BY <1>2, <2>3, <2>4, FireIs
    <3> QED BY <3>1, <3>2
  <2> HIDE DEF q
  <2> QED BY <1>2, <1>4, <2>4, <2>6, <2>8, <2>9, Stays
<1>11. CASE c.on /\ ~c.firing /\ ~CB!Remembers(c)
  <2>1. ~CB!Remembers(n)
    BY <1>7, <1>11 DEF CB!Remembers
  <2>2. publicFrames' = publicFrames /\ public' = [public EXCEPT ![chosen] = n]
    BY <1>4, <1>5, <1>7, <1>11, <2>1 DEF CB!Add
  <2>3. batch' = batch
    BY <1>2, <1>4, <2>2, NoneBegins
  <2> HIDE DEF n
  <2>4. Steady(chosen, n, publicFrames, batch, shut)
    BY <1>2, <1>3, <1>6, <1>7, <1>11, PushedSteady
  <2> QED BY <1>2, <1>4, <1>7, <2>2, <2>3, <2>4, Stays
<1>12. c.on \in BOOLEAN /\ c.firing \in BOOLEAN
  BY <1>2, CellIs
<1> QED BY <1>8, <1>9, <1>10, <1>11, <1>12

LEMMA PublicFireKeeps ==
  ASSUME PublicAssumption, PublicInv, PublicFire
  PROVE  PublicInv'
<1> SUFFICES ASSUME ~disturbed' PROVE PublicInv'
  BY DEF PublicInv
<1> DEFINE c == public[chosen]
           k == publicOps
           m == CB!FireWith(CB!Now, chosen, k)
<1>1. ~disturbed
  BY DEF PublicFire
<1>2. /\ PublicTyped /\ c \in Cells /\ Steady(chosen, c, publicFrames, batch, shut)
      /\ batch \in Batches /\ publicFrames \in Seq(Fires) /\ k \in Nat /\ publicOps + 1 \in Nat
      /\ shut \in Nat \cup {Undefined, True} /\ chosen \in FlagSets
      /\ public = [public EXCEPT ![chosen] = c]
  BY <1>1, PageCalls
<1>3. /\ shut' = shut /\ chosen' = chosen /\ publicOps' = publicOps + 1
      /\ publicFrames' = m.fires /\ public' = m.cb
      /\ batch' = IF Begins THEN Batch(TRUE) ELSE batch
  BY DEF PublicFire, PublicCalls, CB!Goto
<1>4. CB!Now = [cb |-> public, fires |-> publicFrames]
  BY DEF CB!Now
<1>5. CASE c.open /\ c.firing /\ ~CB!Has(chosen, "once")
  <2> DEFINE n == [c EXCEPT !.stack = Append(c.stack, k)]
  <2>1. publicFrames' = publicFrames /\ public' = [public EXCEPT ![chosen] = n]
    BY <1>3, <1>4, <1>5 DEF CB!FireWith
  <2>2. batch' = batch
    BY <1>2, <1>3, <2>1, NoneBegins
  <2>3. Append(c.stack, k) \in Seq(Nat)
    BY <1>2, CellIs
  <2>4. /\ n \in Cells /\ n.list = c.list /\ n.on = c.on /\ n.open = c.open
        /\ n.memory = c.memory /\ n.firing = c.firing /\ n.index = c.index /\ n.length = c.length
    BY <1>2, <2>3 DEF Cells
  <2> HIDE DEF n
  <2>5. OneFire(chosen, c, publicFrames, batch, shut)
    BY <1>2, <1>5 DEF Steady
  <2>6. OneFire(chosen, n, publicFrames, batch, shut)
    BY <2>4, <2>5 DEF OneFire, GoesOn, Behind, CB!Remembers
  <2>7. Steady(chosen, n, publicFrames, batch, shut)
    BY <1>2, <1>5, <2>4, <2>6 DEF Steady
  <2> QED BY <1>2, <1>3, <2>1, <2>2, <2>4, <2>7, Stays
<1>6. CASE c.open /\ ~c.firing /\ ~(CB!Has(chosen, "once") /\ c.memory # Undefined)
  <2> DEFINE q == CB!Started(chosen, c, k, 0)
  <2>1. m = CB!Fires(CB!Now, chosen, c, k, 0)
    BY <1>4, <1>6 DEF CB!FireWith
  <2>2. publicFrames = <<>> /\ shut = Undefined
    BY <1>2, <1>6 DEF Steady
  <2>3. public' = [public EXCEPT ![chosen] = q] /\ publicFrames' = <<CB!FireOf(chosen, k)>>
    <3> HIDE DEF q
    <3>1. CB!Now.cb = public /\ CB!Now.fires = publicFrames
      BY <1>4
    <3>2. m = [cb    |-> [public EXCEPT ![chosen] = q],
               fires |-> Append(publicFrames, CB!FireOf(chosen, k))]
      BY <2>1, <3>1 DEF CB!Fires, q
    <3>3. \A x : Append(<<>>, x) = <<x>>
      OBVIOUS
    <3> QED BY <1>3, <2>2, <3>2, <3>3
  <2>4. batch' = Batch(TRUE)
    BY <1>3, <2>2, <2>3 DEF Begins
  <2>5. batch' \in Batches /\ batch'.heard = {} /\ ~batch'.halted
    BY <2>4 DEF Batches, Batch
  <2>6. 0 \in 0..Len(c.list) /\ 0 \in Nat
    BY <1>2, CellIs
  <2>7. /\ ~c.on => c.list = <<>>
        /\ ~c.open => c.stack = <<>>
        /\ "unique" \in chosen => Distinct(c.list)
    BY <1>2 DEF Steady
  <2>8. Steady(chosen, q, publicFrames', batch', shut)
    BY <1>2, <2>2, <2>3, <2>5, <2>6, <2>7, StartedSteady
  <2>9. q \in Cells
    BY <1>2, <2>6, StartedIs
  <2>10. publicFrames' \in Seq(Fires)
    BY <1>2, <2>3, FireIs
  <2> HIDE DEF q
  <2> QED BY <1>2, <1>3, <2>3, <2>5, <2>8, <2>9, <2>10, Stays
<1>7. CASE /\ ~(c.open /\ c.firing /\ ~CB!Has(chosen, "once"))
           /\ ~(c.open /\ ~c.firing /\ ~(CB!Has(chosen, "once") /\ c.memory # Undefined))
  <2>1. publicFrames' = publicFrames /\ public' = public
    BY <1>3, <1>4, <1>7 DEF CB!FireWith
  <2>2. batch' = batch
    BY <1>2, <1>3, <2>1, NoneBegins
  <2> QED BY <1>2, <1>3, <2>1, <2>2, Stays
<1> QED BY <1>5, <1>6, <1>7

\* The loop of the one fire there is, and its list.
LEMMA LoopIs ==
  ASSUME PublicInv, ~disturbed, publicFrames # <<>>
  PROVE  /\ public[chosen].firing /\ Len(publicFrames) = 1 /\ publicFrames[1] \in Fires
         /\ CB!TopFire = publicFrames[1] /\ CB!TopFire.list = chosen
         /\ CB!TopC = public[chosen]
         /\ OneFire(chosen, public[chosen], publicFrames, batch, shut)
<1>1. public[chosen].firing
  BY PageCalls DEF Steady
<1>2. OneFire(chosen, public[chosen], publicFrames, batch, shut)
  BY <1>1, PageCalls DEF Steady
<1>3. publicFrames[1] \in Fires /\ Len(publicFrames) = 1 /\ publicFrames[1].list = chosen
  BY <1>1, <1>2, PageCalls DEF OneFire
<1>4. CB!TopFire = publicFrames[1]
  BY <1>3 DEF CB!TopFire, CB!Last
<1> QED BY <1>1, <1>2, <1>3, <1>4 DEF CB!TopC

\* The callback that is called next was not heard in this fire, and hears what the list
\* was locked with.
LEMMA NextIs ==
  ASSUME PublicAssumption, PublicInv, ~disturbed, CB!Call
  PROVE  LET c == public[chosen]
         IN  /\ publicFrames # <<>> /\ publicFrames[1].in = Nobody /\ c.on /\ ~batch.halted
             /\ c.index \in 0..Len(c.list) /\ c.index + 1 \in 1..Len(c.list)
             /\ CB!NextCallback = c.list[c.index + 1] /\ CB!NextCallback \in Callbacks
             /\ GoesOn(chosen, c, c.index, batch)
             /\ "unique" \in chosen => CB!NextCallback \notin batch.heard
             /\ shut # Undefined => shut # True /\ shut = publicFrames[1].value
<1> DEFINE c == public[chosen]
<1>1. publicFrames # <<>>
  BY DEF CB!Call, CB!Looping
<1>2. /\ publicFrames[1] \in Fires /\ CB!TopFire = publicFrames[1] /\ CB!TopC = c
      /\ OneFire(chosen, c, publicFrames, batch, shut)
  BY <1>1, LoopIs
<1>3. publicFrames[1].in = Nobody /\ c.on /\ c.index < c.length
  BY <1>2 DEF CB!Call, CB!Looping
<1>4. GoesOn(chosen, c, c.index, batch)
  BY <1>2, <1>3 DEF OneFire, Behind
<1>5. c \in Cells
  BY PageCalls
<1>6. c.list \in Seq(Callbacks) /\ Len(c.list) \in Nat /\ c.index \in Int /\ c.length \in Int
  BY <1>5, CellIs
<1>7. c.index \in 0..Len(c.list) /\ c.index + 1 \in 1..Len(c.list)
  BY <1>3, <1>4, <1>6 DEF GoesOn
<1>8. CB!NextCallback = c.list[c.index + 1] /\ c.list[c.index + 1] \in Callbacks
  BY <1>2, <1>6, <1>7 DEF CB!NextCallback
<1>9. "unique" \in chosen => c.list[c.index + 1] \notin batch.heard
  BY <1>4, <1>6, <1>7 DEF GoesOn
<1>10. ~batch.halted
  BY <1>2, <1>3, <1>6 DEF OneFire
<1>11. shut # Undefined => shut # True /\ shut = publicFrames[1].value
  <2>1. publicFrames[1].value \in Nat
    BY <1>2 DEF Fires
  <2> QED BY <1>2, <1>3, <2>1 DEF OneFire, PublicAssumption
<1> QED BY <1>1, <1>3, <1>4, <1>7, <1>8, <1>9, <1>10, <1>11

LEMMA OnePut ==
  ASSUME NEW S, NEW s \in Seq(S), Len(s) = 1, NEW x \in S
  PROVE  LET t == [s EXCEPT ![1] = x] IN t \in Seq(S) /\ Len(t) = 1 /\ t[1] = x
<1> DEFINE t == [s EXCEPT ![1] = x]
<1>1. t \in Seq(S) /\ Len(t) = Len(s)
  OBVIOUS
<1>2. t[1] = x
  OBVIOUS
<1> QED BY <1>1, <1>2

LEMMA CallNextKeeps ==
  ASSUME PublicAssumption, PublicInv, CallNext
  PROVE  PublicInv'
<1> SUFFICES ASSUME ~disturbed' PROVE PublicInv'
  BY DEF PublicInv
<1> DEFINE c == public[chosen]
           h == CB!NextCallback
           fs == publicFrames'
<1>1. ~disturbed /\ CB!Call
  BY DEF CallNext
<1>2. /\ PublicTyped /\ c \in Cells /\ Steady(chosen, c, publicFrames, batch, shut)
      /\ batch \in Batches /\ publicFrames \in Seq(Fires) /\ publicOps \in Nat
      /\ shut \in Nat \cup {Undefined, True} /\ chosen \in FlagSets
      /\ public = [public EXCEPT ![chosen] = c]
  BY <1>1, PageCalls
<1>3. /\ publicFrames # <<>> /\ publicFrames[1].in = Nobody /\ c.on /\ ~batch.halted
      /\ c.index \in 0..Len(c.list) /\ c.index + 1 \in 1..Len(c.list)
      /\ h = c.list[c.index + 1] /\ h \in Callbacks
      /\ GoesOn(chosen, c, c.index, batch)
  BY <1>1, NextIs
<1>4. /\ c.firing /\ Len(publicFrames) = 1 /\ publicFrames[1] \in Fires
      /\ OneFire(chosen, c, publicFrames, batch, shut)
  BY <1>1, <1>3, LoopIs
<1>5. /\ shut' = shut /\ chosen' = chosen /\ publicOps' = publicOps /\ public' = public
      /\ batch' = [batch EXCEPT !.heard = batch.heard \cup {h}]
      /\ fs = [publicFrames EXCEPT ![1] = [publicFrames[1] EXCEPT !.in = h]]
  BY <1>4 DEF CallNext, CB!Call
<1> HIDE DEF h
<1>6. /\ fs \in Seq(Fires) /\ Len(fs) = 1
      /\ fs[1] = [publicFrames[1] EXCEPT !.in = h]
  <2>1. [publicFrames[1] EXCEPT !.in = h] \in Fires
    BY <1>3, <1>4 DEF Fires
  <2> QED BY <1>2, <1>4, <1>5, <2>1, OnePut
<1>7. fs[1].in = h /\ fs[1].list = publicFrames[1].list /\ fs[1].value = publicFrames[1].value
  BY <1>4, <1>6 DEF Fires
<1>8. /\ batch' \in Batches /\ batch'.heard = batch.heard \cup {h}
      /\ batch'.whole = batch.whole /\ batch'.halted = batch.halted
  BY <1>2, <1>3, <1>5 DEF Batches
<1> HIDE DEF fs
<1>9. c.index \in Int /\ Len(c.list) \in Nat
  BY <1>2, CellIs
<1>10. GoesOn(chosen, c, c.index + 1, batch')
  <2>1. c.index + 1 \in 0..Len(c.list)
    BY <1>3, <1>9
  <2>2. \A g \in batch'.heard : \E i \in 1..Len(c.list) : c.list[i] = g
    BY <1>3, <1>8 DEF GoesOn
  <2>3. batch'.whole /\ ~batch'.halted => \A i \in 1..(c.index + 1) : c.list[i] \in batch'.heard
    <3>1. \A i \in 1..(c.index + 1) : i = c.index + 1 \/ i \in 1..c.index
      BY <1>9
    <3> QED BY <1>3, <1>8, <3>1 DEF GoesOn
  <2>4. ASSUME "unique" \in chosen, NEW i \in ((c.index + 1) + 1)..Len(c.list)
        PROVE  c.list[i] \notin batch'.heard
    <3>1. i \in (c.index + 1)..Len(c.list) /\ i \in 1..Len(c.list) /\ i # c.index + 1
      BY <1>3, <1>9
    <3>2. c.list[i] # h
      BY <1>2, <1>3, <2>4, <3>1 DEF Steady, Distinct
    <3> QED BY <1>3, <1>8, <2>4, <3>1, <3>2 DEF GoesOn
  <2> QED BY <1>3, <2>1, <2>2, <2>3, <2>4 DEF GoesOn
<1>11. OneFire(chosen, c, fs, batch', shut)
  <2>1. Behind(c, fs[1]) = c.index + 1
    BY <1>3, <1>7 DEF Behind, PublicAssumption
  <2> QED BY <1>3, <1>4, <1>6, <1>7, <1>8, <1>10, <2>1 DEF OneFire
<1>12. Steady(chosen, c, fs, batch', shut)
  BY <1>2, <1>4, <1>11 DEF Steady
<1> QED BY <1>2, <1>5, <1>6, <1>8, <1>12, Stays DEF fs

\* The callback returned: the loop is where it was, one place further, or it is halted.
LEMMA ReturnFromKeeps ==
  ASSUME PublicAssumption, PublicInv, NEW false \in BOOLEAN, ReturnFrom(false)
  PROVE  PublicInv'
<1> SUFFICES ASSUME ~disturbed' PROVE PublicInv'
  BY DEF PublicInv
<1> DEFINE c == public[chosen]
           fs == publicFrames'
           halts == false /\ "stopOnFalse" \in chosen
           n == IF halts THEN [c EXCEPT !.index = c.length, !.memory = True]
                ELSE [c EXCEPT !.index = c.index + 1]
<1>1. ~disturbed /\ CB!Returns(false) /\ publicFrames # <<>>
  BY DEF ReturnFrom, CB!Returns
<1>2. /\ PublicTyped /\ c \in Cells /\ Steady(chosen, c, publicFrames, batch, shut)
      /\ batch \in Batches /\ publicFrames \in Seq(Fires) /\ publicOps \in Nat
      /\ shut \in Nat \cup {Undefined, True} /\ chosen \in FlagSets
  BY <1>1, PageCalls
<1>3. /\ c.firing /\ Len(publicFrames) = 1 /\ publicFrames[1] \in Fires
      /\ CB!TopFire = publicFrames[1] /\ CB!TopFire.list = chosen
      /\ OneFire(chosen, c, publicFrames, batch, shut)
  BY <1>1, LoopIs
<1>4. publicFrames[1].in # Nobody
  BY <1>1, <1>3 DEF CB!Returns
<1>5. /\ shut' = shut /\ chosen' = chosen /\ publicOps' = publicOps
      /\ batch' = [batch EXCEPT !.halted = halts]
  BY DEF ReturnFrom
<1>6. c.index \in Int /\ c.length \in Int /\ Len(c.list) \in Nat
  BY <1>2, CellIs
<1>7. /\ public' = [public EXCEPT ![chosen] = n]
      /\ fs = [publicFrames EXCEPT ![1] = [publicFrames[1] EXCEPT !.in = Nobody]]
  <2> DEFINE st == CB!Stepped
  <2>1. /\ st.cb = [public EXCEPT ![chosen] = [c EXCEPT !.index = c.index + 1]]
        /\ st.fires = [publicFrames EXCEPT ![1] = [publicFrames[1] EXCEPT !.in = Nobody]]
    BY <1>3 DEF CB!Stepped
  <2>2. CB!Has(CB!TopFire.list, "stopOnFalse") <=> "stopOnFalse" \in chosen
    BY <1>2, <1>3 DEF CB!Has
  <2>3. CASE ~halts
    <3>1. CB!Goto(CB!Stepped)
      BY <1>1, <2>2, <2>3 DEF CB!Returns
    <3> QED BY <2>1, <2>3, <3>1 DEF CB!Goto
  <2>4. CASE halts
    <3>1. CB!Goto(CB!Halted)
      BY <1>1, <2>2, <2>4 DEF CB!Returns
    <3>2. /\ st.cb[chosen] = [c EXCEPT !.index = c.index + 1]
          /\ st.cb[chosen].length = c.length
      BY <1>2, <2>1 DEF PublicTyped, Cells
    <3>3. /\ CB!Halted.fires = st.fires
          /\ CB!Halted.cb = [st.cb EXCEPT ![chosen] =
                               [st.cb[chosen] EXCEPT !.memory = True, !.index = c.length]]
      <4> DEFINE X == st.cb
                 Y == st.fires
      <4>1. st = [cb |-> X, fires |-> Y]
        BY DEF CB!Stepped
      <4>2. CB!Halted = [st EXCEPT !.cb[chosen].memory = True,
                                   !.cb[chosen].index  = st.cb[chosen].length]
        BY <1>3 DEF CB!Halted
      <4> HIDE DEF st, X, Y
      <4>3. chosen \in DOMAIN X
        BY <1>2, <2>1 DEF PublicTyped, X
      <4>4. /\ CB!Halted.fires = Y
            /\ CB!Halted.cb = [X EXCEPT ![chosen].memory = True,
                                       ![chosen].index  = X[chosen].length]
        BY <4>1, <4>2
      <4>5. X[chosen].length = c.length
        BY <3>2 DEF X
      <4> QED BY <4>3, <4>4, <4>5 DEF X, Y
    <3> HIDE DEF st
    <3>4. CB!Halted.cb = [public EXCEPT ![chosen] = n]
      BY <1>2, <2>1, <2>4, <3>2, <3>3 DEF PublicTyped, Cells
    <3> QED BY <2>1, <3>1, <3>3, <3>4 DEF CB!Goto
  <2> QED BY <2>3, <2>4
<1>8. /\ n \in Cells /\ n.list = c.list /\ n.on = c.on /\ n.stack = c.stack /\ n.open = c.open
      /\ n.firing = c.firing /\ n.length = c.length
      /\ n.memory = (IF halts THEN True ELSE c.memory)
      /\ n.index = (IF halts THEN c.length ELSE c.index + 1)
  <2>1. CASE halts
    <3>1. n = [c EXCEPT !.index = c.length, !.memory = True]
      BY <2>1
    <3> HIDE DEF n, halts
    <3> QED BY <1>2, <1>6, <2>1, <3>1 DEF Cells
  <2>2. CASE ~halts
    <3>1. n = [c EXCEPT !.index = c.index + 1] /\ c.index + 1 \in Int
      BY <2>2, <1>6
    <3> HIDE DEF n, halts
    <3> QED BY <1>2, <1>6, <2>2, <3>1 DEF Cells
  <2> QED BY <2>1, <2>2
<1> HIDE DEF n
<1>9. /\ fs \in Seq(Fires) /\ Len(fs) = 1
      /\ fs[1] = [publicFrames[1] EXCEPT !.in = Nobody]
  <2>1. [publicFrames[1] EXCEPT !.in = Nobody] \in Fires
    BY <1>3 DEF Fires
  <2> QED BY <1>2, <1>3, <1>7, <2>1, OnePut
<1>10. fs[1].in = Nobody /\ fs[1].list = publicFrames[1].list /\ fs[1].value = publicFrames[1].value
  BY <1>3, <1>9 DEF Fires
<1>11. /\ batch' \in Batches /\ batch'.heard = batch.heard /\ batch'.whole = batch.whole
       /\ batch'.halted = halts
  BY <1>2, <1>5 DEF Batches
<1> HIDE DEF fs, halts
<1>12. ~batch.halted
  BY <1>3, <1>4 DEF OneFire
<1>13. ASSUME c.on PROVE GoesOn(chosen, n, n.index, batch')
  <2>1. GoesOn(chosen, c, c.index + 1, batch)
    BY <1>3, <1>4, <1>13 DEF OneFire, Behind
  <2>2. CASE ~halts
    BY <1>8, <1>11, <1>12, <2>1, <2>2 DEF GoesOn
  <2>3. CASE halts
    <3>1. n.index = Len(n.list) /\ n.length = Len(n.list)
      BY <1>8, <2>1, <2>3 DEF GoesOn
    <3>2. \A i \in (n.index + 1)..Len(n.list) : FALSE
      BY <1>6, <1>8, <3>1
    <3>3. n.index \in 0..Len(n.list)
      BY <1>6, <1>8, <3>1
    <3>4. \A g \in batch'.heard : \E i \in 1..Len(n.list) : n.list[i] = g
      BY <1>8, <1>11, <2>1 DEF GoesOn
    <3> QED BY <1>11, <2>3, <3>1, <3>2, <3>3, <3>4 DEF GoesOn
  <2> QED BY <2>2, <2>3
<1>14. OneFire(chosen, n, fs, batch', shut)
  <2>1. CB!Remembers(n) => n.memory = fs[1].value
    BY <1>3, <1>8, <1>10 DEF OneFire, CB!Remembers
  <2>2. batch'.halted => fs[1].in = Nobody /\ n.index = n.length
    BY <1>8, <1>10, <1>11
  <2> QED BY <1>3, <1>8, <1>9, <1>10, <1>13, <2>1, <2>2 DEF OneFire, Behind
<1>15. Steady(chosen, n, fs, batch', shut)
  BY <1>2, <1>3, <1>8, <1>14 DEF Steady
<1> QED BY <1>2, <1>5, <1>7, <1>8, <1>9, <1>11, <1>15, Stays DEF fs

\* The fire has ended: the next value waits, or nothing fires.
LEMMA PublicFireEndsKeeps ==
  ASSUME PublicAssumption, PublicInv, PublicFireEnds
  PROVE  PublicInv'
<1> SUFFICES ASSUME ~disturbed' PROVE PublicInv'
  BY DEF PublicInv
<1> DEFINE c == public[chosen]
           d == [c EXCEPT !.firing = FALSE]
<1>1. ~disturbed /\ CB!EndFire /\ publicFrames # <<>>
  BY DEF PublicFireEnds, CB!EndFire
<1>2. /\ PublicTyped /\ c \in Cells /\ Steady(chosen, c, publicFrames, batch, shut)
      /\ publicFrames \in Seq(Fires) /\ publicOps \in Nat
      /\ shut \in Nat \cup {Undefined, True} /\ chosen \in FlagSets
  BY <1>1, PageCalls
<1>3. /\ Len(publicFrames) = 1 /\ CB!TopFire = publicFrames[1] /\ CB!TopFire.list = chosen
      /\ CB!TopC = c
  BY <1>1, LoopIs
<1>4. /\ shut' = shut /\ chosen' = chosen /\ publicOps' = publicOps /\ batch' = Batch(TRUE)
  BY DEF PublicFireEnds
<1>5. batch' \in Batches /\ batch'.heard = {} /\ ~batch'.halted
  BY <1>4 DEF Batches, Batch
<1>6. /\ d \in Cells /\ d.list = c.list /\ d.on = c.on /\ d.stack = c.stack /\ d.open = c.open
      /\ d.memory = c.memory /\ ~d.firing
  BY <1>2 DEF Cells
<1> DEFINE more == d.on /\ ~CB!Has(chosen, "once") /\ d.stack # <<>>
           q == CB!Started(chosen, [d EXCEPT !.stack = Tail(d.stack)], Head(d.stack), 0)
           e == CASE ~d.on \/ ~CB!Has(chosen, "once") -> d
                  [] d.memory = True                  -> CB!Disabled(d)
                  [] OTHER                            -> [d EXCEPT !.list = <<>>]
<1>7. /\ more => /\ public' = [public EXCEPT ![chosen] = q]
                 /\ publicFrames' = [publicFrames EXCEPT ![1] = CB!FireOf(chosen, Head(d.stack))]
      /\ ~more => /\ public' = [public EXCEPT ![chosen] = e]
                  /\ publicFrames' = CB!Front(publicFrames)
  BY <1>1, <1>3 DEF CB!EndFire
<1> HIDE DEF d
<1>8. CASE more
  <2> DEFINE v == Head(d.stack)
             w == [d EXCEPT !.stack = Tail(d.stack)]
  <2>1. d.stack \in Seq(Nat) /\ d.stack # <<>>
    BY <1>6, <1>8, CellIs
  <2>2. v \in Nat /\ Tail(d.stack) \in Seq(Nat)
    BY <2>1
  <2>3. /\ w \in Cells /\ w.list = c.list /\ w.on = c.on /\ w.open = c.open
    BY <1>6, <2>2 DEF Cells
  <2>4. c.open /\ c.on /\ shut = Undefined
    BY <1>2, <1>6, <1>8 DEF Steady
  <2>5. publicFrames' = <<CB!FireOf(chosen, v)>>
    <3>1. \A s, x : s \in Seq(Fires) /\ Len(s) = 1 => [s EXCEPT ![1] = x] = <<x>>
      OBVIOUS
    <3> QED BY <1>2, <1>3, <1>7, <1>8, <3>1
  <2>6. 0 \in 0..Len(w.list) /\ 0 \in Nat
    BY <2>3, CellIs
  <2>7. "unique" \in chosen => Distinct(w.list)
    BY <1>2, <2>3 DEF Steady
  <2>8. public' = [public EXCEPT ![chosen] = q] /\ q = CB!Started(chosen, w, v, 0)
    BY <1>7, <1>8
  <2> HIDE DEF q, w, v
  <2>9. Steady(chosen, q, publicFrames', batch', shut)
    BY <1>2, <1>5, <2>2, <2>3, <2>4, <2>5, <2>6, <2>7, <2>8, StartedSteady
  <2>10. q \in Cells
    BY <1>2, <2>2, <2>3, <2>6, <2>8, StartedIs
  <2>11. publicFrames' \in Seq(Fires)
    BY <1>2, <2>2, <2>5, FireIs
  <2> QED BY <1>2, <1>4, <1>5, <2>8, <2>9, <2>10, <2>11, Stays
<1>9. CASE ~more
  <2>1. publicFrames' = <<>> /\ publicFrames' \in Seq(Fires)
    <3>1. \A s : s \in Seq(Fires) /\ Len(s) = 1 => SubSeq(s, 1, Len(s) - 1) = <<>>
      OBVIOUS
    <3> QED BY <1>2, <1>3, <1>7, <1>9, <3>1 DEF CB!Front
  <2>2. Steady(chosen, d, <<>>, batch', shut)
    BY <1>2, <1>6 DEF Steady
  <2>3. CB!Disabled(d) \in Cells /\ Steady(chosen, CB!Disabled(d), <<>>, batch', shut)
    <3>1. CB!Disabled(d) \in Cells /\ CB!Disabled(d).list = <<>> /\ CB!Disabled(d).stack = <<>>
          /\ ~CB!Disabled(d).open /\ CB!Disabled(d).memory = Undefined
          /\ CB!Disabled(d).firing = d.firing
      BY <1>6, DisabledIs
    <3>2. Distinct(<<>>)
      BY DEF Distinct
    <3> QED BY <1>6, <3>1, <3>2 DEF Steady
  <2>4. ASSUME d.on
        PROVE  LET x == [d EXCEPT !.list = <<>>] IN x \in Cells /\ Steady(chosen, x, <<>>, batch', shut)
    <3> DEFINE x == [d EXCEPT !.list = <<>>]
    <3>1. <<>> \in Seq(Callbacks) /\ Distinct(<<>>)
      BY DEF Distinct
    <3>2. x \in Cells /\ x.list = <<>> /\ x.on = d.on /\ x.stack = d.stack /\ x.open = d.open
          /\ x.memory = d.memory /\ x.firing = d.firing
      BY <1>6, <3>1 DEF Cells
    <3> HIDE DEF x
    <3>3. Steady(chosen, x, <<>>, batch', shut)
      BY <1>6, <2>2, <3>1, <3>2 DEF Steady
    <3> QED BY <3>2, <3>3 DEF x
  <2>5. e \in Cells /\ Steady(chosen, e, <<>>, batch', shut)
    BY <1>6, <2>2, <2>3, <2>4
  <2>6. public' = [public EXCEPT ![chosen] = e]
    BY <1>7, <1>9
  <2> HIDE DEF e
  <2> QED BY <1>2, <1>4, <1>5, <2>1, <2>5, <2>6, Stays
<1> QED BY <1>8, <1>9

LEMMA ThrowOutKeeps ==
  ASSUME ThrowOut
  PROVE  PublicInv'
BY DEF ThrowOut, PublicInv

LEMMA PublicKept ==
  ASSUME PublicAssumption, PublicInv, [PublicNext]_publicVars
  PROVE  PublicInv'
<1>1. CASE UNCHANGED publicVars
  BY <1>1 DEF publicVars, PublicInv, PublicTyped
<1>2. CASE \E f \in Callbacks : PublicAdd(f) \/ PublicRemove(f)
  BY <1>2, PublicAddKeeps, PublicRemoveKeeps
<1>3. CASE PublicEmpty \/ PublicDisable \/ PublicLock \/ PublicFire
  BY <1>3, PublicEmptyKeeps, PublicDisableKeeps, PublicLockKeeps, PublicFireKeeps
<1>4. CASE CallNext \/ PublicFireEnds \/ ThrowOut
  BY <1>4, CallNextKeeps, PublicFireEndsKeeps, ThrowOutKeeps
<1>5. CASE \E false \in BOOLEAN : ReturnFrom(false)
  BY <1>5, ReturnFromKeeps
<1> QED BY <1>1, <1>2, <1>3, <1>4, <1>5 DEF PublicNext

\* A fire of the whole list that ends has called what the list holds.
LEMMA EndsHeard ==
  ASSUME PublicAssumption, PublicInv, ~disturbed, PublicFireEnds, batch.whole, ~batch.halted
  PROVE  ToSet(public[chosen].list) \subseteq batch.heard
<1> DEFINE c == public[chosen]
<1>1. publicFrames # <<>>
  BY DEF PublicFireEnds, CB!EndFire
<1>2. /\ CB!TopFire = publicFrames[1] /\ CB!TopC = c
      /\ OneFire(chosen, c, publicFrames, batch, shut)
  BY <1>1, LoopIs
<1>3. publicFrames[1].in = Nobody /\ ~(c.on /\ c.index < c.length)
  BY <1>1, <1>2 DEF PublicFireEnds, CB!EndFire, CB!Looping
<1>4. c \in Cells /\ (~c.on => c.list = <<>>)
  BY PageCalls DEF Steady
<1>5. c.list \in Seq(Callbacks) /\ Len(c.list) \in Nat /\ c.index \in Int /\ c.length \in Int
  BY <1>4, CellIs
<1>6. \A i \in 1..Len(c.list) : c.list[i] \in batch.heard
  <2>1. CASE ~c.on
    BY <1>4, <2>1
  <2>2. CASE c.on
    <3>1. GoesOn(chosen, c, c.index, batch)
      BY <1>2, <1>3, <2>2 DEF OneFire, Behind
    <3>2. c.index = Len(c.list)
      BY <1>3, <1>5, <2>2, <3>1 DEF GoesOn
    <3> QED BY <3>1, <3>2 DEF GoesOn
  <2> QED BY <2>1, <2>2
<1> QED BY <1>5, <1>6 DEF ToSet

LEMMA EachHeardOnce ==
  ASSUME PublicAssumption, PublicInv
  PROVE  /\ CallNext /\ "unique" \in chosen /\ ~disturbed => CB!NextCallback \notin batch.heard
         /\ PublicFireEnds /\ batch.whole /\ ~batch.halted /\ ~disturbed =>
              ToSet(public[chosen].list) \subseteq batch.heard
         /\ CallNext /\ shut # Undefined /\ ~disturbed =>
              shut # True /\ CB!TopFire.value = shut
<1>1. ASSUME CallNext, ~disturbed
      PROVE  /\ "unique" \in chosen => CB!NextCallback \notin batch.heard
             /\ shut # Undefined => shut # True /\ CB!TopFire.value = shut
  <2>1. CB!Call
    BY <1>1 DEF CallNext
  <2>2. /\ publicFrames # <<>>
        /\ "unique" \in chosen => CB!NextCallback \notin batch.heard
        /\ shut # Undefined => shut # True /\ shut = publicFrames[1].value
    BY <1>1, <2>1, NextIs
  <2>3. CB!TopFire = publicFrames[1]
    BY <1>1, <2>2, LoopIs
  <2> QED BY <2>2, <2>3
<1> QED BY <1>1, EndsHeard

\* Whatever page code does to a list of jQuery.Callbacks in the callbacks that the list calls,
\* a fire calls none twice and passes none over, and a list that was disabled or locked calls
\* nothing, or only with the value it had: for any flags, callbacks and number of calls.
THEOREM CalledWhileListedHolds ==
  ASSUME PublicAssumption PROVE PublicSpec => CalledWhileListed
<1>1. PublicInit => PublicInv
  BY PublicStart
<1>2. PublicInv /\ [PublicNext]_publicVars => PublicInv'
  BY PublicKept
<1>3. PublicSpec => []PublicInv
  BY <1>1, <1>2, PTL DEF PublicSpec
<1>4. PublicInv =>
        [/\ CallNext /\ "unique" \in chosen /\ ~disturbed => CB!NextCallback \notin batch.heard
         /\ PublicFireEnds /\ batch.whole /\ ~batch.halted /\ ~disturbed =>
              ToSet(public[chosen].list) \subseteq batch.heard]_publicVars
  BY EachHeardOnce
<1>5. PublicInv =>
        [CallNext /\ shut # Undefined /\ ~disturbed =>
           shut # True /\ CB!TopFire.value = shut]_publicVars
  BY EachHeardOnce
<1> QED BY <1>3, <1>4, <1>5, PTL DEF CalledWhileListed, EachOnce, ShutStays
=============================================================================
