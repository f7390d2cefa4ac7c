----------------------------- MODULE DataStore -----------------------------
(***************************************************************************)
(* Data of elements in jQuery 1.7: jQuery.cache, the expando that leads an *)
(* element to its entry, the private data of jQuery (events, queues) next  *)
(* to the data of the page, what data reads from data-* attributes, clones *)
(* and cleanData.  The handlers of getData, setData and changeData are     *)
(* page code of their own: what they do comes before or after the call.    *)
(* A name has a character and no space, and is none that every object has, *)
(* as toString: what those would find is left out.                         *)
(***************************************************************************)
EXTENDS Integers, FiniteSets, Functions

CONSTANTS
  Elements,
  KindOf,      \* element; flash, which takes data; embed, which does not; object, not a node
  Pages,       \* the elements that are there at first; the others come into being as clones
  Names,       \* names that the page or an attribute, after "data-", spells
  Camel,       \* camelCase of a name; it may leave one that it would change again: a--b, a-B, aB
  CamelBehind,      \* camelCase of a name behind others in one string: -ms- is only at its start
  Dashed,      \* the attribute, after "data-", that a name stands for
  Base,        \* what a name is before its namespace
  Together,    \* sets of names that one call removes
  Values,      \* values of the page's calls
  Missing,     \* undefined
  Null,        \* null
  Falsy,       \* values that are false to a condition
  Texts,       \* texts of attributes
  ReadAs,      \* true, false, null, a number, an object or itself
  MaxId, DataCalls

VARIABLES
  uuid,        \* jQuery.uuid
  expando,     \* an element's key into the cache, 0 for none
  cache,       \* jQuery.cache; an object that is not a node holds its entry itself
  attributes,  \* data-* attributes of each element
  made,        \* elements that exist
  known,       \* history: what each name was last known to be, by its camelCase
  asIs,        \* history: elements of which a call stored or removed other keys than the
               \* camelCase of its names, or one that camelCase would change again
  lastCall, dataCalls  \* history: the kind of the last call; how many there were

dataVars == <<uuid, expando, cache, attributes, made, known, asIs, lastCall, dataCalls>>

Private  == {"events", "queue", "parsedAttrs"}
Camels   == {Camel[n] : n \in Names}
Nodes    == {e \in Elements : KindOf[e] # "object"}
Nothing  == [x \in {} |-> Missing]
Empty    == [own |-> Nothing, user |-> Nothing]

\* The elements that are there at first are elements, and an element is no key of the cache.
\* The camelCase of a name, its attribute and what it is before its namespace are names;
\* events has no dash.  Undefined and null are false, and undefined is no value to store.
DataAssumption ==
  /\ Elements \cap Nat = {} /\ Pages \subseteq SUBSET Elements /\ MaxId \in Nat
  /\ \A n \in Names : {Camel[n], CamelBehind[n], Dashed[n], Base[n]} \subseteq Names
  /\ Together \subseteq SUBSET Names
  /\ "events" \in Names => Camel["events"] = "events"
  /\ {Missing, Null} \subseteq Falsy /\ Missing \notin Values

Without(f, S) == [x \in DOMAIN f \ S |-> f[x]]
With(f, x, v) == [y \in DOMAIN f \cup {x} |-> IF y = x THEN v ELSE f[y]]
Known(e, n, v) == [known EXCEPT ![e][Camel[n]] = v]
Stable(keys)   == \A k \in keys : Camel[k] = k
Marked(e, off) == IF off THEN asIs \cup {e} ELSE asIs
Unknown == [c \in Camels |-> Missing]

DataInit ==
  /\ uuid = 0 /\ expando = [e \in Elements |-> 0] /\ cache = Nothing
  /\ attributes = [e \in Elements |-> Nothing] /\ made \in Pages
  /\ known = [e \in Elements |-> Unknown] /\ asIs = {} /\ lastCall = "none" /\ dataCalls = 0
-----------------------------------------------------------------------------
\* acceptData: of the elements in noData only Flash takes data.
Accepts(e) == KindOf[e] # "embed"

Key(e)     == IF KindOf[e] = "object" THEN e ELSE expando[e]
HasEntry(e) == Key(e) \in DOMAIN cache
EntryOf(e) == IF HasEntry(e) THEN cache[Key(e)] ELSE Empty

\* hasData: the entry of e has something in it.
HasData(e) == EntryOf(e) # Empty

\* A node gets a new key the first time; an object holds its entry.
Write(e, entry) ==
  IF ~HasEntry(e) /\ e \in Nodes
  THEN /\ uuid < MaxId /\ uuid' = uuid + 1 /\ expando' = [expando EXCEPT ![e] = uuid + 1]
       /\ cache' = With(cache, uuid + 1, entry)
  ELSE cache' = With(cache, Key(e), entry) /\ UNCHANGED <<uuid, expando>>

\* The entry goes, and with it the expando.
Destroy(e) ==
  /\ cache' = Without(cache, {Key(e)}) /\ expando' = [expando EXCEPT ![e] = 0]
  /\ UNCHANGED uuid

\* Mutant: what jQuery keeps there is not looked at.
WriteAllRest(e, entry) ==
  IF ~HasEntry(e) THEN UNCHANGED <<cache, expando, uuid>>
  ELSE IF entry.user = Nothing THEN Destroy(e)
  ELSE Write(e, entry)

\* What a removal leaves: as long as there is user data, or jQuery's, the entry stays.
WriteRest(e, entry) ==
  IF ~HasEntry(e) THEN UNCHANGED <<cache, expando, uuid>>
  ELSE IF entry = Empty THEN Destroy(e)
  ELSE Write(e, entry)

\* The events that jQuery keeps for its handlers.
OwnEvents(e) ==
  IF "events" \in DOMAIN EntryOf(e).own THEN EntryOf(e).own["events"] ELSE Missing

\* What the page has stored by a name: as it is spelled, or else by its camelCase.
ByName(user, n) ==
  IF n \in DOMAIN user /\ user[n] # Null THEN user[n]
  ELSE IF Camel[n] \in DOMAIN user THEN user[Camel[n]]
  ELSE Missing

\* What jQuery.data finds by a name: jQuery's own events by theirs, unless the page has
\* something there that is true.
Stored(e, n) ==
  LET user == EntryOf(e).user
  IN  IF n = "events" /\ ~(n \in DOMAIN user /\ user[n] \notin Falsy)
      THEN OwnEvents(e) ELSE ByName(user, n)

HasAttribute(e, n) == KindOf[e] # "object" /\ Dashed[n] \in DOMAIN attributes[e]

\* Mutant: a value is stored under the name as it is spelled.
PutAsSpelled(e, n, v) ==
  Write(e, [EntryOf(e) EXCEPT !.user = With(@, n, v)])

Put(e, n, v) ==
  Write(e, [EntryOf(e) EXCEPT !.user = With(@, Camel[n], v)])

Tell(e, n, v) ==
  /\ Put(e, n, v) /\ known' = Known(e, n, v)
  /\ asIs' = Marked(e, ~Stable({Camel[n]}))

DataCall(kind) == dataCalls < DataCalls /\ dataCalls' = dataCalls + 1 /\ lastCall' = kind
-----------------------------------------------------------------------------
\* Mutant: what was read from an attribute is not kept.
AttrUnkept(e, n) ==
  known' = Known(e, n, ReadAs[attributes[e][Dashed[n]]]) /\ UNCHANGED <<uuid, expando, cache, asIs>>

\* dataAttr: the attribute's text is read as what it looks like, and kept.
DataAttr(e, n) ==
  LET v == ReadAs[attributes[e][Dashed[n]]]
  IN  IF Accepts(e) THEN Tell(e, n, v)
      ELSE UNCHANGED <<uuid, expando, cache, known, asIs>>

\* data(name); a name with a namespace falls back to the one before it.
Read(e, n) ==
  /\ DataCall("public") /\ e \in made
  /\ LET m == IF Stored(e, n) = Missing /\ ~HasAttribute(e, n) THEN Base[n] ELSE n
     IN  IF Stored(e, m) = Missing /\ HasAttribute(e, m) THEN DataAttr(e, m)
         ELSE UNCHANGED <<uuid, expando, cache, known, asIs>>
  /\ UNCHANGED <<attributes, made>>

\* The attributes that data() reads when they come in this order: each has the name of its
\* camelCase, and is read unless something is stored by that when it comes.
Reads(order, of, user, read) ==
  \A t \in DOMAIN of :
    t \in read <=> /\ Camel[t] \notin DOMAIN user /\ Dashed[Camel[t]] \in DOMAIN of
                   /\ \A s \in read : order[s] < order[t] => Camel[Camel[s]] # Camel[t]

\* Each is stored by the camelCase of its name, where the last one stays.
LastOf(order, read) ==
  [k \in {Camel[Camel[t]] : t \in read} |->
     CHOOSE t \in read : /\ Camel[Camel[t]] = k
                         /\ \A s \in read : Camel[Camel[s]] = k => order[s] <= order[t]]

\* data(): the first time, every attribute that is not stored by its camelCase is read; an
\* element that takes no data throws at its first attribute.
ReadAll(e) ==
  /\ DataCall("public") /\ e \in made
  /\ IF ~Accepts(e) THEN UNCHANGED <<uuid, expando, cache, known, asIs>>
     ELSE LET entry  == EntryOf(e)
              parses == e \in Nodes /\ "parsedAttrs" \notin DOMAIN entry.own
              of     == IF parses THEN attributes[e] ELSE Nothing
          IN  \E order \in Injection(DOMAIN of, 1..Cardinality(DOMAIN of)), read \in SUBSET DOMAIN of :
                /\ Reads(order, of, entry.user, read)
                /\ LET last == LastOf(order, read)
                       new  == [k \in DOMAIN last |-> ReadAs[of[Dashed[Camel[last[k]]]]]]
                   IN  /\ Write(e, [own  |-> IF parses THEN With(entry.own, "parsedAttrs", e)
                                             ELSE entry.own,
                                    user |-> [k \in DOMAIN new \cup DOMAIN entry.user |->
                                                IF k \in DOMAIN new THEN new[k] ELSE entry.user[k]]])
                       /\ known' = [known EXCEPT ![e] =
                                      [c \in Camels |-> IF c \in DOMAIN new THEN new[c] ELSE @[c]]]
                       /\ asIs' = Marked(e, ~Stable(DOMAIN new))
  /\ UNCHANGED <<attributes, made>>

\* data(name, value).
Set(e, n, v) ==
  /\ DataCall("public") /\ e \in made
  /\ IF Accepts(e) THEN Tell(e, n, v) ELSE UNCHANGED <<uuid, expando, cache, known, asIs>>
  /\ UNCHANGED <<attributes, made>>

\* data(object): its keys are stored as they are spelled.
SetObject(e, n, v) ==
  /\ DataCall("public") /\ e \in made
  /\ IF Accepts(e)
     THEN /\ Write(e, [EntryOf(e) EXCEPT !.user = With(@, n, v)])
          /\ known' = Known(e, n, v) /\ asIs' = Marked(e, ~Stable({n}))
     ELSE UNCHANGED <<uuid, expando, cache, known, asIs>>
  /\ UNCHANGED <<attributes, made>>

\* The keys that removeData takes away: those of an array as they are; one name as it is
\* spelled or else its camelCase; the camelCase of a string with several names.
Meant(user, form, names, first) ==
  CASE form = "array" -> names
    [] form = "name" /\ first \in DOMAIN user -> {first}
    [] OTHER -> {Camel[first]} \cup {CamelBehind[n] : n \in names \ {first}}

RemoveData(e, form, names, first) ==
  /\ DataCall("public") /\ e \in made /\ Accepts(e)
  /\ form = "array" \/ (form = "name") = (Cardinality(names) = 1)
  /\ LET entry == EntryOf(e)
         keys  == Meant(entry.user, form, names, first)
         meant == {Camel[n] : n \in names}
     IN  /\ WriteRest(e, [entry EXCEPT !.user = Without(@, keys)])
         /\ known' = [known EXCEPT ![e] = [c \in Camels |-> IF c \in meant THEN Missing ELSE @[c]]]
         /\ asIs' = Marked(e, keys # meant)
  /\ UNCHANGED <<attributes, made>>

\* removeData().
RemoveAll(e) ==
  /\ DataCall("public") /\ e \in made /\ Accepts(e)
  /\ WriteRest(e, [EntryOf(e) EXCEPT !.user = Nothing])
  /\ known' = [known EXCEPT ![e] = Unknown] /\ asIs' = asIs \ {e}
  /\ UNCHANGED <<attributes, made>>
-----------------------------------------------------------------------------
\* _data and removeData of jQuery itself: the first handler or queue of an element, and the
\* end of it.
PutPrivate(e, p) ==
  /\ DataCall("private") /\ e \in made /\ Accepts(e) /\ p \notin DOMAIN EntryOf(e).own
  /\ Write(e, [EntryOf(e) EXCEPT !.own = With(@, p, e)])
  /\ UNCHANGED <<attributes, made, known, asIs>>

RemovePrivate(e, p) ==
  /\ DataCall("private") /\ e \in made /\ Accepts(e)
  /\ WriteRest(e, [EntryOf(e) EXCEPT !.own = Without(@, {p})])
  /\ UNCHANGED <<attributes, made, known, asIs>>

\* The page gives an attribute another text, or takes it away.
SetAttribute(e, n, t) ==
  /\ DataCall("attribute") /\ e \in made \cap Nodes
  /\ attributes' = [attributes EXCEPT ![e] = With(@, Dashed[n], t)]
  /\ UNCHANGED <<uuid, expando, cache, made, known, asIs>>

\* Mutant: the clone takes the events of the original.
OwnOfSharing(entry, copy) == entry.own

\* What a clone gets of jQuery's data: events of its own, the rest is the original's.
OwnOf(entry, copy) ==
  [p \in DOMAIN entry.own |-> IF p = "events" THEN copy ELSE entry.own[p]]

\* Mutant: the expando that Internet Explorer copies stays on the clone.
CloneUnfixed(e, copy, withData) ==
  /\ expando' = [expando EXCEPT ![copy] = expando[e]] /\ UNCHANGED <<uuid, cache>>
  /\ known' = [known EXCEPT ![copy] = known[e]]
  /\ asIs' = Marked(copy, e \in asIs)

\* cloneFixAttributes takes the expando off; cloneCopyEvent copies the data.
CloneData(e, copy, withData) ==
  IF withData /\ HasData(e) /\ KindOf[copy] # "embed"
  THEN /\ Write(copy, [own |-> OwnOf(EntryOf(e), copy), user |-> EntryOf(e).user])
       /\ known' = [known EXCEPT ![copy] = known[e]]
       /\ asIs' = Marked(copy, e \in asIs)
  ELSE UNCHANGED <<uuid, expando, cache, known, asIs>>

Clone(e, copy, withData) ==
  /\ DataCall("clone") /\ e \in made \cap Nodes /\ copy \in Elements \ made /\ KindOf[copy] = KindOf[e]
  /\ made' = made \cup {copy}
  /\ attributes' = [attributes EXCEPT ![copy] = attributes[e]]
  /\ CloneData(e, copy, withData)

\* cleanData of elements that the page removes: it passes over those that noData names.
Clean(e) ==
  /\ DataCall("clean") /\ e \in made \cap Nodes
  /\ IF KindOf[e] = "element" /\ expando[e] # 0
     THEN Destroy(e) /\ known' = [known EXCEPT ![e] = Unknown] /\ asIs' = asIs \ {e}
     ELSE UNCHANGED <<uuid, expando, cache, known, asIs>>
  /\ UNCHANGED <<attributes, made>>
-----------------------------------------------------------------------------
DataNext ==
  \E e \in Elements :
    \/ ReadAll(e) \/ RemoveAll(e) \/ Clean(e)
    \/ \E n \in Names : Read(e, n)
    \/ \E n \in Names, t \in Texts : SetAttribute(e, n, t)
    \/ \E n \in Names, v \in Values : Set(e, n, v) \/ SetObject(e, n, v)
    \/ \E form \in {"array", "name", "string"}, names \in Together :
         \E first \in names : RemoveData(e, form, names, first)
    \/ \E p \in {"events", "queue"} : PutPrivate(e, p) \/ RemovePrivate(e, p)
    \/ \E copy \in Elements, withData \in BOOLEAN : Clone(e, copy, withData)

DataSpec == DataInit /\ [][DataNext]_dataVars
-----------------------------------------------------------------------------
\* Every entry is that of a key in use, and its keys are those of camelCase but where a call
\* stored or removed others.
DataTypeOK ==
  /\ uuid \in 0..MaxId /\ expando \in [Elements -> 0..MaxId]
  /\ DOMAIN cache \subseteq 1..MaxId \cup {e \in Elements : KindOf[e] = "object"}
  /\ \A k \in DOMAIN cache :
       DOMAIN cache[k].own \subseteq Private /\ DOMAIN cache[k].user \subseteq Names
  /\ \A e \in made \ asIs : DOMAIN EntryOf(e).user \subseteq Camels /\ Stable(DOMAIN EntryOf(e).user)
  /\ \A e \in Elements : DOMAIN attributes[e] \subseteq {Dashed[n] : n \in Names}

\* No two elements share an entry, and every entry has an element that leads to it: nothing
\* that a removal destroys, or cleanData does not pass over, stays behind in jQuery.cache.
OwnEntry ==
  /\ \A e1, e2 \in Nodes : e1 # e2 /\ expando[e1] = expando[e2] => expando[e1] = 0
  /\ \A e \in Nodes : expando[e] # 0 => expando[e] \in DOMAIN cache
  /\ \A k \in DOMAIN cache : \E e \in Elements : Key(e) = k

\* Whatever was set, read from an attribute, removed or cloned, under whatever spelling, and
\* however the attributes have changed since, a name is found to be what it was last known
\* to be, and jQuery's own events by theirs if that is nothing true; unless a call stored or
\* removed other keys than the camelCase of its names, or one that camelCase changes again.
ReadsWhatIsKnown ==
  \A e \in made \ asIs : \A n \in Names :
    Stored(e, n) = IF n = "events" /\ known[e][n] \in Falsy THEN OwnEvents(e)
                   ELSE known[e][Camel[n]]

\* Elements never have the same events, clones included.
EventsApart ==
  \A e1, e2 \in made :
    e1 # e2 /\ "events" \in DOMAIN EntryOf(e1).own /\ "events" \in DOMAIN EntryOf(e2).own =>
      EntryOf(e1).own["events"] # EntryOf(e2).own["events"]

\* A call of the page takes nothing from jQuery's data, and jQuery's own calls take nothing
\* from the page's.
KeptApart ==
  [][/\ lastCall' = "public" => \A e \in Elements : \A p \in DOMAIN EntryOf(e).own :
          p \in DOMAIN (EntryOf(e).own)' /\ (EntryOf(e).own)'[p] = EntryOf(e).own[p]
     /\ lastCall' = "private" => \A e \in Elements : (EntryOf(e).user)' = EntryOf(e).user]_dataVars

\* Entries of the data cache and elements belong to each other one to one, clones share no
\* events, data is read as it was last known to be, and neither the page's calls nor jQuery's
\* own take anything from the data of the other.
DataApart == [](OwnEntry /\ EventsApart /\ ReadsWhatIsKnown) /\ KeptApart
=============================================================================
