---------------------------- MODULE Manipulation ----------------------------
(***************************************************************************)
(* Insertion and removal of nodes in jQuery 1.7: append, prepend, before,  *)
(* after, appendTo, html, replaceWith, remove, detach and empty over       *)
(* domManip, buildFragment with its cache, clean and evalScript.  Scripts  *)
(* of what is inserted are page code: they run when it is in its place and *)
(* insert and remove before the next one runs, or throw.  Rows of tables,  *)
(* what old browsers make of HTML, and inserting a node into itself are    *)
(* left out.                                                               *)
(***************************************************************************)
EXTENDS Integers, FiniteSets, SequencesExt

CONSTANTS
  Html,        \* strings
  Parsed,      \* what the browser makes of each: a sequence of [kind, kids: kinds]
  Shims,       \* those that rnoshimcache finds in
  UnknownElems,\* jQuery.support.unknownElems
  Scripts,     \* what a page does: [calls, texts, places, targets, max]
  None

VARIABLES
  kids,        \* the children of each node; a fragment is a node
  kind,        \* element, fragment or script, and the string a script came from
  data,        \* nodes with an entry in jQuery.cache
  fragments,   \* jQuery.fragments: 0 for none, 1, or the fragment
  held,        \* nodes that the page has in variables
  frames,      \* insertions that are not through: see Insertion
  script,      \* the script of this page
  calls,       \* calls it has made
  kept,        \* history: nodes that have data which the page has not removed
  due, ran,    \* history: how often scripts of each string were to run, and have run
  thrown       \* history: a script threw

tree == <<kids, kind, data, fragments>>
vars == <<tree, held, frames, script, calls, kept, due, ran, thrown>>

Now == [kids |-> kids, kind |-> kind, data |-> data, fragments |-> fragments]

Body  == 1
Start == (1 :> <<2, 4>>) @@ (2 :> <<3>>) @@ (3 :> <<>>) @@ (4 :> <<>>)

Init ==
  /\ kids = Start /\ kind = [n \in DOMAIN Start |-> <<"element", None>>] /\ data = {3} /\ kept = {3}
  /\ fragments = [h \in Html |-> 0] /\ held = {} /\ frames = <<>> /\ script \in Scripts
  /\ calls = 0 /\ due = [h \in Html |-> 0] /\ ran = [h \in Html |-> 0] /\ thrown = FALSE
-----------------------------------------------------------------------------
\* A node and all below it, in document order.
Flat(m, n) ==
  LET flat[x \in DOMAIN m.kids] ==
        <<x>> \o FoldLeft(LAMBDA s, k : s \o flat[k], <<>>, m.kids[x])
  IN  flat[n]
Under(m, n)   == ToSet(Flat(m, n))
Below(m, ns)  == UNION {Under(m, n) : n \in ns}
InDocument(n) == n \in Under(Now, Body)
ParentsOf(m, n) == {p \in DOMAIN m.kids : n \in ToSet(m.kids[p])}

IsScript(m, n) == m.kind[n][1] = "script"
ScriptsIn(m, ns) == SelectSeq(FlattenSeq([i \in DOMAIN ns |-> Flat(m, ns[i])]),
                              LAMBDA n : IsScript(m, n))

Fresh(m) == 1 + Max(DOMAIN m.kids \cup m.data)

Detached(m, ns) == [m EXCEPT !.kids = [p \in DOMAIN @ |-> SelectSeq(@[p], LAMBDA k : k \notin ns)]]

New(m, what, children) ==
  [m EXCEPT !.kids = @ @@ (Fresh(m) :> children), !.kind = @ @@ (Fresh(m) :> what)]

\* Copies of a sequence of nodes, with their data: cloneNode and cloneCopyEvent.
Copied(m, ns) ==
  LET all   == FlattenSeq([i \in DOMAIN ns |-> Flat(m, ns[i])])
      to(n) == Fresh(m) - 1 + CHOOSE i \in DOMAIN all : all[i] = n
      new   == {to(n) : n \in ToSet(all)}
      from(c) == all[c - Fresh(m) + 1]
      copies(s) == [i \in DOMAIN s |-> to(s[i])]
  IN  [m |-> [m EXCEPT !.kids = @ @@ [c \in new |-> copies(m.kids[from(c)])],
                       !.kind = @ @@ [c \in new |-> m.kind[from(c)]],
                       !.data = @ \cup {c \in new : from(c) \in m.data}],
       nodes |-> copies(ns)]

\* Mutant: what is inserted stays where it was, too.
InsertedAgain(m, place, t, ns) == [m EXCEPT !.kids[t] = @ \o ns]

\* The callbacks of append, prepend, before and after: nodes leave the place they had.
Inserted(m, place, t, ns) ==
  LET beside(s, new) == FlattenSeq([i \in DOMAIN s |-> IF s[i] = t THEN new ELSE <<s[i]>>])
      placed(p, s) == CASE place = "append"  -> IF p = t THEN s \o ns ELSE s
                        [] place = "prepend" -> IF p = t THEN ns \o s ELSE s
                        [] place = "before"  -> beside(s, ns \o <<t>>)
                        [] place = "after"   -> beside(s, <<t>> \o ns)
      free == Detached(m, ToSet(ns)).kids
  IN  [m EXCEPT !.kids = [p \in DOMAIN @ |-> placed(p, free[p])]]
-----------------------------------------------------------------------------
\* What is inserted: a string of HTML, or nodes.
Text(h)    == [html |-> h, nodes |-> <<>>]
Nodes(ns)  == [html |-> None, nodes |-> ns]

\* clean, of a string: new nodes.
Parse(m, h) ==
  LET child(r, what) ==
        [m |-> New(r.m, <<what, IF what = "script" THEN h ELSE None>>, <<>>),
         nodes |-> Append(r.nodes, Fresh(r.m))]
      top(r, tag) ==
        LET below == FoldLeft(child, [m |-> r.m, nodes |-> <<>>], tag.kids)
            itself == child([below EXCEPT !.nodes = r.nodes], tag.kind)
        IN  [itself EXCEPT !.m.kids[Last(itself.nodes)] = below.nodes]
  IN  FoldLeft(top, [m |-> m, nodes |-> <<>>], Parsed[h])

\* Nodes go into the fragment, each with the scripts below it behind it, but for the scripts
\* that are taken out.
Collected(m, nodes, fragment, scripts) ==
  LET behind(n) == SelectSeq(Tail(Flat(m, n)), LAMBDA k : IsScript(m, k))
      all == FlattenSeq([i \in DOMAIN nodes |-> <<nodes[i]>> \o behind(nodes[i])])
  IN  [m |-> Inserted(Detached(m, ToSet(scripts)), "append", fragment,
                      SelectSeq(all, LAMBDA n : n \notin ToSet(scripts))),
       scripts |-> scripts]

\* clean: the nodes of the content go into the fragment, and its scripts are taken out if the
\* caller runs them.
Clean(m, content, fragment, extracts) ==
  LET filed(r) == Collected(r.m, r.nodes, fragment,
                            IF extracts THEN ScriptsIn(r.m, r.nodes) ELSE <<>>)
  IN  IF content.html = None THEN filed([m |-> m, nodes |-> content.nodes])
                             ELSE filed(Parse(m, content.html))

\* Mutant: strings with scripts are kept too.
CacheableScripts(h) == h # None /\ h \in Shims /\ ~UnknownElems

\* Strings that jQuery.fragments keeps: those that rnocache finds nothing in.
Cacheable(h) ==
  /\ h # None /\ h \in Shims /\ ~UnknownElems
  /\ \A i \in DOMAIN Parsed[h] : "script" \notin {Parsed[h][i].kind} \cup ToSet(Parsed[h][i].kids)

\* buildFragment: the second time the string comes its fragment is kept, from the third on used.
BuildFragment(m, content, extracts) ==
  LET h     == content.html
      cache == IF Cacheable(h) THEN m.fragments[h] ELSE 0
      new   == New(m, <<"fragment", None>>, <<>>)
      built(clean) ==
        [m |-> IF Cacheable(h)
               THEN [clean.m EXCEPT !.fragments[h] = IF cache = 1 THEN Fresh(m) ELSE 1]
               ELSE clean.m,
         fragment |-> Fresh(m), scripts |-> clean.scripts, cacheable |-> Cacheable(h)]
  IN  IF cache \notin {0, 1}
      THEN [m |-> m, fragment |-> cache, scripts |-> <<>>, cacheable |-> TRUE]
      ELSE built(Clean(new, content, Fresh(m), extracts))

\* Mutant: a fragment of the cache is used itself.
CopiesForOthers(cacheable, i, last) == i < last

\* The last target gets the nodes themselves, unless they are the cache's.
Copies(cacheable, i, last) == cacheable \/ i < last

\* domManip: each target gets the nodes of the fragment, or copies.
Distributed(built, place, targets) ==
  LET insert(w, i) ==
        LET ns   == w.kids[built.fragment]
            copy == Copied(w, ns)
        IN  IF Copies(built.cacheable, i, Len(targets))
            THEN Inserted(copy.m, place, targets[i], copy.nodes)
            ELSE Inserted(w, place, targets[i], ns)
  IN  [m |-> FoldLeft(insert, built.m, [i \in DOMAIN targets |-> i]), scripts |-> built.scripts]

\* domManip, up to the scripts.
DomManip(m, place, targets, content) ==
  Distributed(BuildFragment(m, content, TRUE), place, targets)

\* Mutant: the data of what is below stays.
CleanedAlone(m, ns) == [m EXCEPT !.data = @ \ ns]

\* cleanData, of elements and what is below them.
Cleaned(m, ns) == [m EXCEPT !.data = @ \ Below(m, ns)]
-----------------------------------------------------------------------------
PageRuns == frames # <<>> => Last(frames).running

\* What is left of an insertion: scripts to run, the first of them running or not, and the
\* targets that appendTo and the others still have for nodes; at first they get the nodes.
Insertion(place, targets, ns) ==
  [scripts |-> <<>>, running |-> FALSE, place |-> place, targets |-> targets, nodes |-> ns,
   first |-> TRUE]
Scripted(scripts) == [Insertion("append", <<>>, <<>>) EXCEPT !.scripts = scripts]

Pushed(f) == IF f.scripts = <<>> /\ f.targets = <<>> THEN frames ELSE Append(frames, f)

Through(fs) == UNION {ToSet(fs[i].scripts) \cup ToSet(fs[i].targets) \cup ToSet(fs[i].nodes) :
                        i \in DOMAIN fs}

Reached(m, hs, fs) ==
  Below(m, {Body} \cup hs \cup Through(fs) \cup ({m.fragments[h] : h \in Html} \ {0, 1}))

\* Nodes that nothing leads to are gone.
Goto(m, hs, fs) ==
  /\ held' = hs /\ frames' = fs
  /\ LET live == Reached(m, hs, fs)
     IN  kids' = Restrict(m.kids, live) /\ kind' = Restrict(m.kind, live)
  /\ data' = m.data /\ fragments' = m.fragments

\* What domManip has done; the scripts follow.
Manipulated(done, hs) == Goto(done.m, hs, Pushed(Scripted(done.scripts)))

Call(what) ==
  /\ PageRuns /\ what \in script.calls /\ calls < script.max
  /\ calls' = calls + 1 /\ UNCHANGED <<script, ran, thrown>>

\* How often scripts of each string are among nodes.
Owed(m, ns) == [h \in Html |-> Len(SelectSeq(ScriptsIn(m, ns), LAMBDA n : m.kind[n][2] = h))]
OwedFor(content) ==
  LET owed(r) == Owed(r.m, r.nodes)
  IN  IF content.html = None THEN Owed(Now, content.nodes) ELSE owed(Parse(Now, content.html))
Owes(owed) == due' = [h \in Html |-> due[h] + owed[h]]

BodyElements == {n \in Under(Now, Body) : kind[n][1] = "element"} \ {Body}
TargetSets   == {ts \in script.targets : ToSet(ts) \subseteq BodyElements}
Contents     == {Text(h) : h \in script.texts} \cup
                {Nodes(<<n>>) : n \in IF "nodes" \in script.calls THEN held \cup BodyElements ELSE {}}

Fits(content, ns) == Below(Now, ToSet(content.nodes)) \cap ns = {}

\* append, prepend, before, after.
Insert(place, targets, content) ==
  /\ Call("insert") /\ Fits(content, ToSet(targets)) /\ Owes(OwedFor(content)) /\ UNCHANGED kept
  /\ Manipulated(DomManip(Now, place, targets, content), held \ ToSet(content.nodes))

\* appendTo, prependTo, insertBefore, insertAfter.
InsertTo(place, targets, ns) ==
  /\ Call("insertTo") /\ Fits(Nodes(ns), ToSet(targets)) /\ UNCHANGED due
  /\ Goto(Now, held \ ToSet(ns), Pushed(Insertion(place, targets, ns)))
  /\ UNCHANGED kept

\* $(html): the fragment's nodes, or copies.
Create(h) ==
  LET yields(r)     == Goto(r.m, held \cup ToSet(r.nodes), frames)
      of(built)     == [m |-> built.m, nodes |-> built.m.kids[built.fragment]]
      handed(built) == IF built.cacheable THEN yields(Copied(built.m, of(built).nodes))
                                          ELSE yields(of(built))
  IN  /\ Call("create") /\ UNCHANGED <<kept, due>>
      /\ handed(BuildFragment(Now, Text(h), FALSE))

\* remove and detach.
RemoveNode(n, keepData) ==
  /\ Call("remove") /\ UNCHANGED due
  /\ kept' = IF keepData THEN kept ELSE kept \ Under(Now, n)
  /\ Goto(Detached(IF keepData THEN Now ELSE Cleaned(Now, {n}), {n}),
          IF keepData THEN held \cup {n} ELSE held, frames)

EmptyOf(m, n) == [Cleaned(m, ToSet(m.kids[n])) EXCEPT !.kids[n] = <<>>]

Empty(n) ==
  /\ Call("empty") /\ UNCHANGED due /\ kept' = kept \ Below(Now, ToSet(kids[n]))
  /\ Goto(EmptyOf(Now, n), held, frames)

\* html, with a string that goes to innerHTML as it is.
InnerHtml(n, h) ==
  /\ Call("html") /\ OwedFor(Text(h))[h] = 0 /\ UNCHANGED due
  /\ kept' = kept \ Below(Now, ToSet(kids[n]))
  /\ LET filled(r) == [r.m EXCEPT !.kids[n] = r.nodes]
     IN  Goto(filled(Parse(EmptyOf(Now, n), h)), held, frames)

\* html, with scripts or with nodes: empty, then append.
EmptyAppend(n, content) ==
  /\ Call("html") /\ Fits(content, {n}) /\ Owes(OwedFor(content))
  /\ content.html # None => OwedFor(content)[content.html] # 0
  /\ kept' = kept \ Below(Now, ToSet(kids[n]))
  /\ Manipulated(DomManip(EmptyOf(Now, n), "append", <<n>>, content),
                 held \ ToSet(content.nodes))

\* Mutant: the nodes are not taken out first.
LeftInPlace(m, ns) == m

\* replaceWith takes the nodes out before it removes what they replace.
TakenOut(m, ns) == Detached(m, ns)

\* replaceWith, of one element.
ReplaceWith(n, content) ==
  LET ns      == ToSet(content.nodes)
      out     == TakenOut(Now, ns)
      parent  == CHOOSE p \in DOMAIN out.kids : p \in ParentsOf(out, n)
      list    == out.kids[parent]
      at      == CHOOSE i \in DOMAIN list : list[i] = n
      removed == Detached(Cleaned(out, {n}), {n})
      place   == IF at < Len(list) THEN "before" ELSE "append"
      target  == IF at < Len(list) THEN list[at + 1] ELSE parent
  IN  /\ Call("replace") /\ Fits(content, {n}) /\ Owes(OwedFor(content))
      /\ kept' = kept \ (Under(Now, n) \ Below(Now, ns))
      /\ Manipulated(DomManip(removed, place, <<target>>, content), held \ ns)

\* The page sets data of an element or binds a handler.
SetData(n) ==
  /\ Call("data") /\ data' = data \cup {n} /\ kept' = kept \cup {n}
  /\ UNCHANGED <<kids, kind, fragments, held, frames, due>>
-----------------------------------------------------------------------------
Top      == Last(frames)
Rest(f)  == Append(Front(frames), f)
Pop      == Front(frames)
Internal == UNCHANGED <<script, calls, kept>>

\* The next script runs; its node is nowhere, unless the page has put it somewhere.
EvalScript ==
  /\ frames # <<>> /\ ~Top.running /\ Top.scripts # <<>> /\ Internal
  /\ frames' = Rest([Top EXCEPT !.running = TRUE])
  /\ ran' = [ran EXCEPT ![kind[Head(Top.scripts)][2]] = @ + 1]
  /\ UNCHANGED <<tree, held, due, thrown>>

ScriptReturns ==
  /\ frames # <<>> /\ Top.running /\ Internal /\ UNCHANGED <<due, ran, thrown>>
  /\ Goto(Detached(Now, {Head(Top.scripts)}), held,
          Rest([Top EXCEPT !.running = FALSE, !.scripts = Tail(@)]))

\* A node cannot be inserted into itself.
Within(t, ns) == t \in Below(Now, ToSet(ns))

\* A script throws, or an insertion: what has begun is given up, up to the script that
\* catches it.
Throw ==
  /\ frames # <<>>
  /\ Top.running \/ (Top.targets # <<>> /\ Within(Head(Top.targets), Top.nodes))
  /\ Internal /\ thrown' = TRUE /\ UNCHANGED <<due, ran>>
  /\ \E n \in 0..(Len(frames) - 1) :
       (n > 0 => frames[n].running) /\ Goto(Now, held, SubSeq(frames, 1, n))

\* appendTo: the first target gets the nodes, the others copies with their data.  Before or
\* after a target without a parent there is no place: the call only returns them.
NextTarget ==
  /\ frames # <<>> /\ ~Top.running /\ Top.scripts = <<>> /\ Top.targets # <<>> /\ Internal
  /\ LET t    == Head(Top.targets)
         copy == IF Top.first THEN [m |-> Now, nodes |-> Top.nodes] ELSE Copied(Now, Top.nodes)
         next == [Top EXCEPT !.first = FALSE, !.targets = Tail(@)]
         into(done) == Goto(done.m, held, Rest([next EXCEPT !.scripts = done.scripts]))
     IN  IF Top.place \in {"before", "after"} /\ ParentsOf(Now, t) = {}
         THEN Goto(copy.m, held \cup ToSet(copy.nodes), Rest(next)) /\ UNCHANGED due
         ELSE /\ ~Within(t, Top.nodes)
              /\ into(DomManip(copy.m, Top.place, <<t>>, Nodes(copy.nodes)))
              /\ Owes(Owed(copy.m, copy.nodes))
  /\ UNCHANGED <<ran, thrown>>

InsertionEnds ==
  /\ frames # <<>> /\ ~Top.running /\ Top.scripts = <<>> /\ Top.targets = <<>> /\ Internal
  /\ Goto(Now, held, Pop) /\ UNCHANGED <<due, ran, thrown>>

Next ==
  \/ EvalScript \/ ScriptReturns \/ Throw \/ NextTarget \/ InsertionEnds
  \/ \E place \in script.places, targets \in TargetSets :
       \/ \E content \in Contents : Insert(place, targets, content)
       \/ \E n \in held \cup BodyElements : InsertTo(place, targets, <<n>>)
  \/ \E h \in script.texts : Create(h) \/ \E n \in BodyElements : InnerHtml(n, h)
  \/ \E n \in BodyElements :
       \/ Empty(n) \/ SetData(n) \/ \E keepData \in BOOLEAN : RemoveNode(n, keepData)
       \/ \E content \in Contents : EmptyAppend(n, content) \/ ReplaceWith(n, content)

Spec == Init /\ [][Next]_vars
-----------------------------------------------------------------------------
\* The nodes are a forest: each has at most one place in one list of children.
TypeOK ==
  /\ DOMAIN kids = DOMAIN kind /\ \A n \in DOMAIN kids : IsInjective(kids[n])
  /\ UNION {ToSet(kids[n]) : n \in DOMAIN kids} \subseteq DOMAIN kids \ {Body}
  /\ \A n \in DOMAIN kids : Cardinality(ParentsOf(Now, n)) <= 1
  /\ \A i \in DOMAIN frames : frames[i].running => frames[i].scripts # <<>>

\* Every entry of jQuery.cache belongs to a node that the page can still reach: neither a
\* removal nor an insertion into several places leaves the data of nodes behind that are gone.
DataReachable == data \subseteq Reached(Now, held, frames)

\* Nodes that are moved, detached, inserted or put in the place of their own ancestors keep
\* their data and handlers.
DataKept == kept \subseteq data

\* The nodes of a fragment that was kept for a string stay as the string says: what the page
\* gets are copies.
CacheIntact == \A h \in Html :
  LET f      == fragments[h]
      parsed == Parse(Now, h)
  IN  f \notin {0, 1} => /\ Len(kids[f]) = Len(Parsed[h]) /\ Under(Now, f) \cap data = {}
                         /\ \A i \in DOMAIN kids[f] : Len(kids[kids[f][i]]) = Len(Parsed[h][i].kids)

\* However strings are cached, nodes are copied to several targets and scripts insert more
\* scripts, the scripts of what is inserted run once for each insertion, unless one throws.
ScriptsRun == frames = <<>> /\ ~thrown => ran = due
=============================================================================
