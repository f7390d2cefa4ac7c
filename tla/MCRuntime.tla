----------------------------- MODULE MCRuntime -----------------------------
(* The parts of jQuery whose functions run page code in the middle, for     *)
(* TLC: the deferreds, one list of jQuery.Callbacks, the events, the        *)
(* effects, what they show and hide, the requests, their data types, the    *)
(* data of elements and the nodes.  They only share the stack of the page's *)
(* calls; a behaviour is one of one part, the others rest.                  *)
EXTENDS DeferredObjects, AjaxRequest, DataStore, ElementDisplay, DataTypes,
        EventDispatch, Effects, PublicCallbacks, TLC

CONSTANTS
  a, b, ab,          \* deferreds
  i1, i2, doc, fn1, fn2,
  e1, e2,
  d1, d2, flash, plain, v1, t1, t2, n1,
  x1

VARIABLES
  scene,
  kids, tags, entries, fragments, held, insertions, domScript, domCalls, kept, due, evaluated, domThrown
-----------------------------------------------------------------------------
TheLists == {a, b, ab} \X Kinds

\* jQuery.Deferred creates the lists of both outcomes with once.
TheFlags == [l \in TheLists |-> IF l[2] = "progress" THEN {"memory"} ELSE {"once", "memory"}]

ASSUME DeferredHolds == DeferredAssumption

AnyFlags == SUBSET {"once", "memory", "unique", "stopOnFalse"}

ASSUME PublicHolds == PublicAssumption
-----------------------------------------------------------------------------
\* Two elements in one document.
PathUp == (i1 :> <<i1, doc>>) @@ (i2 :> <<i2, doc>>) @@ (doc :> <<doc>>)

HandlerOf(at, type, fn, sel, ns, one) ==
  [id |-> 0, at |-> at, type |-> type, fn |-> fn, sel |-> sel, ns |-> ns, one |-> one]

\* One on an element and delegated by the document, a namespace, focus and blur, both
\* directly and delegated, and focusin.
Bound == {
  <<HandlerOf(i1, "click", fn1, NoName, NoName, TRUE), HandlerOf(i1, "focus", fn2, NoName, NoName, TRUE)>>,
  <<HandlerOf(doc, "click", fn1, "s", NoName, TRUE), HandlerOf(doc, "focus", fn1, "s", NoName, TRUE)>>,
  <<HandlerOf(doc, "click", fn2, NoName, "n", FALSE)>>,
  <<HandlerOf(i2, "blur", fn2, NoName, NoName, FALSE), HandlerOf(doc, "blur", fn2, "s", NoName, FALSE),
    HandlerOf(i2, "focusin", fn2, NoName, NoName, FALSE)>>}

Criteria(at, type, fn, sel, ns) == [at |-> at, type |-> type, fn |-> fn, sel |-> sel, ns |-> ns]

Unbound == {Criteria(doc, "click", fn1, Every, Every), Criteria(doc, Every, Every, "**", Every),
            Criteria(i1, "focus", Every, Every, Every), Criteria(doc, Every, Every, Every, "n")}

\* Calling click sends a click; calling focus takes the focus from the other element.
Sent == [k \in {i1, i2, doc} \X EventTypes |->
           CASE k = <<i1, "click">> -> <<k>>
             [] k = <<i1, "focus">> -> <<<<i2, "blur">>, k>>
             [] OTHER               -> <<>>]

EventTargets   == {i1, i2, doc}
TriggeredOn    == {<<i1, "click", NoName>>, <<i1, "click", "n">>, <<i1, "focus", NoName>>}
SelectorsMatch == {<<"s", i1>>, <<"s", i2>>}
OnAttributes   == {<<i1, "click">>}

ASSUME EventsHold == EventsAssumption
-----------------------------------------------------------------------------
Page(kinds, on, max) == [calls |-> kinds, on |-> on, max |-> max]

\* A page uses some of the calls, so that what few of them do to each other is seen at depth.
PageScripts == {
  Page({"animation", "stop", "unqueued"}, {e1, e2}, 3),
  Page({"function", "stop", "promise"}, {e1}, 5),
  Page({"animation", "delay", "clearQueue", "stop", "promise", "function"}, {e1}, 3),
  Page({"animation", "stop"}, {e1}, 4),
  Page({"delay", "unqueued", "stop", "promise"}, {e1}, 4)}

ASSUME EffectsHold == EffectsAssumption
-----------------------------------------------------------------------------
Request(kind, async, timeout, global, beforeSend, name) ==
  [transport |-> kind, async |-> async, timeout |-> timeout, global |-> global,
   beforeSend |-> beforeSend, name |-> name]

\* Requests with and without a timeout, events, beforeSend and an answer, jsonp ones with
\* one name.
RequestsMade == {
  Request("xhr", TRUE, TRUE, TRUE, FALSE, None), Request("xhr", FALSE, FALSE, TRUE, TRUE, None),
  Request("xhr", TRUE, FALSE, FALSE, FALSE, None),
  Request("script", TRUE, TRUE, TRUE, FALSE, "cb"),
  Request("script", TRUE, FALSE, TRUE, FALSE, "cb"),
  Request(None, TRUE, FALSE, TRUE, FALSE, None)}

ASSUME AjaxHolds == AjaxAssumption
-----------------------------------------------------------------------------
Opt(types, inUrl, crossDomain, extra) ==
  [types |-> types, jsonp |-> inUrl, crossDomain |-> crossDomain, converters |-> extra]

FromJson == <<[from |-> "json", to |-> "foo", same |-> FALSE]>>

\* Requests with one type and with several, jsonp by type and by address, a type of the
\* page's own.
TypesAsked == {
  Opt(<<"*">>, FALSE, FALSE, <<>>), Opt(<<"jsonp">>, TRUE, TRUE, <<>>),
  Opt(<<"json">>, TRUE, FALSE, <<>>), Opt(<<"jsonp", "xml">>, FALSE, TRUE, <<>>),
  Opt(<<"text", "foo">>, FALSE, FALSE, FromJson), Opt(<<"foo">>, FALSE, FALSE, FromJson),
  Opt(<<"html", "*", "json", "foo">>, FALSE, FALSE, FromJson),
  Opt(<<"html", "*", "json">>, FALSE, FALSE, <<>>), Opt(<<"script">>, FALSE, TRUE, <<>>),
  Opt(<<"text">>, TRUE, TRUE, <<>>), Opt(<<"json", "foo", "html">>, FALSE, FALSE, FromJson)}

Part(type, before) == [type |-> type, before |-> before]

TypeExpressions == {
  <<Part("*", FALSE)>>, <<Part("json", TRUE), Part("text", FALSE)>>, <<Part("jsonp", FALSE)>>,
  <<Part("foo", TRUE), Part("script", TRUE)>>}

DataTypeNames == {"*", "text", "html", "json", "jsonp", "xml", "script", "foo"}
RedirectTo    == ("toJson" :> "json") @@ ("toFoo" :> "foo") @@ ("none" :> "nothing")
BroughtBy     == [p \in Plugins |-> "foo"]

ASSUME TypesHold == TypesAssumption
-----------------------------------------------------------------------------
\* An element, which may be cloned, and an object of the page; or a Flash object.  A name
\* with a dash in both spellings, one that camelCase changes twice, events, and a name before
\* whose namespace that is.
DataElements == {d1, d2, flash, plain}
DataKinds    == (d1 :> "element") @@ (d2 :> "element") @@ (flash :> "flash") @@ (plain :> "object")
DataPages    == {{d1, plain}, {flash}}
DataNames    == {"a-b", "aB", "a--b", "a-B", "events", "events.n"}
CamelOf      == ("a-b" :> "aB") @@ ("a--b" :> "a-B") @@ ("a-B" :> "aB") @@ [n \in DataNames |-> n]
DashedOf     == ("aB" :> "a-b") @@ ("a-B" :> "a--b") @@ [n \in DataNames |-> n]
BaseOf       == ("events.n" :> "events") @@ [n \in DataNames |-> n]
TakenAtOnce  == {{n} : n \in DataNames} \cup
                {{"a-b", "aB"}, {"aB", "events"}, {"a--b", "a-B"}, {"a-b", "a--b", "events.n"}}
ReadText     == (t1 :> n1) @@ (t2 :> Null)

ASSUME DataHolds == DataAssumption
-----------------------------------------------------------------------------
\* An element of which the height is animated.
OneBox == {x1}

ASSUME DisplayHolds == DisplayAssumption
-----------------------------------------------------------------------------
\* Strings without scripts, with an unknown element and with scripts, in a browser that
\* does not know the element: those are the ones that are cached.
Tag(what, below) == [kind |-> what, kids |-> below]

ParsedAs ==
  ("<p>"           :> <<Tag("element", <<"element">>)>>) @@
  ("<abbr><abbr>"        :> <<Tag("element", <<>>), Tag("element", <<>>)>>) @@
  ("<abbr script>" :> <<Tag("script", <<>>), Tag("element", <<"script">>)>>)

HtmlPage(kinds, texts, places, targets, max) ==
  [calls |-> kinds, texts |-> texts, places |-> places, targets |-> targets, max |-> max]

HtmlPages == {
  HtmlPage({"insert"}, {"<abbr><abbr>", "<abbr script>"}, {"append"}, {<<2>>}, 4),
  HtmlPage({"insert", "create", "html"}, {"<abbr><abbr>"}, {"before"}, {<<2, 4>>}, 3),
  HtmlPage({"insert", "insertTo", "create", "replace"}, {"<abbr script>"}, {"after"}, {<<2, 4>>}, 3),
  HtmlPage({"insert", "nodes", "remove", "replace", "data", "html", "empty"}, {"<p>"}, {"prepend"},
           {<<2, 4>>}, 3)}

HtmlStrings == DOMAIN ParsedAs
ShimStrings == {"<abbr><abbr>", "<abbr script>"}

N == INSTANCE Manipulation WITH
       Html <- HtmlStrings, Parsed <- ParsedAs, Shims <- ShimStrings, UnknownElems <- FALSE,
       Scripts <- HtmlPages, kind <- tags, data <- entries, frames <- insertions,
       script <- domScript, calls <- domCalls, ran <- evaluated,
       thrown <- domThrown
-----------------------------------------------------------------------------
nodeVars   == <<kids, tags, entries, fragments, held, insertions, domScript, domCalls, kept, due,
                evaluated, domThrown>>

RuntimeInit ==
  /\ scene \in {"deferred", "public", "events", "effects", "ajax", "types", "data", "display",
                "nodes"}
  /\ Init /\ PublicInit /\ EventsInit /\ EffectsInit /\ AjaxInit /\ TypesInit
  /\ DataInit /\ DisplayInit /\ N!Init
  /\ scene # "public" => chosen = {}
  /\ scene # "data" => made = {flash}
  /\ scene # "effects" => fxScript = CHOOSE s \in PageScripts : TRUE
  /\ scene # "display" => bare = "none" /\ node[x1].sheet = "none"
  /\ scene # "nodes" => domScript = CHOOSE s \in HtmlPages : TRUE

RuntimeNext ==
  /\ UNCHANGED scene
  /\ \/ /\ scene = "deferred" /\ Next
        /\ UNCHANGED <<publicVars, eventVars, effectVars, ajaxVars, typesVars,
                       dataVars, displayVars, nodeVars>>
     \/ /\ scene = "public" /\ PublicNext
        /\ UNCHANGED <<vars, eventVars, effectVars, ajaxVars, typesVars,
                       dataVars, displayVars, nodeVars>>
     \/ /\ scene = "events" /\ EventsNext
        /\ UNCHANGED <<vars, publicVars, effectVars, ajaxVars, typesVars,
                       dataVars, displayVars, nodeVars>>
     \/ /\ scene = "effects" /\ EffectsNext
        /\ UNCHANGED <<vars, publicVars, eventVars, ajaxVars, typesVars,
                       dataVars, displayVars, nodeVars>>
     \/ /\ scene = "ajax" /\ AjaxNext
        /\ UNCHANGED <<vars, publicVars, eventVars, effectVars, typesVars,
                       dataVars, displayVars, nodeVars>>
     \/ /\ scene = "types" /\ TypesNext
        /\ UNCHANGED <<vars, publicVars, eventVars, effectVars, ajaxVars,
                       dataVars, displayVars, nodeVars>>
     \/ /\ scene = "data" /\ DataNext
        /\ UNCHANGED <<vars, publicVars, eventVars, effectVars, ajaxVars,
                       typesVars, displayVars, nodeVars>>
     \/ /\ scene = "display" /\ DisplayNext
        /\ UNCHANGED <<vars, publicVars, eventVars, effectVars, ajaxVars,
                       typesVars, dataVars, nodeVars>>
     \/ /\ scene = "nodes" /\ N!Next
        /\ UNCHANGED <<vars, publicVars, eventVars, effectVars, ajaxVars,
                       typesVars, dataVars, displayVars>>

runtimeVars == <<scene, vars, publicVars, eventVars, effectVars, ajaxVars, typesVars, dataVars,
                 displayVars, nodeVars>>

RuntimeSpec == RuntimeInit /\ [][RuntimeNext]_runtimeVars
-----------------------------------------------------------------------------
\* Every variable keeps its type: lists and deferreds; handlers and what is left to call;
\* queues, each item with its call; requests; chains of data types; cache entries; what is
\* kept of elements to show them again; and the nodes of a document are a forest.
RuntimeTypeOK ==
  /\ TypeOK /\ EventsTypeOK /\ EffectsTypeOK /\ AjaxTypeOK /\ TypesTypeOK /\ DataTypeOK /\ DisplayTypeOK /\ N!TypeOK

\* Data goes with its node: nodes that are only moved keep it, none is left of nodes that
\* are gone.
DataFollowsNodes == N!DataReachable /\ N!DataKept

\* The nodes of a cached fragment are never used themselves, and the scripts of what is
\* inserted run once for each insertion.
FragmentsServe == N!CacheIntact /\ N!ScriptsRun

Symmetry == Permutations(Raw) \cup Permutations(Callbacks)
=============================================================================
