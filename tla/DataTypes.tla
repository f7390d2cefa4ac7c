----------------------------- MODULE DataTypes -----------------------------
(***************************************************************************)
(* Data types of a request of jQuery 1.7: prefilters and transports are    *)
(* registered for types, the inspection that runs the prefilters follows   *)
(* their redirections and the one for jsonp changes the types, then a      *)
(* transport is selected; the type of the response is mediated between     *)
(* what came, its content type and what is expected, and is converted from *)
(* each type to the next.  Values are left out: of a response only its     *)
(* type is kept.                                                           *)
(***************************************************************************)
EXTENDS Integers, FiniteSets, SequencesExt

CONSTANTS
  TypeNames,    \* data types, "*" among them
  Asked,        \* options: [types, jsonp, crossDomain, converters], converters of new pairs
  Expressions,  \* expressions that the page registers for: sequences of [type, before]
  Filters,      \* prefilters of the page
  Redirect,     \* the type that each of them redirects to, or NoType
  Plugins,      \* transports of the page
  Brings,       \* the type each of them responds with
  Cors,         \* jQuery.support.cors
  ContentTypes, \* content types, named by the data type whose pattern they match, or NoType
  NoType, MaxRegistered

VARIABLES
  prefilters, transports,  \* the functions of each type
  registered,              \* how many functions the page has registered
  settings,                \* s
  chain,                   \* s.dataTypes
  converters,              \* s.converters, in the order for-in goes through them
  phase,
  inspections,             \* inspections that have begun: [of, at]
  inspected,               \* types that were inspected
  ran,                     \* history: the prefilters that were run, as <<type, place>>
  selected,                \* the transport
  current, place,             \* the type converted to by now, its place in the chain
  form,                    \* the type that the response has
  given                    \* history: converters that were called: [from, to, form]

Conversions == [from : TypeNames, to : TypeNames, same : BOOLEAN]

\* What a page can ask for and register; functions of jQuery's own are told by their types.
TypesAssumption ==
  /\ IsFiniteSet(TypeNames) /\ {"*", "text", "html", "json", "jsonp", "xml", "script"} \subseteq TypeNames
  /\ NoType \notin TypeNames /\ MaxRegistered \in Nat /\ Cors \in BOOLEAN
  /\ Asked # {} /\ \A o \in Asked :
       /\ o.types \in Seq(TypeNames) /\ o.types # <<>> /\ {o.jsonp, o.crossDomain} \subseteq BOOLEAN
       /\ o.converters \in Seq(Conversions)
  /\ \A x \in Expressions : x \in Seq([type : TypeNames, before : BOOLEAN])
  /\ {"jsonp", "script"} \cap Filters = {} /\ Redirect \in [Filters -> TypeNames \cup {NoType}]
  /\ {"script", "xhr", NoType} \cap Plugins = {} /\ Brings \in [Plugins -> TypeNames \ {"*"}]
  /\ NoType \notin {"script", "xhr"} /\ ContentTypes \subseteq (TypeNames \ {"*"}) \cup {NoType}

tables == <<prefilters, transports, registered>>
typesVars == <<tables, settings, chain, converters, phase, inspections, inspected, ran,
               selected, current, place, form, given>>

Converter(from, to, same) == [from |-> from, to |-> to, same |-> same]

\* ajaxSettings.converters, the last one added with the script type.
Defaults == <<Converter("*", "text", FALSE), Converter("text", "html", TRUE),
              Converter("text", "json", FALSE), Converter("text", "xml", FALSE),
              Converter("text", "script", FALSE)>>

ScriptJson == Converter("script", "json", FALSE)

TypesInit ==
  /\ prefilters = [t \in TypeNames |-> IF t \in {"json", "jsonp"} THEN <<"jsonp">>
                                   ELSE IF t = "script" THEN <<"script">> ELSE <<>>]
  /\ transports = [t \in TypeNames |-> IF t = "script" THEN <<"script">>
                                   ELSE IF t = "*" THEN <<"xhr">> ELSE <<>>]
  /\ registered = 0 /\ settings = (CHOOSE o \in Asked : TRUE) /\ chain = <<>> /\ converters = Defaults
  /\ phase = "idle" /\ inspections = <<>> /\ inspected = {} /\ ran = <<>> /\ selected = NoType
  /\ current = "*" /\ place = 0 /\ form = NoType /\ given = {}
-----------------------------------------------------------------------------
\* f as often as the expression names a type, with a plus or without.
Copies(expression, t, before, f) ==
  [i \in 1..Cardinality({k \in DOMAIN expression : expression[k] = [type |-> t, before |-> before]}) |-> f]

\* addToPrefiltersOrTransports: for each type of the expression, after those that are there
\* or, with a plus, before them.
AddTo(table, expression, f) ==
  [t \in TypeNames |->
     Copies(expression, t, TRUE, f) \o table[t] \o Copies(expression, t, FALSE, f)]

AjaxPrefilter(expression, f) ==
  /\ phase = "idle" /\ registered < MaxRegistered /\ registered' = registered + 1
  /\ prefilters' = AddTo(prefilters, expression, f)
  /\ UNCHANGED <<transports, settings, chain, converters, phase, inspections, inspected, ran, selected,
                 current, place, form, given>>

AjaxTransport(expression, f) ==
  /\ phase = "idle" /\ registered < MaxRegistered /\ registered' = registered + 1
  /\ transports' = AddTo(transports, expression, f)
  /\ UNCHANGED <<prefilters, settings, chain, converters, phase, inspections, inspected, ran, selected,
                 current, place, form, given>>
-----------------------------------------------------------------------------
Inspection(type) == [of |-> type, at |-> 1]

\* ajax, up to the prefilters: the settings are a copy, with the converters of the options.
Ask(o) ==
  /\ phase = "idle" /\ phase' = "prefilters"
  /\ settings' = o /\ chain' = o.types /\ converters' = Defaults \o o.converters
  /\ inspections' = <<Inspection(o.types[1])>> /\ inspected' = {o.types[1]}
  /\ UNCHANGED <<tables, ran, selected, current, place, form, given>>

Innermost == Last(inspections)
Passed    == Append(Front(inspections), [Innermost EXCEPT !.at = @ + 1])
Reaches(table) == inspections # <<>> /\ Innermost.at <= Len(table[Innermost.of])

\* The prefilter for jsonp looks at the type that is first by now.
IsJsonp(f) == f = "jsonp" /\ (chain[1] = "jsonp" \/ settings.jsonp)

\* What a prefilter returns: a type to go to, or nothing.
Returned(f) == IF IsJsonp(f) THEN "script" ELSE IF f \in Filters THEN Redirect[f] ELSE NoType

\* Mutant: a type is gone to however often.
RedirectedAgain(types, to) ==
  /\ chain' = <<to>> \o types /\ inspected' = inspected \cup {to}
  /\ inspections' = Append(Passed, Inspection(to))

\* Mutant: a type that was gone to is not remembered.
RedirectedUnmarked(types, to) ==
  IF to \in inspected THEN chain' = types /\ inspections' = Passed /\ UNCHANGED inspected
  ELSE chain' = <<to>> \o types /\ inspections' = Append(Passed, Inspection(to)) /\ UNCHANGED inspected

\* Mutant: the type gone to takes the place of the first.
RedirectedInPlace(types, to) ==
  IF to \in inspected THEN chain' = types /\ inspections' = Passed /\ UNCHANGED inspected
  ELSE /\ chain' = <<to>> \o Tail(types) /\ inspected' = inspected \cup {to}
       /\ inspections' = Append(Passed, Inspection(to))

\* A redirection puts its type in front and inspects it, unless that was done already.
Redirected(types, to) ==
  IF to \in inspected THEN chain' = types /\ inspections' = Passed /\ UNCHANGED inspected
  ELSE /\ chain' = <<to>> \o types /\ inspected' = inspected \cup {to}
       /\ inspections' = Append(Passed, Inspection(to))

\* One prefilter; the one for jsonp makes the first type json and adds a converter.
RunPrefilter ==
  /\ phase = "prefilters" /\ Reaches(prefilters)
  /\ LET f     == prefilters[Innermost.of][Innermost.at]
         to    == Returned(f)
         types == IF IsJsonp(f) THEN [chain EXCEPT ![1] = "json"] ELSE chain
     IN  /\ converters' = IF IsJsonp(f) /\ ScriptJson \notin ToSet(converters)
                          THEN Append(converters, ScriptJson) ELSE converters
         /\ IF to = NoType THEN chain' = types /\ inspections' = Passed /\ UNCHANGED inspected
            ELSE Redirected(types, to)
  /\ ran' = Append(ran, <<Innermost.of, Innermost.at>>)
  /\ UNCHANGED <<tables, settings, phase, selected, current, place, form, given>>

\* Mutant: every transport function is called, the last one that serves is selected.
SearchesOn == Reaches(transports)

\* Transports are only searched for as long as none is selected.
Searches == selected = NoType /\ Reaches(transports)

Serves(f) ==
  CASE f = "script" -> settings.crossDomain
    [] f = "xhr"    -> Cors \/ ~settings.crossDomain
    [] OTHER        -> TRUE

TryTransport ==
  /\ phase = "transports" /\ Searches
  /\ LET f == transports[Innermost.of][Innermost.at] IN selected' = IF Serves(f) THEN f ELSE NoType
  /\ inspections' = Passed
  /\ UNCHANGED <<tables, settings, chain, converters, phase, inspected, ran, current, place, form, given>>

\* The end of an inspection: the catchall comes last, once.
ListEnds ==
  /\ inspections # <<>>
  /\ \/ phase = "prefilters" /\ ~Reaches(prefilters)
     \/ phase = "transports" /\ ~Searches
  /\ IF (phase = "prefilters" \/ selected = NoType) /\ "*" \notin inspected
     THEN inspections' = Append(Front(inspections), Inspection("*")) /\ inspected' = inspected \cup {"*"}
     ELSE inspections' = Front(inspections) /\ UNCHANGED inspected
  /\ UNCHANGED <<tables, settings, chain, converters, phase, ran, selected, current, place, form, given>>

\* The second inspection of a request.
SearchTransports ==
  /\ phase = "prefilters" /\ inspections = <<>> /\ phase' = "transports"
  /\ inspections' = <<Inspection(chain[1])>> /\ inspected' = {chain[1]}
  /\ UNCHANGED <<tables, settings, chain, converters, ran, selected, current, place, form, given>>
-----------------------------------------------------------------------------
\* What a transport answers with, in the order of its fields.
Responses ==
  CASE selected = "xhr" -> {<<"text">>, <<"xml", "text">>}
    [] selected = "script" -> {<<>>}
    [] selected \in Plugins -> {<<Brings[selected]>>}
    [] OTHER -> {}

\* Leading stars go, and the content type takes their place if it is known.
Expected(ct) ==
  LET named == {i \in DOMAIN chain : chain[i] # "*"}
      rest  == IF named = {} THEN <<>> ELSE SubSeq(chain, Min(named), Len(chain))
  IN  IF chain[1] # "*" \/ ct = NoType THEN rest ELSE <<ct>> \o rest

Converts(from, to) == \E i \in DOMAIN converters : converters[i].from = from /\ converters[i].to = to

\* The response of the first type, or else the first one that can be converted to it.
FinalType(responses, types) ==
  LET fit == {i \in DOMAIN responses : types = <<>> \/ Converts(responses[i], types[1])}
  IN  IF types # <<>> /\ types[1] \in ToSet(responses) THEN types[1]
      ELSE IF fit # {} THEN responses[Min(fit)]
      ELSE responses[1]

\* done with an answer; the transport for scripts has no response, ajaxHandleResponses is
\* not called.
Respond(responses, ct) ==
  /\ phase = "transports" /\ inspections = <<>> /\ selected # NoType /\ responses \in Responses
  /\ phase' = "convert" /\ place' = 1
  /\ LET types == Expected(ct)
         final == FinalType(responses, types)
     IN  IF responses = <<>> THEN form' = chain[1] /\ UNCHANGED chain
         ELSE /\ form' = final
              /\ chain' = IF types # <<>> /\ types[1] = final THEN types ELSE <<final>> \o types
  /\ current' = chain'[1]
  /\ UNCHANGED <<tables, settings, converters, inspections, inspected, ran, selected, given>>

\* No transport, or an answer that is an error.
Fails ==
  /\ phase = "transports" /\ inspections = <<>> /\ phase' = "error"
  /\ UNCHANGED <<tables, settings, chain, converters, inspections, inspected, ran, selected, current, place,
                 form, given>>
-----------------------------------------------------------------------------
Lookup(from, to) == {i \in DOMAIN converters : converters[i].from = from /\ converters[i].to = to}

\* Mutant: on the way over a third type, the second converter is forgotten.
RouteHalf(prev, next) ==
  LET any == Lookup(prev, next) \cup Lookup("*", next)
      via == {i \in DOMAIN converters :
                converters[i].from \in {prev, "*"} /\ Lookup(converters[i].to, next) # {}}
  IN  IF any # {} THEN <<converters[Min(any)]>>
      ELSE IF via # {} THEN <<converters[Min(via)]>> ELSE <<>>

\* The converters from one type to the next: the one for both, or for any type to it, or the
\* first one whose type leads on to it; none if there is no way.
Route(prev, next) ==
  LET direct == Lookup(prev, next)
      any    == Lookup("*", next)
      via    == {i \in DOMAIN converters :
                   converters[i].from \in {prev, "*"} /\ Lookup(converters[i].to, next) # {}}
      half   == converters[Min(via)]
  IN  IF direct # {} THEN <<converters[Min(direct)]>>
      ELSE IF any # {} THEN <<converters[Min(any)]>>
      ELSE IF via # {} THEN <<half, converters[Min(Lookup(half.to, next))]>>
      ELSE <<>>

\* A star in the chain stands for the type there is.
NextType == IF chain[place + 1] = "*" THEN current ELSE chain[place + 1]

\* The type that the response has when it comes to the i-th converter of a route, or past
\* the last one: equivalences change nothing.
FormAt(route, i) ==
  LET after(f, c) == IF c.same THEN f ELSE c.to
  IN  CASE i = 1 -> form
        [] i = 2 -> after(form, route[1])
        [] i = 3 -> after(after(form, route[1]), route[2])

\* ajaxConvert, one type further; a converter may throw.
Convert ==
  /\ phase = "convert" /\ place < Len(chain) /\ place' = place + 1
  /\ current' = NextType
  /\ IF current = "*" \/ NextType = current THEN UNCHANGED <<phase, form, given>>
     ELSE LET route  == Route(current, NextType)
              called == {i \in DOMAIN route : ~route[i].same}
          IN  \/ /\ route # <<>> /\ UNCHANGED phase
                 /\ form' = FormAt(route, Len(route) + 1)
                 /\ given' = given \cup {[conv |-> route[i], form |-> FormAt(route, i)] : i \in called}
              \/ phase' = "parsererror" /\ UNCHANGED <<form, given>>
  /\ UNCHANGED <<tables, settings, chain, converters, inspections, inspected, ran, selected>>

Succeed ==
  /\ phase = "convert" /\ place = Len(chain) /\ phase' = "success"
  /\ UNCHANGED <<tables, settings, chain, converters, inspections, inspected, ran, selected, current, place,
                 form, given>>

TypesNext ==
  \/ \E x \in Expressions :
       \/ \E f \in Filters : AjaxPrefilter(x, f)
       \/ \E f \in Plugins : AjaxTransport(x, f)
  \/ \E o \in Asked : Ask(o)
  \/ RunPrefilter \/ TryTransport \/ ListEnds \/ SearchTransports \/ Fails \/ Convert \/ Succeed
  \/ \E responses \in Responses, ct \in ContentTypes : Respond(responses, ct)

TypesSpec == TypesInit /\ [][TypesNext]_typesVars
-----------------------------------------------------------------------------
\* The chain of types keeps naming types, the place in it stays inside, and no inspection
\* goes deeper than there are types.
TypesTypeOK ==
  /\ ToSet(chain) \subseteq TypeNames /\ place \in 0..Len(chain) /\ current \in TypeNames
  /\ form \in TypeNames \cup {NoType} /\ inspected \subseteq TypeNames /\ Len(inspections) <= Cardinality(TypeNames)

\* When the prefilters are through, those of the first type, of every type that was
\* redirected to and of the catchall have run exactly once, however they redirect to each other.
PrefiltersOnce ==
  phase = "prefilters" /\ inspections = <<>> =>
    /\ \A i, j \in DOMAIN ran : ran[i] = ran[j] => i = j
    /\ {settings.types[1], "*"} \subseteq inspected
    /\ ToSet(ran) = UNION {{<<t, i>> : i \in DOMAIN prefilters[t]} : t \in inspected}

\* The transport is the first one that serves among those of the first type, and one of the
\* catchall only if none of these does.
FirstThatServes ==
  phase = "transports" /\ inspections = <<>> =>
    LET all     == transports[chain[1]] \o (IF chain[1] = "*" THEN <<>> ELSE transports["*"])
        serving == {i \in DOMAIN all : Serves(all[i])}
    IN  selected = IF serving = {} THEN NoType ELSE all[Min(serving)]

\* Types that a value of type t has too: equivalences lead from t to them.
ClosedUnder(K) ==
  \A i \in DOMAIN converters :
    converters[i].same /\ (converters[i].from = "*" \/ converters[i].from \in K) => converters[i].to \in K
IsA(t, u) == t = u \/ \A K \in SUBSET TypeNames : t \in K /\ ClosedUnder(K) => u \in K

\* Every converter is given a value of the type it converts from.
GivenItsType ==
  \A g \in given : g.conv.from = "*" \/ IsA(g.form, g.conv.from)

\* What a success handler gets is of the type the page asked for last, for jsonp json.
OfTheTypeAsked ==
  phase = "success" /\ Last(settings.types) # "*" =>
    \/ IsA(form, Last(settings.types))
    \/ settings.types = <<"jsonp">> /\ IsA(form, "json")

\* Every prefilter meant for a request runs once however others redirect it, the first
\* transport that serves is used, and each converter of the chain is given its own type, so
\* that the result is of the type asked for.
TypesServed == PrefiltersOnce /\ FirstThatServes /\ GivenItsType /\ OfTheTypeAsked
=============================================================================
