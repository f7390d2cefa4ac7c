--------------------------- MODULE SearchRequests ---------------------------
(***************************************************************************)
(* POST /restaurants/search, from SearchRestaurantsResource through        *)
(* SearchEngineImpl.findRestaurantsByCriteria to the answer, on an index   *)
(* that a start of the server has prepared and the listeners keep writing. *)
(* One request is followed; searches write nothing.                        *)
(***************************************************************************)
EXTENDS IndexBootstrap, SearchQuery, ExceptionMapping

CONSTANTS
  Content,       \* the document of each restaurant
  Criteria,      \* criteria that are searched with
  NullCriteria,  \* a request without a body
  CreatedRank,   \* position of each restaurant by created and updated, newest first
  DistanceRank,  \* position by distance from the place searched
  PageSize,      \* hits of a response when no size is asked for
  RestaurantType \* SearchEngine.RESTAURANT_TYPE_NAME

ASSUME SearchAssumption ==
  /\ Content \in [Restaurants -> Restaurant]
  /\ Criteria \subseteq Restaurant /\ NullCriteria \notin Criteria
  /\ CreatedRank \in [Restaurants -> Nat] /\ DistanceRank \in [Restaurants -> Nat]
  /\ PageSize \in Nat
  /\ IsFiniteSet(Restaurants)   \* an id is a Long
  /\ <<Home, RestaurantType>> \in MappingFiles   \* elasticsearch/midipascher/restaurant.json

VARIABLES
  pc,        \* idle, sort, find, answered
  criteria,  \* of the request
  rank,      \* the order asked for
  answer     \* status and hits

svars == <<pc, criteria, rank, answer>>
vars  == <<bvars, svars>>

NoAnswer == [status |-> 0, hits |-> {}]

Ranks == {CreatedRank, DistanceRank}

TypeOK ==
  /\ BootTypeOK
  /\ pc \in {"idle", "sort", "find", "answered"}
  /\ criteria \in Criteria \cup {NullCriteria}
  /\ rank \in Ranks
  /\ answer \in [status : Nat, hits : SUBSET Restaurants]

Init ==
  /\ BootInit
  /\ pc = "idle" /\ criteria = NullCriteria /\ rank = CreatedRank /\ answer = NoAnswer
-----------------------------------------------------------------------------
Respond(status, hits) == pc' = "answered" /\ answer' = [status |-> status, hits |-> hits]

Fails(ex) == Respond(ToResponse(ex), {})

\* The query is built from the criteria alone, before the sort.
Search(c) ==
  /\ phase = "serving" /\ pc \in {"idle", "answered"}
  /\ criteria' = c /\ rank' = CreatedRank
  /\ IF c = NullCriteria
     THEN Fails(Exception({"IllegalArgumentException"}, "none"))
     ELSE pc' = "sort" /\ answer' = NoAnswer
  /\ UNCHANGED bvars

\* Criteria without formatted address, and the exception latLong declares, leave the
\* order by dates; what latLong refuses, or the geocoding client throws, ends the search.
GeocodeCodes == {"geocode.service.unavailable", "geocode.no.results", "geocode.too.many.results"}
GeocodeFailures == {Exception({"BusinessException"}, code) : code \in GeocodeCodes}
                     \cup {Exception({}, "none")}

SortByDates    == pc = "sort" /\ pc' = "find" /\ UNCHANGED <<bvars, criteria, rank, answer>>
SortByDistance == pc = "sort" /\ pc' = "find" /\ rank' = DistanceRank
                  /\ UNCHANGED <<bvars, criteria, answer>>
GeocodeFails(ex) == pc = "sort" /\ Fails(ex) /\ UNCHANGED <<bvars, criteria, rank>>

Matching == {r \in docs : Matches(criteria, Content[r], <<Home, RestaurantType>> \in mapped)}

\* No size is set: the response has the first page.
Page(found) == {r \in found : Cardinality({s \in found : rank[s] < rank[r]}) < PageSize}

FindRestaurants ==
  /\ pc = "find"
  /\ Home \in there /\ ~ParseFails(criteria)
  /\ Respond(200, Page(Matching))
  /\ UNCHANGED <<bvars, criteria, rank>>

\* A missing index, a query that does not parse, or no node that answers.
SearchFails ==
  /\ pc = "find"
  /\ Fails(Exception({}, "none"))
  /\ UNCHANGED <<bvars, criteria, rank>>

\* A server that stops answers nothing more.
Lost == pc' = "idle" /\ criteria' = NullCriteria /\ rank' = CreatedRank /\ answer' = NoAnswer

Bootstrap == BootNext /\ IF phase' = "serving" THEN UNCHANGED svars ELSE Lost

Next ==
  \/ Bootstrap
  \/ \E c \in Criteria \cup {NullCriteria} : Search(c)
  \/ SortByDates \/ SortByDistance
  \/ \E ex \in GeocodeFailures : GeocodeFails(ex)
  \/ FindRestaurants \/ SearchFails

Spec == Init /\ [][Next]_vars
-----------------------------------------------------------------------------
\* What the caller of a search means: every criterion that is given holds, a text
\* criterion by one of its words, the specialties by one of them.
Satisfies(d, c) ==
  /\ \A f \in TextFields : c.value[f] # {} => c.value[f] \cap d.value[f] # {}
  /\ \A f \in ExactFields \cup FlagFields : c.value[f] # {} => c.value[f] = d.value[f]
  /\ c.codes # {} => c.codes \cap d.codes # {}

Wanted == {r \in docs : Satisfies(Content[r], criteria)}

\* A search answered with 200 has only restaurants that satisfy its criteria, whatever
\* the starts before it went through.
AnswersSatisfy == [][answer' # answer /\ answer'.status = 200 => answer'.hits \subseteq Wanted]_vars

\* It lacks a restaurant that satisfies them only if it has a full page of others that
\* come before it in the order asked for.
PagesFull ==
  [][answer' # answer /\ answer'.status = 200 =>
       \A r \in Wanted \ answer'.hits :
         Cardinality({s \in answer'.hits : rank[s] <= rank[r]}) >= PageSize]_vars
=============================================================================
