------------------------------ MODULE Geocoding ------------------------------
(***************************************************************************)
(* How a request of midipascher gets the coordinates of an address:        *)
(* Geocoder.latLong and its retries, called by the pre-insert and          *)
(* pre-update listeners for a restaurant that is stored, and by the        *)
(* RestaurantToSortBuilderConverter for a search near an address.  The     *)
(* geocoding service is external: it answers, or its client throws, as it  *)
(* likes.                                                                  *)
(*                                                                         *)
(* createRestaurant geocodes twice.  The coordinates that onPreInsert sets *)
(* come after the inserted columns were copied; the flush finds the entity *)
(* dirty, onPreUpdate geocodes again, and its UPDATE writes them.          *)
(***************************************************************************)
EXTENDS Naturals

CONSTANTS
  Places,    \* addresses that can be located; also stands for where they are
  NoPlace,   \* no coordinates
  NoText     \* an address without formatted text

ASSUME PlacesAssumption == NoPlace \notin Places /\ NoText \notin Places

VARIABLES
  pc,      \* idle, first call, loop, decided, or how the request ended
  stage,   \* who asks: the insert, the update or the sort converter
  text,    \* formatted text of the address
  coords,  \* coordinates the address object holds
  sent,    \* coordinates that came with the payload
  column,  \* coordinates the row holds
  trials,  \* countTrials
  calls,   \* history: calls of the service made by this request
  last     \* the last answer

vars == <<pc, stage, text, coords, sent, column, trials, calls, last>>

MaxTrials == 10

\* A null response, one with no results, with one, with several; the client threw the
\* exception latLong declares, or another one.
Answers == {"null", "empty", "one", "many"}
Throws  == {"encoding", "other"}

Ends == {"stored", "searched", "refused"}

TypeOK ==
  /\ pc \in {"idle", "first", "loop", "decided"} \cup Ends
  /\ stage \in {"insert", "update", "sort"}
  /\ text \in Places \cup {NoText}
  /\ {coords, sent, column} \subseteq Places \cup {NoPlace}
  /\ trials \in 0..MaxTrials /\ calls \in Nat
  /\ last \in Answers \cup Throws \cup {"none"}

Init ==
  /\ pc = "idle" /\ stage = "sort" /\ text = NoText
  /\ coords = NoPlace /\ sent = NoPlace /\ column = NoPlace
  /\ trials = 0 /\ calls = 0 /\ last = "none"
-----------------------------------------------------------------------------
Begin(s, a, c) ==
  /\ pc \in {"idle"} \cup Ends
  /\ stage' = s /\ text' = a /\ coords' = c /\ sent' = c
  /\ trials' = 0 /\ calls' = 0 /\ last' = "none"

\* The row of an earlier request is not looked at again.  The listeners format the
\* text of a validated address.  An update that leaves the entity as it was loaded
\* sends no UPDATE, asks nothing and is not an action.
CreateRestaurant(a, c) == Begin("insert", a, c) /\ pc' = "first" /\ column' = NoPlace
UpdateRestaurant(a, c) == Begin("update", a, c) /\ pc' = "first" /\ UNCHANGED column

\* A search whose criteria have no text is sorted by date.
FindRestaurants(a) ==
  /\ Begin("sort", a, NoPlace)
  /\ pc' = IF a = NoText THEN "searched" ELSE "first"
  /\ UNCHANGED column

\* The response of the call before the loop is not used.
FirstCall ==
  /\ pc = "first"
  /\ pc' = "loop" /\ calls' = calls + 1 /\ trials' = 0
  /\ UNCHANGED <<stage, text, coords, sent, column, last>>

\* Mutants: the loop counts one trial more; it gives up at once.
ShouldRetryMore(ans, n)  == ans \in {"null", "empty"} /\ n <= MaxTrials
ShouldRetryNever(ans, n) == FALSE

ShouldRetry(ans, n) == ans \in {"null", "empty"} /\ n < MaxTrials

Trial(ans) ==
  /\ pc = "loop"
  /\ calls' = calls + 1 /\ trials' = trials + 1 /\ last' = ans
  /\ pc' = IF ShouldRetry(ans, trials + 1) THEN "loop" ELSE "decided"
  /\ UNCHANGED <<stage, text, coords, sent, column>>

CallThrows(ex) ==
  /\ pc \in {"first", "loop"}
  /\ calls' = calls + 1 /\ last' = ex /\ pc' = "decided"
  /\ UNCHANGED <<stage, text, coords, sent, column, trials>>

\* Exactly one result is taken; everything else is a BusinessException.
Located == last = "one"

\* What addCoordinates leaves in the address object.
LatLong == IF Located THEN text ELSE coords

\* onPreInsert swallows every Throwable; the INSERT has the columns of the payload.
PreInsertDone ==
  /\ pc = "decided" /\ stage = "insert"
  /\ coords' = LatLong /\ column' = sent
  /\ stage' = "update" /\ pc' = "first" /\ trials' = 0 /\ last' = "none"
  /\ UNCHANGED <<text, sent, calls>>

\* Mutant: the coordinates set by a listener come too late for the UPDATE as well.
PreUpdateLate ==
  /\ pc = "decided" /\ stage = "update"
  /\ coords' = LatLong /\ column' = sent
  /\ pc' = "stored"
  /\ UNCHANGED <<stage, text, sent, trials, calls, last>>

\* onPreUpdate swallows every Throwable; the UPDATE has what the address object holds.
PreUpdateDone ==
  /\ pc = "decided" /\ stage = "update"
  /\ coords' = LatLong /\ column' = LatLong
  /\ pc' = "stored"
  /\ UNCHANGED <<stage, text, sent, trials, calls, last>>

\* The sort converter catches the declared exception only.
SortDone ==
  /\ pc = "decided" /\ stage = "sort"
  /\ coords' = LatLong
  /\ pc' = IF Located \/ last = "encoding" THEN "searched" ELSE "refused"
  /\ UNCHANGED <<stage, text, sent, column, trials, calls, last>>

Next ==
  \/ \E a \in Places, c \in Places \cup {NoPlace} : CreateRestaurant(a, c) \/ UpdateRestaurant(a, c)
  \/ \E a \in Places \cup {NoText} : FindRestaurants(a)
  \/ FirstCall
  \/ \E ans \in Answers : Trial(ans)
  \/ \E ex \in Throws : CallThrows(ex)
  \/ PreInsertDone \/ PreUpdateDone \/ SortDone

Spec == Init /\ [][Next]_vars
-----------------------------------------------------------------------------
\* The service is called at most eleven times for one address, so that a creation,
\* which geocodes twice, holds its transaction open for at most twenty-two calls.
CallsBounded == calls <= (MaxTrials + 1) * (IF stage = "update" THEN 2 ELSE 1)

\* A request gives up only after ten empty answers: when it stores or refuses without
\* a location, the service has had its trials, or has answered with several matches.
GivesUpLate ==
  pc \in {"decided"} \cup Ends /\ last \in {"null", "empty"} => trials = MaxTrials

\* "Insert/Update should never fail due to geocode issue": what the request stores is
\* what the address object holds in the end, the place of its own text if either
\* geocoding found it, and only otherwise what the payload had.
StoredCoordinates ==
  pc = "stored" => column = coords /\ column \in {text, sent} /\ (Located => column = text)
=============================================================================
