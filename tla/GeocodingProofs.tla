--------------------------- MODULE GeocodingProofs ---------------------------
(* Theorems of Geocoding, for any set of addresses. *)
EXTENDS Geocoding, TLAPS

\* Calls that an update may inherit from the geocoding of the insert before it.
Inherited == IF stage = "update" THEN MaxTrials + 1 ELSE 0

CallInv ==
  /\ pc = "first" => calls <= Inherited
  /\ pc = "loop" => calls <= Inherited + trials + 1 /\ trials < MaxTrials
  /\ calls <= Inherited + MaxTrials + 1

TrialInv ==
  pc \in {"decided"} \cup Ends /\ last \in {"null", "empty"} => trials = MaxTrials

\* The address object of a restaurant holds its own place or the payload's, and only
\* an address with text is asked for.
CoordsInv ==
  /\ stage \in {"insert", "update"} => coords \in {text, sent}
  /\ pc \in {"first", "loop", "decided"} => text \in Places
  /\ StoredCoordinates

IInv == TypeOK /\ CallInv /\ TrialInv /\ CoordsInv

LEMMA InitIInv == Init => IInv
BY PlacesAssumption
   DEF Init, IInv, TypeOK, CallInv, Inherited, TrialInv, CoordsInv, StoredCoordinates, Ends, Throws,
       Answers, MaxTrials

\* One step per action: what it changes, and the four parts it can disturb.
LEMMA NextIInv == IInv /\ [Next]_vars => IInv'
<1> SUFFICES ASSUME IInv, [Next]_vars PROVE IInv'
  OBVIOUS
<1> USE PlacesAssumption
    DEF IInv, TypeOK, CallInv, Inherited, TrialInv, CoordsInv, StoredCoordinates, Ends, Throws,
        Answers, MaxTrials, Located, LatLong
<1>1. ASSUME NEW a \in Places, NEW c \in Places \cup {NoPlace}, CreateRestaurant(a, c)
      PROVE  IInv'
  BY <1>1 DEF CreateRestaurant, Begin
<1>2. ASSUME NEW a \in Places, NEW c \in Places \cup {NoPlace}, UpdateRestaurant(a, c)
      PROVE  IInv'
  BY <1>2 DEF UpdateRestaurant, Begin
<1>3. ASSUME NEW a \in Places \cup {NoText}, FindRestaurants(a)
      PROVE  IInv'
  BY <1>3 DEF FindRestaurants, Begin
<1>4. ASSUME FirstCall PROVE IInv'
  BY <1>4 DEF FirstCall
<1>5. ASSUME NEW ans \in Answers, Trial(ans) PROVE IInv'
  BY <1>5 DEF Trial, ShouldRetry
<1>6. ASSUME NEW ex \in Throws, CallThrows(ex) PROVE IInv'
  BY <1>6 DEF CallThrows
<1>7. ASSUME PreInsertDone PROVE IInv'
  BY <1>7 DEF PreInsertDone
<1>8. ASSUME PreUpdateDone PROVE IInv'
  BY <1>8 DEF PreUpdateDone
<1>9. ASSUME SortDone PROVE IInv'
  BY <1>9 DEF SortDone
<1>10. CASE UNCHANGED vars
  BY <1>10 DEF vars
<1> QED BY <1>1, <1>2, <1>3, <1>4, <1>5, <1>6, <1>7, <1>8, <1>9, <1>10 DEF Next

LEMMA Invariance == Spec => []IInv
BY InitIInv, NextIInv, PTL DEF Spec

\* The request's coordinates, trials and answers keep their types.
THEOREM TypeCorrect == Spec => []TypeOK
BY Invariance, PTL DEF IInv

\* No answers of the service make one request call it more than twenty-two times.
THEOREM BoundedCalls == Spec => []CallsBounded
<1>1. IInv => CallsBounded
  BY DEF IInv, TypeOK, CallInv, Inherited, CallsBounded, MaxTrials
<1> QED BY <1>1, Invariance, PTL

\* An empty answer is never taken before the tenth trial.
THEOREM LateGiveUp == Spec => []GivesUpLate
<1>1. IInv => GivesUpLate
  BY DEF IInv, TrialInv, GivesUpLate
<1> QED BY <1>1, Invariance, PTL

\* A stored restaurant has the coordinates its address object ended with.
THEOREM CoordinatesStored == Spec => []StoredCoordinates
<1>1. IInv => StoredCoordinates
  BY DEF IInv, CoordsInv
<1> QED BY <1>1, Invariance, PTL
=============================================================================
