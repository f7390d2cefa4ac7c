----------------------------- MODULE SearchQuery -----------------------------
(***************************************************************************)
(* The query of a restaurant search: RestaurantToQueryBuilderConverter and *)
(* what the engine makes of its clauses.  A text is the set of its words   *)
(* once analysed, an exact field a set of at most one value.               *)
(***************************************************************************)
EXTENDS FiniteSets

CONSTANTS
  TextFields,   \* name, description, mainOffer, street address, city, postal code
  ExactFields,  \* companyId and countryCode
  FlagFields,   \* kosher, halal, vegetarian
  Words,        \* words and values of the fields
  Plain,        \* those that analysis leaves as they are
  Malformed,    \* text that the query parser refuses
  Codes         \* codes of food specialties

Fields == TextFields \cup ExactFields \cup FlagFields

\* A restaurant as criteria or as document; {} is a field that is null or empty.
Restaurant == [value : [Fields -> SUBSET (Words \cup {Malformed})], codes : SUBSET Codes]

\* Field "specialties" is put last and has the codes as its value.
CriteriaAsMap(c) == {f \in Fields : c.value[f] # {}}

NoCriteria(c) == CriteriaAsMap(c) = {} /\ c.codes = {}

\* queryString on an analysed field: one of the words occurs.
QueryString(values, stored) == values \cap stored # {}

\* Without its mapping a field is analysed, and a term, which is not, is only found if
\* analysis leaves it as it is.
Term(values, stored, mapped) == values = stored /\ (mapped \/ values \subseteq Plain)

\* The term of a flag does not depend on the mapping.
FlagTerm(values, stored) == values = stored

Terms(codes, stored, mapped) == \E x \in codes \cap stored : mapped \/ x \in Plain

Clause(f, c, d, mapped) ==
  /\ f \in TextFields  => QueryString(c.value[f], d.value[f])
  /\ f \in ExactFields => Term(c.value[f], d.value[f], mapped)
  /\ f \in FlagFields  => FlagTerm(c.value[f], d.value[f])

\* Mutant: the clauses are added as should instead of must.
SomeClause(c, d, mapped) ==
  \/ NoCriteria(c)
  \/ \E f \in CriteriaAsMap(c) : Clause(f, c, d, mapped)
  \/ Terms(c.codes, d.codes, mapped)

\* match_all, or a bool query whose clauses must all match.
Matches(c, d, mapped) ==
  \/ NoCriteria(c)
  \/ /\ \A f \in CriteriaAsMap(c) : Clause(f, c, d, mapped)
     /\ c.codes # {} => Terms(c.codes, d.codes, mapped)

ParseFails(c) == \E f \in TextFields : Malformed \in c.value[f]
=============================================================================
