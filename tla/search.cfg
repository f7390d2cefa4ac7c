SPECIFICATION Spec
CONSTANTS
  i1 = i1
  i2 = i2
  t1 = t1
  t2 = t2
  r1 = r1
  r2 = r2
  r3 = r3
  w1 = w1
  w2 = w2
  s1 = s1
  s2 = s2
  Indices = {i1, i2}
  Types = {t1, t2}
  MappingFiles <- TwoFolders
  Home = i1
  NoIndex = NoIndex
  NoType = NoType
  Restaurants = {r1, r2, r3}
  MaxBacklog = 2
  TextFields = {"name"}
  ExactFields = {"companyId"}
  FlagFields = {"halal"}
  Words = {w1, w2}
  Plain = {w1, s1}
  Malformed = Malformed
  Codes = {s1, s2}
  MessageCodes = {"geocode.service.unavailable", "geocode.no.results", "geocode.too.many.results"}
  Content <- Documents
  Criteria <- Asked
  NullCriteria = NullCriteria
  CreatedRank <- Newest
  DistanceRank <- Nearest
  PageSize = 2
  RestaurantType = t1
INVARIANTS
  TypeOK
  ServingMapped
  FreshDocuments
PROPERTIES
  AnswersSatisfy
  PagesFull
