SPECIFICATION FairSpec
CONSTANTS
  Tx = {t1, t2}
  Accounts = {a1}
  Restaurants = {r1}
  Specialties = {s1, s2}
  Contents = {c1, c2}
  NoAccount = NoAccount
  NoContent = NoContent
  NoDoc = NoDoc
PROPERTIES
  RequestsEnd
  CommitPublishes
CHECK_DEADLOCK FALSE
