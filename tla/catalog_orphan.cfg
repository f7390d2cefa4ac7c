SPECIFICATION Spec
CONSTANTS
  Tx = {t1, t2}
  Accounts = {a1}
  Restaurants = {r1}
  Specialties = {s1}
  Contents = {c1}
  NoAccount = NoAccount
  NoContent = NoContent
  NoDoc = NoDoc
INVARIANTS
  NoOrphan
CHECK_DEADLOCK FALSE
