SPECIFICATION Spec
CONSTANTS
  Tx = {t1}
  Ids = {i1, i2}
  Keys = {k1, k2}
  Rest = {p1}
  k1 = k1
  k2 = k2
  Admin = i1
  NoUser = NoUser
  NoRow = NoRow
  NoId = NoId
  Contains <- Overlapping
INVARIANTS
  OwnEmailLogsIn
CHECK_DEADLOCK FALSE
