SPECIFICATION TablesSpec
CONSTANTS
  Tx = {t1, t2}
  Ids = {i1, i2, i3}
  Keys = {k1, k2}
  Rest = {p1, p2}
  k1 = k1
  k2 = k2
  Admin = i1
  Rmgr = k1
  NoUser = NoUser
  NoRow = NoRow
  NoId = NoId
  Contains <- Overlapping
SYMMETRY Symmetry
INVARIANTS
  TypeOK
  KeysUnique
PROPERTIES
  AuthorityStaysInactive
  OpenedOnlyByOverlap
CHECK_DEADLOCK FALSE
