SPECIFICATION Spec
CONSTANTS
  Tx = {t1, t2}
  Ids = {i1, i2, i3}
  Keys = {Rmgr, k2, k3}
  Rest = {p1, p2}
  Rmgr = Rmgr
  RmgrId = i1
  k2 = k2
  k3 = k3
  NoRow = NoRow
  NoId = NoId
  Contains <- Overlapping
INVARIANTS
  OneRmgr
CHECK_DEADLOCK FALSE
