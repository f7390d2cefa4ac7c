SPECIFICATION Spec
CONSTANTS
  Tx = {t1, t2, t3}
  Accounts = {a1, a2}
  Restaurants = {r1, r2}
  Specialties = {s1}
  Contents = {c1, c2}
  NoAccount = NoAccount
  NoContent = NoContent
  NoDoc = NoDoc
SYMMETRY Symmetry
INVARIANTS
  TypeOK
  IndexMirrorsRows
  DeletedStaysUnlisted
  WriterOwnsDocument
PROPERTIES
  OwnerKept
  ListingImplemented
CHECK_DEADLOCK FALSE
