SPECIFICATION Spec
CONSTANTS
  Places = {p1, p2}
  NoPlace = NoPlace
  NoText = NoText
SYMMETRY Symmetry
INVARIANTS
  TypeOK
  CallsBounded
  GivesUpLate
  StoredCoordinates
