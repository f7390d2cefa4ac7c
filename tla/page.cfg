SPECIFICATION PageSpec
CONSTANTS
  Handlers = {h1, h2}
  MaxHolds = 2
  e1 = e1
  e2 = e2
  Elements = {e1, e2}
  Durations = {0, 1}
  Properties = {2}
  MaxCalls = 4
  Requests = {1, 2}
  None = None
INVARIANTS
  TypeOK
  ReadySafe
PROPERTIES
  FiresReleased
  AllRun
  WhatBeganEnds
CHECK_DEADLOCK FALSE
