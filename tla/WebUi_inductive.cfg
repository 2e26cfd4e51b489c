SPECIFICATION Spec
CHECK_DEADLOCK FALSE
CONSTANTS
  Sids = {s1}
  Tabs = {b1, b2}
  Viewers = {b1}
  Shown = {1, 2}
  Writers = 2
  BackLimit = 1
  TailLimit = 1
  RecheckEvery = 1
  MaxRows = 2
  MaxTokens = 2
  MaxRoles = 1
  MaxFaults = 1
  None = none
INVARIANTS TypeOK Watched
