SPECIFICATION Spec
CHECK_DEADLOCK FALSE
CONSTANTS
  Sids = {s1}
  Tabs = {b1}
  Viewers = {b1}
  Shown = {1, 2, 4}
  Writers = 2
  BackLimit = 2
  TailLimit = 4
  RecheckEvery = 2
  MaxRows = 4
  MaxTokens = 2
  MaxRoles = 0
  MaxFaults = 1
  None = none
INVARIANT SentIsWhole
