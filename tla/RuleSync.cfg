SPECIFICATION FairSpec
CHECK_DEADLOCK FALSE
CONSTANTS
  Users = {alice, operator}
  Admins = {operator}
  MaxRules = 1
  MaxTargets = 2
  MaxCalls = 4
  MaxFaults = 1
INVARIANTS StaleExplained BoundByOwner UnboundBeforeEdit
PROPERTY Propagates
