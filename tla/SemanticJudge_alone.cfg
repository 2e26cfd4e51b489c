SPECIFICATION Spec
CHECK_DEADLOCK FALSE
CONSTANTS
  Collectors = {c1}
  Writers = {c1}
  Rules = {k1}
  Targets = {t1, t2}
  MaxLines = 4
  Stored = 1
  Histories <- AnyHistory
  Scope <- AllButOneLine
  Alarming = {3, 4}
  Limit = 2
  Spike = 2
  MaxPerMin = 1
  None = none
  MaxEdits = 2
  MaxFaults = 2
INVARIANT Alone
