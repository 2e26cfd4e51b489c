SPECIFICATION Spec
CONSTANTS
  Collectors = {c1, c2}
  Writers = {c1}
  Rules = {k1}
  Targets = {t1, t2}
  MaxLines = 4
  Stored = 3
  Histories <- AnyHistory
  Scope <- AllButOneLine
  Alarming = {3, 4}
  Limit = 2
  Spike = 2
  MaxPerMin = 1
  None = none
  MaxEdits = 1
  MaxFaults = 2
SYMMETRY TargetSymmetry
INVARIANTS NoneSkipped CursorsSafe AlarmsDelivered
