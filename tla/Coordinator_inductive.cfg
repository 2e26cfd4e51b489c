SPECIFICATION Spec
CHECK_DEADLOCK FALSE
CONSTANTS
  Collectors = {c1, c2}
  NumFirings = 3
  MaxFaults = 1
INVARIANTS Handled
