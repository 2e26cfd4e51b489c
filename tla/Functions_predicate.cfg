SPECIFICATION Spec
CHECK_DEADLOCK FALSE
CONSTANTS
  MaxItems = 3
  MaxNodes = 2
  YearDays = 8
  LeapDay = 3
  WeekDays = 3
  DayHours = 2
  LastHour = 9
  None = none
  Bad = bad
  Letters = {"a", "A", "s", "sz"}
  Offsets = {0}
  Zones = {0}
INVARIANT PredicateIsEquivalent
