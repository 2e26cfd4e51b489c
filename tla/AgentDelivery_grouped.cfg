SPECIFICATION Spec
CONSTANTS
  Replicas = {r1}
  Rules = {k1, k2}
  Hosts = {a}
  Groupings = {"host", "rule"}
  Projects = {p}
  NoProject = noproject
  TargetProject = noproject
  DefaultProject = noproject
  KeptProjects = {p}
  Paths = {"router", "judge"}
  RuleStates = {"enabled", "disabled", "untargeted", "deleted"}
  MaxActive = 2
  RateCeiling = 2
  BatchSize = 2
  DatedClosures = TRUE
  None = none
  MaxHandles = 2
  MaxEvents = 2
  MaxEdits = 0
  MaxFaults = 1
INVARIANTS Instructed Kept RowsWait Grouped
ACTION_CONSTRAINT RulesKept
PROPERTY SameChat
