SPECIFICATION Spec
CONSTANTS
  Replicas = {r1}
  Rules = {k1}
  Hosts = {a, b}
  Groupings = {"host", "rule"}
  Projects = {p, q}
  NoProject = noproject
  TargetProject = noproject
  DefaultProject = noproject
  KeptProjects = {p}
  Paths = {"router", "judge"}
  RuleStates = {"enabled", "disabled", "untargeted", "deleted"}
  MaxActive = 2
  RateCeiling = 2
  BatchSize = 2
  DatedClosures = FALSE
  None = none
  MaxHandles = 2
  MaxEvents = 2
  MaxEdits = 1
  MaxFaults = 1
INVARIANTS Instructed Kept RowsWait
