SPECIFICATION Spec
SYMMETRY RuleSymmetry
CONSTANTS
  Replicas = {r1}
  Rules = {k1, k2}
  Hosts = {a}
  Groupings = {"host", "rule"}
  Projects = {p, q}
  NoProject = noproject
  TargetProject = noproject
  DefaultProject = noproject
  KeptProjects = {p}
  Paths = {"router"}
  RuleStates = {"enabled", "disabled", "untargeted", "deleted"}
  MaxActive = 1
  RateCeiling = 1
  BatchSize = 2
  DatedClosures = TRUE
  None = none
  MaxHandles = 2
  MaxEvents = 2
  MaxEdits = 1
  MaxFaults = 1
INVARIANT NothingLost
PROPERTY ImplementsOutbox
