SPECIFICATION Spec
CONSTANTS
  Replicas = {r1}
  Rules = {k1}
  Hosts = {a, b}
  Groupings = {"host"}
  Projects = {p}
  NoProject = noproject
  TargetProject = noproject
  DefaultProject = noproject
  KeptProjects = {}
  Paths = {"router"}
  RuleStates = {"enabled", "disabled"}
  MaxActive = 2
  RateCeiling = 2
  BatchSize = 2
  DatedClosures = TRUE
  None = none
  MaxHandles = 2
  MaxEvents = 2
  MaxEdits = 0
  MaxFaults = 1
INVARIANT OneChatPerGroup
