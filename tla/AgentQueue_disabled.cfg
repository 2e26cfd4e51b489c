SPECIFICATION Spec
CONSTANTS
  Replicas = {r1}
  Rules = {k1}
  Hosts = {a, b}
  Groupings = {"host"}
  Projects = {p}
  NoProject = noproject
  TargetProject = noproject
  DefaultProject = noproject
  KeptProjects = {p}
  Paths = {"router"}
  RuleStates = {"enabled", "disabled"}
  MaxActive = 1
  RateCeiling = 2
  BatchSize = 2
  DatedClosures = TRUE
  None = none
  MaxHandles = 2
  MaxEvents = 2
  MaxEdits = 1
  MaxFaults = 0
PROPERTY NothingSentWhenDisabled
