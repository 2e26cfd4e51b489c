SPECIFICATION Spec
CONSTANTS
  Replicas = {r1}
  Rules = {k1}
  Hosts = {a, b, c}
  Groupings = {"host"}
  Projects = {p}
  NoProject = noproject
  TargetProject = noproject
  DefaultProject = noproject
  KeptProjects = {p}
  Paths = {"router"}
  RuleStates = {"enabled", "disabled"}
  MaxActive = 1
  RateCeiling = 2
  BatchSize = 2
  DatedClosures = TRUE
  None = none
  MaxHandles = 4
  MaxEvents = 4
  MaxEdits = 0
  MaxFaults = 0
PROPERTY FifoAdmission
