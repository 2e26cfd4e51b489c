SPECIFICATION FairSpec
CONSTANTS
  Replicas = {r1}
  Rules = {k1}
  Hosts = {a, b}
  Groupings = {"host"}
  Projects = {p, q}
  NoProject = noproject
  TargetProject = noproject
  DefaultProject = noproject
  KeptProjects = {p, q}
  Paths = {"router"}
  RuleStates = {"enabled", "disabled", "untargeted", "deleted"}
  MaxActive = 1
  RateCeiling = 2
  BatchSize = 2
  DatedClosures = TRUE
  None = none
  MaxHandles = 2
  MaxEvents = 2
  MaxEdits = 1
  MaxFaults = 1
PROPERTIES Settled SlotReleased
