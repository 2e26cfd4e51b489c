SPECIFICATION Spec
CONSTANTS
  Replicas = {r1}
  Rules = {k1}
  Hosts = {a, b}
  Groupings = {"host"}
  Projects = {noproject}
  NoProject = noproject
  TargetProject = p
  DefaultProject = noproject
  KeptProjects = {noproject}
  Paths = {"judge"}
  RuleStates = {"enabled", "disabled"}
  MaxActive = 1
  RateCeiling = 2
  BatchSize = 2
  DatedClosures = TRUE
  None = none
  MaxHandles = 2
  MaxEvents = 2
  MaxEdits = 0
  MaxFaults = 1
INVARIANT InheritsProject
