SPECIFICATION Spec
CONSTANTS
  Replicas = {r1, r2}
  Rules = {k1}
  Hosts = {a, b, c}
  Groupings = {"host"}
  Projects = {p}
  NoProject = noproject
  TargetProject = noproject
  DefaultProject = noproject
  KeptProjects = {p}
  Paths = {"router"}
  RuleStates = {"enabled"}
  MaxActive = 2
  RateCeiling = 3
  BatchSize = 2
  DatedClosures = TRUE
  None = none
  MaxHandles = 3
  MaxEvents = 3
  MaxEdits = 0
  MaxFaults = 2
SYMMETRY HostAndReplicaSymmetry
INVARIANTS TypeOK AgentCap NoStrayAgent CreateNotRepeated Backed OneChatPerGroup SeedFirst
PROPERTIES SameChat ClosedIsFinal
