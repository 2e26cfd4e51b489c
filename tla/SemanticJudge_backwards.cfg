SPECIFICATION Spec
CONSTANTS
  Collectors = {c1, c2}
  Writers = {c1}
  Rules = {k1}
  Targets = {t1}
  MaxLines = 3
  Stored = 0
  Histories <- NoHistory
  Scope <- AllLines
  Alarming = {}
  Limit = 2
  Spike = 1
  MaxPerMin = 1
  None = none
  MaxEdits = 0
  MaxFaults = 0
PROPERTY CheckpointAdvances
