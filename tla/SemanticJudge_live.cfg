SPECIFICATION FairSpec
CONSTANTS
  Collectors = {c1}
  Writers = {c1}
  Rules = {k1, k2}
  Targets = {t1}
  MaxLines = 3
  Stored = 0
  Histories <- NoHistory
  Scope <- AllLines
  Alarming = {2}
  Limit = 2
  Spike = 3
  MaxPerMin = 1
  None = none
  MaxEdits = 0
  MaxFaults = 1
PROPERTIES NoRepeat CheckpointAdvances EventuallyJudged
