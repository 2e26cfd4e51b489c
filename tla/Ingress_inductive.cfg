SPECIFICATION Spec
CHECK_DEADLOCK FALSE
CONSTANTS
  Udp = {u1}
  Tcp = {t1}
  Otlp = {o1, o2}
  Noisy = {u1, o1}
  Bad = {t1}
  QueueMax = 2
  BatchMax = 2
  MaxEdits = 1
  MaxFaults = 1
INVARIANTS TypeOK Conveyed
