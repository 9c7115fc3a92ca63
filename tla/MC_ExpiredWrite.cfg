SPECIFICATION Spec
CONSTANTS
  Threads = {t1}
  Proposals = {p1}
  Edits = {}
  None = None
  TTL = 1
  MaxTime = 3
  MaxFaults = 0
  MaxRestarts = 0
PROPERTIES
  FailedWithoutWrite
CHECK_DEADLOCK FALSE
