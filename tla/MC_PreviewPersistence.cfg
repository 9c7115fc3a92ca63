SPECIFICATION Spec
CONSTANTS
  Previews = {p1, p2, p3}
  Execs = {x1}
  Steps = {s1}
  None = None
  MaxRecords = 2
  TTL = 1
  MaxTime = 3
  MaxFaults = 0
  MaxRestarts = 0
INVARIANTS
  EveryTransitionPersisted
CHECK_DEADLOCK FALSE
