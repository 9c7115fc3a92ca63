SPECIFICATION Spec
CONSTANTS
  Execs = {e1}
  Reviews = {r1}
  Steps = {s1, s2}
  None = None
  MaxRecords = 1
  MaxTime = 1
  MaxStarts = 2
  MaxFaults = 0
  MaxRestarts = 0
PROPERTIES
  FailedLeavesByRecovery
CHECK_DEADLOCK FALSE
