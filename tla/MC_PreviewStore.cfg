SPECIFICATION Spec
CONSTANTS
  Previews = {p1, p2, p3}
  Execs = {x1, x2}
  Steps = {s1}
  None = None
  MaxRecords = 2
  TTL = 1
  MaxTime = 3
  MaxFaults = 2
  MaxRestarts = 2
SYMMETRY Symmetry
INVARIANTS
  IndexIsSound
  ClaimedOnce
  OneClaimPerStep
  ClaimIsDurable
PROPERTIES
  SpentStaysSpent
CHECK_DEADLOCK FALSE
