SPECIFICATION Spec
CONSTANTS
  Threads = {t1, t2}
  Proposals = {p1, p2}
  Edits = {e1}
  None = None
  TTL = 1
  MaxTime = 3
  MaxFaults = 1
  MaxRestarts = 1
SYMMETRY Symmetry
INVARIANTS
  AtMostOneCopy
  AppliedWasWritten
  MemoryFollowsRows
PROPERTIES
  CheckedEditsSurvive
CHECK_DEADLOCK FALSE
