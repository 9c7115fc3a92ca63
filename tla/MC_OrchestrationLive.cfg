SPECIFICATION LiveSpec
CONSTANTS
  Threads = {t1, t2}
  Exec = x
  Review = r
  Previews = {p1}
  None = None
  Steps = {1, 2}
  Mutations = {1}
  Sources <- MCSources
  MaxPreviews = 1
  TTL = 1
  MaxTime = 1
  MaxStarts = 3
  MaxFaults = 1
  MaxRestarts = 0
PROPERTIES
  RequestsEnd
  LockIsReleased
CHECK_DEADLOCK FALSE
