SPECIFICATION Spec
CONSTANTS
  Threads = {t1, t2}
  Exec = x
  Review = r
  Previews = {p1, p2}
  None = None
  Steps = {1, 2, 3}
  Mutations = {1}
  Sources <- MCSources
  MaxPreviews = 2
  TTL = 1
  MaxTime = 2
  MaxStarts = 3
  MaxFaults = 1
  MaxRestarts = 1
CONSTRAINT OneTrouble
SYMMETRY Symmetry
INVARIANTS
  EffectOnce
  IntentBeforeEffect
  EffectIsOnRecord
  InputsWereProduced
PROPERTIES
  NoEffectAfterEnd
CHECK_DEADLOCK FALSE
