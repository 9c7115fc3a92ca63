SPECIFICATION Spec
CONSTANTS
  Execs = {e1, e2, e3}
  Reviews = {r1, r2}
  Steps = {s1, s2}
  None = None
  MaxRecords = 1
  MaxTime = 2
  MaxStarts = 2
  MaxFaults = 1
  MaxRestarts = 1
CONSTRAINT OneTrouble
SYMMETRY Symmetry
INVARIANTS
  NoDuplicateExecution
  InFlightIsDurable
  OutcomeMatchesSteps
  OneRecordPerReview
PROPERTIES
  DurableOutcome
CHECK_DEADLOCK FALSE
