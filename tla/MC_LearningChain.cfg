SPECIFICATION Spec
CONSTANTS
  Execs = {e1, e2}
  Reviews = {r1, r2}
  Steps = {s1, s2}
  None = None
  MaxRecords = 1
  MaxStarts = 1
  Verifications = {1}
  Results <- MCResults
  MaxVerifications = 1
  Experiences = {1}
  Kinds <- MCKinds
  MaxExperiences = 1
  Run = {e1}
  MaxNotes = 1
  MaxCandidates = 1
  TTL = 1
  MaxTime = 2
  MaxFaults = 1
  MaxRestarts = 1
SYMMETRY Symmetry
INVARIANTS
  RowsHaveParents
  SucceededIsTrue
  CandidatesAreDurable
  GuidanceIsApproved
PROPERTIES
  DecisionIsFinal
  ImplementsCandidateStore
CHECK_DEADLOCK FALSE
