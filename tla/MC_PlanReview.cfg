SPECIFICATION PlanSpec
CONSTANTS
  Reviews = {r1, r2}
  TTLs = {2}
  MaxRecords = 1
  MaxTime = 3
  MaxFaults = 1
  MaxRestarts = 1
  MaxDamage = 1
  Instructions <- MCInstructions
  Memories <- MCMemories
  KindOf <- MCKindOf
  PathOrder <- MCPathOrder
  Hidden = {}
  Preferred = {NoAgent, "project"}
  ItemLimits = {2}
  MaxExcerpt = 2
  TotalChars = 2
  NoAgent = NoAgent
SYMMETRY Symmetry
INVARIANTS
  ReviewsAreOriginal
  TrustIsAuthorized
  PlanIsGrounded
PROPERTIES
  OneTerminalTransition
  PendingIsKept
CHECK_DEADLOCK FALSE
