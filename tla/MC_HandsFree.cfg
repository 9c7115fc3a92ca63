SPECIFICATION Spec
CONSTANTS
  MaxPending = 3
INVARIANTS
  MicrophoneHasOneOwner
  ClosedIsQuiet
PROPERTIES
  WakeListeningReturns
  TurnsMoveOn
CHECK_DEADLOCK FALSE
