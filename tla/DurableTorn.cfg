SPECIFICATION Spec
CONSTANTS
  p1 = p1
  p2 = p2
  Steps <- OneStep
  Processes <- OneProcess
  MaxEpoch = 2
  MaxCalls = 2
  Exclusive = TRUE
  Careful <- OneStep
  TornWrites = TRUE
INVARIANTS
  Survives
CHECK_DEADLOCK FALSE
