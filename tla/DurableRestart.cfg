SPECIFICATION Spec
CONSTANTS
  p1 = p1
  p2 = p2
  Steps <- TwoSteps
  Processes <- TwoProcesses
  MaxEpoch = 2
  MaxCalls = 2
  Exclusive = TRUE
  Careful <- FirstCareful
  TornWrites = TRUE
SYMMETRY Symmetry
PROPERTIES
  EpochsRise
  AnswerIsFinal
  UncertainStays
INVARIANTS
  CommitSurvives
  CallsOnce
CONSTRAINTS
  Unspoiled
  Few
CHECK_DEADLOCK FALSE
