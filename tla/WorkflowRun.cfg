SPECIFICATION CooperativeSpec
CONSTANTS
  Steps <- DiamondSteps
  Needs <- DiamondNeeds
  MaxConcurrency = 2
INVARIANTS
  DependenciesFirst
  WorkConserving
  SettlementsReported
  TruthfulReply
PROPERTIES
  NoCallOnceStopped
  RunsTheGraph
  StopEnds
  Terminates
