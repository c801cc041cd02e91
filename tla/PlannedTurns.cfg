SPECIFICATION FairSpec
CONSTANTS
  None = None
  Scenarios <- AllScenarios
  FileSystems <- SomeFileSystems
  Streams <- ShortStreams
INVARIANTS
  HonorOrRefuse
  WithinHostPolicy
  PreflightSound
  EffectsTruthful
  ExitCodeIrrelevant
  SessionProven
PROPERTIES
  CancelledCallSettles
CHECK_DEADLOCK FALSE
