SPECIFICATION FairSpec
CONSTANTS
  c1 = c1
  c2 = c2
  Steps <- TwoSteps
  Calls <- TwoCalls
  Concurrency = 2
  Invocations <- ReplayedInvocations
  MaxEpoch = 2
  MaxWorkers = 2
INVARIANTS
  CallRetained
  RepliesMatchRecord
PROPERTIES
  NoCallAfterLoss
  LaunchedSettles
CHECK_DEADLOCK FALSE
