SPECIFICATION FairSpec
CONSTANTS
  c1 = c1
  c2 = c2
  Calls <- TwoCalls
  Steps = {c2}
  Capacity = 1
INVARIANTS
  CapacityShared
  NoEffectsMeansNotLaunched
  SettlementPreserved
  RepliesAfterSettlement
PROPERTIES
  DropReturnsCapacity
  DeadlineSettles
CHECK_DEADLOCK FALSE
