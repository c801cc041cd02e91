SPECIFICATION Spec
CONSTANTS
  e1 = e1
  e2 = e2
  e3 = e3
  Emitters <- ThreeEmitters
  Sizes <- PayloadSizes
  Capacity = 2
  max_event_bytes = 2
  max_queued_bytes = 3
INVARIANTS
  BudgetExact
CHECK_DEADLOCK FALSE
