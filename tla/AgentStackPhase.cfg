SPECIFICATION Spec
CONSTANTS
  c1 = c1
  c2 = c2
  Calls <- TwoCalls
  Steps = {}
  Capacity = 1
SYMMETRY Symmetry
INVARIANT
  RunningMeansLaunched
CHECK_DEADLOCK FALSE
