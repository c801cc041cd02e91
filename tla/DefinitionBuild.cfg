SPECIFICATION Spec
CONSTANTS
  Ids <- AllIds
  ValidIds <- Valid
  Inputs <- AllInputs
INVARIANTS
  KeepsEveryStep
  DecidesAcyclicity
  OrderIsCanonical
