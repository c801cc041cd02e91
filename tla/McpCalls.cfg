SPECIFICATION FairSpec
CONSTANTS
  None = None
  c1 = c1
  c2 = c2
  c3 = c3
  s1 = s1
  s2 = s2
  Calls <- ThreeCalls
  Tool <- Tools
  Scopes <- CallScopes
  Capacity = 1
  Prompts <- Said
  Named <- Names
  Defaults <- NoDefaults
  MaxRounds = 3
  Watched <- Observed
  Impatient <- Cancelling
  MaxEvents = 2
INVARIANTS
  ResumesWhatItNames
  NameResolves
  SettlementAnswered
  AnswersConverge
PROPERTIES
  CancelledIsAnswered
CHECK_DEADLOCK FALSE
