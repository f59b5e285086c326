SPECIFICATION Spec
CONSTANTS
  Target = 2
  Budget = 1
  Shown = 9
  MaxRetries = 1
  MaxCrashes = 0
  MaxEscapes = 1
INVARIANTS WithinBudget EndMatchesLogos
CHECK_DEADLOCK FALSE
