SPECIFICATION FairSpec
CONSTANTS
  Target = 2
  Budget = 1
  Shown = 9
  MaxRetries = 1
  MaxCrashes = 0
  MaxEscapes = 0
PROPERTY EndsAnyway
CHECK_DEADLOCK FALSE
