SPECIFICATION Spec
CONSTANTS
  Runs = {r1, r2}
  Kie = FALSE
  MaxTasks = 4
  MaxGarbled = 0
  MaxResets = 1
  MaxCrashes = 1
  MaxFaults = 1
SYMMETRY RunSymmetry
INVARIANTS SucceededHasLogo
CHECK_DEADLOCK FALSE
