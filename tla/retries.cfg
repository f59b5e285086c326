SPECIFICATION Spec
CONSTANTS
  Runs = {r1, r2, r3}
  Kie = TRUE
  MaxTasks = 3
  MaxGarbled = 4
  MaxResets = 1
  MaxCrashes = 1
  MaxFaults = 0
SYMMETRY RunSymmetry
INVARIANTS TypeOK CalmInv ChargedOncePerReset ChargesBounded LogoIffSucceeded
CHECK_DEADLOCK FALSE
