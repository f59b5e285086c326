SPECIFICATION FairSpec
CONSTANTS
  Runs = {r1, r2}
  Kie = TRUE
  MaxTasks = 2
  MaxGarbled = 1
  MaxResets = 0
  MaxCrashes = 2
  MaxFaults = 0
PROPERTIES Settles KeepsCandidatePromise
CHECK_DEADLOCK FALSE
