SPECIFICATION FairSpec
CONSTANTS
  Timed = {1}
  Immediate = {2}
  MaxAttempts = 3
  MaxFaults = 2
  MaxChanges = 2
INVARIANTS PostsBounded
PROPERTIES Notified
CHECK_DEADLOCK FALSE
