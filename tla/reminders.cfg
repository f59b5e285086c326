SPECIFICATION Spec
CONSTANTS
  a1 = a1
  Admins = {a1}
  Sessions = {}
  Validity = 2
  SessionAge = 1
  MaxTime = 5
  Threshold = 2
  Interval = 1
  MaxRepeat = 1
INVARIANTS ClockRunsForActive NotEarly
CHECK_DEADLOCK FALSE
