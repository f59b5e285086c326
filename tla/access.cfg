SPECIFICATION AccessSpec
CONSTANTS
  a1 = a1
  a2 = a2
  s1 = s1
  Admins = {a1, a2}
  Sessions = {s1}
  Validity = 2
  SessionAge = 2
  MaxTime = 4
SYMMETRY Symmetry
INVARIANTS SessionsEndWithStop AdmittedWasEntitled
CHECK_DEADLOCK FALSE
