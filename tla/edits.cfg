SPECIFICATION FairSpec
CONSTANTS
  r1 = r1
  r2 = r2
  Requests = {r1, r2}
  Direct = {r2}
  Slots = 1
  MaxTries = 2
  MaxStops = 2
  MaxEscapes = 1
INVARIANTS NumbersInOrder ChargesBounded
PROPERTIES Settles EditsKeepPromise
CHECK_DEADLOCK FALSE
