SPECIFICATION Spec
CONSTANTS
  Requests = {r1, r2}
  Keys = {k1, k2}
  Notify = TRUE
  MaxTasks = 2
  MaxUploads = 2
  MaxUpsets = 2
SYMMETRY Symmetry
INVARIANTS OneOpenTask KeyCreatesOneTask StageWatched DeliveredHasFile
PROPERTIES KeepsBoardPromise ConfirmedReplacement StopBeatsAdministrator
CHECK_DEADLOCK FALSE
