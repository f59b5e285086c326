SPECIFICATION FairSpec
CONSTANTS
  Target = 3
  Budget = 2
  Shown = 9
  MaxRetries = 1
  MaxCrashes = 1
  MaxEscapes = 2
CONSTRAINT Calm
INVARIANTS OneSuccessPerSlot FullSuccessFillsSlots NothingLeftRunning
PROPERTIES Ends ShownLogoStays
CHECK_DEADLOCK FALSE
