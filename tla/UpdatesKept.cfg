SPECIFICATION Spec
CONSTANTS
  Slice = 1
  Before = 1
  MaxUpdates = 3
  MaxCrashes = 2
  MaxLosses = 1
INVARIANTS StartMissesOnlyHoles
PROPERTIES Settles
CHECK_DEADLOCK FALSE
