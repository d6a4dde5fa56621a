SPECIFICATION Spec
CONSTANTS
  NumDC = 3
  KeyKinds = {"full", "short"}
  MaxStarts = 3
  MaxFaults = 2
  AnyDC = AnyDC
  register_mode = FALSE
INVARIANTS AgreesWithServer WrongKeysExplained ReadyIsKept
PROPERTIES NothingForgotten Arrives
CHECK_DEADLOCK FALSE
