CONSTANTS
  Texts = {t1, t2}
  RefusesAgain = FALSE
  MaxCrashes = 1
SPECIFICATION Spec
INVARIANTS
  ListsAlive
CHECK_DEADLOCK FALSE
