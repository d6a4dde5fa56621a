CONSTANTS
  Texts = {t1, t2}
  RefusesAgain = TRUE
  MaxCrashes = 2
SPECIFICATION Spec
INVARIANTS
  TreesSound
  NoneAstray
  SentOnce
PROPERTY Settles
CHECK_DEADLOCK FALSE
