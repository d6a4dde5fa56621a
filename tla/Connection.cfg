SPECIFICATION Spec
CONSTANTS
  Programs = {{"both"}, {"send", "recv"}}
  MaxRefused = 1
  MaxBreaks = 3
INVARIANTS OneTimer
PROPERTIES FailedComesBack BrokenIsNoticed WrittenGoesOut
CHECK_DEADLOCK FALSE
