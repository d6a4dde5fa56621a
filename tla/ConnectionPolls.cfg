SPECIFICATION Spec
CONSTANTS
  Programs = {{"recv"}}
  MaxRefused = 0
  MaxBreaks = 1
PROPERTIES PollGetsMessages
CHECK_DEADLOCK FALSE
