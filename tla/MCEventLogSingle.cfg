CONSTANTS
  Writers = {w1}
  MAX_CALLS = 3
  LEN = 2
  SHORT = TRUE
SPECIFICATION Spec
INVARIANTS LogIsCallOrder ErrorLeavesNoTrace
CHECK_DEADLOCK FALSE
