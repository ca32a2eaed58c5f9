CONSTANTS
  None = None
  MaxTasks = 1
  MaxNurseries = 0
  Ops = {"throw"}
SPECIFICATION Spec
INVARIANTS ThrowIsCaptured
CHECK_DEADLOCK FALSE
