CONSTANTS
  None = None
  MaxTasks = 3
  MaxNurseries = 2
  MaxBoth = 6
SPECIFICATION Spec
INVARIANTS InterpIsMine DrainLeavesNobody OnlyCirclesStop
PROPERTIES NurseryJoinsOwn
CHECK_DEADLOCK FALSE
