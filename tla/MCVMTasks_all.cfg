CONSTANTS
  None = None
  MaxTasks = 3
  MaxNurseries = 1
  Ops = {"sleep", "recv", "throw", "effect", "nursery", "escape"}
SPECIFICATION Spec
INVARIANTS ErrorTakenOnce DrainLeavesNobody CancelledBySibling
CHECK_DEADLOCK FALSE
