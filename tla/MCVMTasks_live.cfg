CONSTANTS
  None = None
  MaxTasks = 2
  MaxNurseries = 2
  Ops = {"sleep", "effect", "nursery"}
SPECIFICATION FairSpec
PROPERTIES MainExits NurseryJoinsChildren
CHECK_DEADLOCK FALSE
