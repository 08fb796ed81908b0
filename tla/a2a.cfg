SPECIFICATION FairSpec
CONSTANTS
  Jobs = {j1, j2, j3}
  Contexts = {x, y}
  Locks = {l1, l2, l3}
  MaxTasks = 2
  MaxConcurrent = 2
  None = None
INVARIANTS ContextSerial RunningIsListed
PROPERTIES CancelIsFinal TasksEnd
CHECK_DEADLOCK FALSE
