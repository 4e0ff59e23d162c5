SPECIFICATION FairSpec
CONSTANTS
  a = a
  b = b
  c = c
  d = d
  idle = idle
  NULL = NULL
  Task <- MCTask
  priority <- MCPriority
  DEFAULT_TIMESLICE = 2
INVARIANTS
  Inv
PROPERTIES
  NoTaskLost
  DispatchesHighest
  FifoWithinPriority
  NoStarvation
