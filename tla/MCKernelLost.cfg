SPECIFICATION Spec
CONSTANTS
  task_a = task_a
  task_b = task_b
  task_c = task_c
  task_d = task_d
  idle = idle
  main = main
  NULL = NULL
  Task <- MCTask
  priority <- MCPriority
  BootOrder <- MCBootOrder
  Forever <- MCForever
  DEFAULT_TIMESLICE = 2
  SCHED_TICKS = 2
  ITERATIONS = 1
  TicksHitEnqueue = TRUE
  PanicKey = FALSE
CHECK_DEADLOCK FALSE
INVARIANT
  ReadyTasksQueued
