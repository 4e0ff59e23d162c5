SPECIFICATION FairSpec
CONSTANTS
  task_a = task_a
  task_b = task_b
  task_c = task_c
  task_d = task_d
  idle = idle
  main = main
  NULL = NULL
  Task <- FourTasks
  priority <- FourPriorities
  BootOrder <- FourInOrder
  Forever <- MCForever
  DEFAULT_TIMESLICE = 2
  SCHED_TICKS = 2
  ITERATIONS = 2
  TicksHitEnqueue = FALSE
  PanicKey = TRUE
CHECK_DEADLOCK FALSE
INVARIANTS
  RunsOnLiveStack
  ReadyTasksQueued
  EretReturnsToOwner
  IrqInv
PROPERTIES
  SchedulerSpec
  WaitingTasksRun
  PanicHalts
