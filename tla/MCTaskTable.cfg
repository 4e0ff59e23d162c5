SPECIFICATION TaskSpec
CONSTANTS
  HEAP_START = 64
  HEAP_SIZE = 272
  Sizes <- MCSizes
  Aligns <- MCAligns
  UINT32 = 512
  MAX_TASKS = 4
  IdleStack = 40
  StackSizes <- MCStackSizes
  FAULT = FAULT
CHECK_DEADLOCK FALSE
INVARIANTS
  Inv
  FindsLowestFit
  StacksOwned
PROPERTIES
  HeadersPersist
  LostOnlyIfAligned
  ImplementsArena
  HandlesStable
