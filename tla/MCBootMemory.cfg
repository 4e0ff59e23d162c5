SPECIFICATION BootSpec
CONSTANTS
  PAGE_SIZE = 2
  BITS = 2
  WORD = 2
  MEM_START = 3
  MEM_END = 31
  Address <- MCAddress
  MAX_TABLES = 10
  MAX_HEAP = 10
CHECK_DEADLOCK FALSE
INVARIANTS
  Inv
  BitmapCoversPages
  HeapOwned
  ReusesFreedPage
PROPERTIES
  ImplementsArena
