SPECIFICATION InterruptsSpec
CONSTANTS
  VGA_WIDTH = 8
  VGA_HEIGHT = 2
  ECHOES = 3
  TIMER_TICK_HZ = 2
INVARIANTS
  CursorReturns
  EndsItsOwn
PROPERTIES
  MainOnScreen
  ImplementsConsole
  KeysAreRead
