SPECIFICATION Spec
CONSTANTS
  SIZE = 4
  Code <- MCCode
  BYTE = 3
  Glyph <- MCGlyph
  LONG_LIM = 32
  INT_LIM = 16
  Calls <- MCCalls
INVARIANTS
  StringCallsExact
  PrintsAsAsked
