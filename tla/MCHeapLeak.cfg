SPECIFICATION Spec
CONSTANTS
  HEAP_START = 64
  HEAP_SIZE = 272
  Sizes <- MCSizes
  Aligns <- MCAligns
  UINT32 = 512
PROPERTIES
  KfreeReclaims
