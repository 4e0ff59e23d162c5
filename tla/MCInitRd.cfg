SPECIFICATION Spec
CONSTANTS
  Name = {"welcome.txt", "readme.txt", "missing"}
  names <- MCNames
  sizes <- MCSizes
  DATA_SIZE = 16
  Request = {0, 1, 2, 5, 7, 8}
  WIDTH = 4
  NULL = NULL
  ROOT = ROOT
INVARIANTS
  ReadsThatFile
PROPERTY
  ZeroMeansEnd
