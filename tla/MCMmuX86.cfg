SPECIFICATION Spec
CONSTANTS
  p1 = p1
  p2 = p2
  NULL = NULL
  ARM64 = FALSE
  Frame = {1, 2, 3, 4, 5, 6, 7, 8}
  Index = {0, 1}
  Page <- OnePage
  Kernel <- MCKernel
  Devices <- NoDevices
  Physical = {p1, p2}
  Flags <- MCFlags
SYMMETRY Symmetry
CHECK_DEADLOCK FALSE
INVARIANTS
  NoUseAfterUnmap
PROPERTIES
  ImplementsAddressMap
