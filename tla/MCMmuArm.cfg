SPECIFICATION Spec
CONSTANTS
  p1 = p1
  p2 = p2
  NULL = NULL
  ARM64 = TRUE
  Frame = {1, 2, 3, 4, 5, 6}
  Index = {0, 1}
  Page <- MCPage
  Kernel <- MCKernel
  Devices <- MCDevices
  Physical = {p1, p2}
  Flags <- NoFlags
SYMMETRY Symmetry
CHECK_DEADLOCK FALSE
INVARIANTS
  Inv
  NoUseAfterUnmap
PROPERTIES
  StaleOnlyByRemap
  EnabledWithMappings
  ImplementsAddressMap
