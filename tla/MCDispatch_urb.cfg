CONSTANTS
  Kernels <- AllKernels
  Ranges <- SmallRanges
  MaxCsThreads = 56
  Word = 1048576
  PageSize = 4096
SPECIFICATION Spec
INVARIANT UrbRejectsOnlyLarge
CHECK_DEADLOCK FALSE
