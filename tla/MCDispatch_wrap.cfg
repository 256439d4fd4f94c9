CONSTANTS
  Kernels <- AllKernels
  Ranges <- WideRanges
  MaxCsThreads = 56
  Word = 65536
  PageSize = 4096
SPECIFICATION Spec
INVARIANT GroupLimit
CHECK_DEADLOCK FALSE
