CONSTANTS
  Kernels <- AllKernels
  Ranges <- SmallRanges
  MaxCsThreads = 66
  Word = 1048576
  PageSize = 4096
SPECIFICATION FairSpec
INVARIANTS TypeOK ItemsCovered PayloadFits WidestChosen SlmCovers
PROPERTY Ends
CHECK_DEADLOCK FALSE
