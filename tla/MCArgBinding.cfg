CONSTANTS
  p1 = p1
  p2 = p2
  b1 = b1
  b2 = b2
  b3 = b3
  n1 = n1
  Prepared = {p1, p2}
  Kernels <- AllKernels
  Slots = {1, 2}
  Buffers = {b1, b2, b3}
  Misaligned = {b2}
  Empty = {b3}
  Names = {n1}
  Handles = {1, 2, 3}
  Null = Null
SPECIFICATION Spec
INVARIANTS TypeOK HandlesOwned ParametersReachArguments RelocationsResolve ArgumentsMatchSignature
