CONSTANTS
  t1 = t1
  t2 = t2
  Callers = {t1, t2}
  Order <- ShortOrder
  ArgBos <- ShortArgs
  CheckedBos <- ShortChecked
  UserBuf <- ShortUserBuf
  Pages = {1, 2, 3}
  Handles = {1, 2, 3, 4, 5}
  PagesFrom <- AnyOf
  HandlesFrom <- LowestOf
  None = None
  Garbage = {1}
  MayHang = TRUE
  MaxCalls = 1
SPECIFICATION Spec
INVARIANT WaitsForGpu
CHECK_DEADLOCK FALSE
