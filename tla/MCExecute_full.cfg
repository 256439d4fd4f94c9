CONSTANTS
  t1 = t1
  Callers = {t1}
  Order <- FullOrder
  ArgBos <- FullArgs
  CheckedBos <- FullChecked
  UserBuf <- FullUserBuf
  Pages = {1, 2, 3, 4, 5, 6, 7, 8, 9, 10}
  Handles = {1, 2, 3, 4, 5, 6, 7, 8, 9, 10, 11}
  PagesFrom <- LowestOf
  HandlesFrom <- LowestOf
  None = None
  Garbage = {1}
  MayHang = TRUE
  MaxCalls = 4
SPECIFICATION FairSpec
PROPERTIES ImplementsService CallEnds
CHECK_DEADLOCK FALSE
