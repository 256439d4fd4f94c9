CONSTANTS
  Inputs <- AllInputs
  Hash <- MCHash
  Word = 1048576
SPECIFICATION Spec
\* The call returns.
CHECK_DEADLOCK FALSE
INVARIANTS TypeOK PositionAgrees FoundIsWritten IntactIsRead
