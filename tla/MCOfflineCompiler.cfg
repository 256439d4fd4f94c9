CONSTANTS
  Cases <- MCCases
  Families <- MCFamilies
SPECIFICATION Spec
\* The program ends.
CHECK_DEADLOCK FALSE
INVARIANTS TypeOK ArgumentsUnderstood DevicesFindTheirs NameIsSymbol FailureIsVisible
