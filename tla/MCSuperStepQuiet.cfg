SPECIFICATION Spec
CONSTANTS
  CuNum = 2
  BlkNum = 3
  Order <- MCOrder
  UntilQuiet = TRUE
  MaxSteps = 3
  MaxRuns = 2
INVARIANT StopsWhenQuiet
