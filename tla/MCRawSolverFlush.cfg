SPECIFICATION Spec
CONSTANTS
  Pe = 1
  Dst <- MCDst
  Rows = 8
  BaseRow = 0
  Depth = 2
  MaxTuples = 4
  MaxRuns = 2
INVARIANT ResultComplete
