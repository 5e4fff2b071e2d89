SPECIFICATION FairSpec
CONSTANTS
  Pe = 1
  Dst <- MCDst
  Rows = 8
  BaseRow = 0
  Depth = 2
  MaxTuples = 4
  MaxRuns = 2
INVARIANTS
  TypeOK
  SlotFree
  HazardFree
  Accounted
  CountedOnce
  ResultSound
PROPERTY RunsFinish
