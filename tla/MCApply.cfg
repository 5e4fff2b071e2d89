SPECIFICATION FairSpec
CONSTANTS
  CuNum = 2
  PeNum = 2
  BurstBuffer = 2
  BurstWrite = 2
  MaxVertices = 8
  CompressedNum = 10
  Active <- MCActive
INVARIANTS TypeOK NewPropertiesOwn ActiveCounted
PROPERTIES WordsWrittenOnce AllApplied
