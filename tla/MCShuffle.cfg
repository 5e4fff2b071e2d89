SPECIFICATION FairSpec
CONSTANTS
  PE_NUM = 2
  EDGE_NUM = 2
  LAYER1 = 2
  PadDst = 6
  Lists <- MCLists
  Junk <- MCJunk
  Depth <- MCDepth
INVARIANTS TypeOK Coupled Delivered NothingLeft
PROPERTIES Routes Completes
