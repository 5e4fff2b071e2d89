CONSTANTS
  Inputs <- MCInputs
  LineSize = 2
  BurstLines = 2
  CacheSize = 16
  Margin = 2
  StreamDepth = 1
  CmdDepth = 2
  LineDepth = 2
  DelayBuffer = 2
  PoolSize = 4
  Magic = 1
  ENDFLAG = 200
SPECIFICATION FairSpec
INVARIANT TypeOK
PROPERTIES FreshRead Terminates
