\* A sub-partition with a block as wide as the cache: the kernel stops for
\* ever, which is what the run is to show, so deadlock is not checked.
CONSTANTS
  Inputs <- MCWideInputs
  LineSize = 2
  BurstLines = 2
  CacheSize = 16
  Margin = 2
  StreamDepth = 1
  CmdDepth = 2
  LineDepth = 2
  DelayBuffer = 2
  PoolSize = 4
  Magic = 1
  ENDFLAG = 200
SPECIFICATION FairSpec
PROPERTY Terminates
CHECK_DEADLOCK FALSE
