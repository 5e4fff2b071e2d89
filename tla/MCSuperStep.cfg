SPECIFICATION FairSpec
CONSTANTS
  CuNum = 2
  BlkNum = 3
  Order <- MCOrder
  UntilQuiet = TRUE
  MaxSteps = 3
  MaxRuns = 2
INVARIANTS TypeOK EventMeansGathered ResultsComplete SourcesStable
PROPERTIES RegisterFresh BulkSynchronous StepsEnd
