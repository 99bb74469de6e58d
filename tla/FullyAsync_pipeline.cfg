CONSTANTS
  Total = 5
  Required = 1
  Sync = 1
  MaxRequired = 3
  MaxConcurrent = 2
  PendingSize = 1
  TestFreq = 2
  MaxFailures = 1
SPECIFICATION MCFairSpec
INVARIANTS Conserved DoneTrainedAll
PROPERTY EventuallyDone
