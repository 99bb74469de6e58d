CONSTANTS
  Total = 6
  Required = 2
  Sync = 1
  MaxRequired = 3
  MaxConcurrent = 2
  PendingSize = 1
  TestFreq = 2
  MaxFailures = 0
SPECIFICATION MCFairSpec
PROPERTY EventuallyDone
