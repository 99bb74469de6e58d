CONSTANTS
  Total = 5
  Required = 1
  Sync = 1
  MaxRequired = 2
  MaxConcurrent = 2
  PendingSize = 1
  TestFreq = 2
  MaxFailures = 0
SPECIFICATION MCSpec
INVARIANT WithinStaleness
