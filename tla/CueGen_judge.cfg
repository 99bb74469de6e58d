CONSTANTS
  NumRows = 1
  NumShards = 1
  Concurrency = 1
  MaxRetries = 1
  UseJudge = TRUE
  MaxKills = 0
SPECIFICATION MCSpec
INVARIANT OnlySafePasses
