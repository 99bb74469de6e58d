CONSTANTS
  NumRows = 3
  NumShards = 2
  Concurrency = 2
  MaxRetries = 1
  UseJudge = TRUE
  MaxKills = 1
  Pool = 2
  Limit = 2
  NumSeeds = 1
  Sampled <- WholePool
  N = 1
  Threads = 2
  MaxFaults = 1
  StepsPerEpoch = 2
  TotalEpochs = 3
  TotalSteps = 6
  SaveFreq = 3
  MaxKeep <- KeepTwo
  Warmup = 2
  UseCritic = TRUE
  MaxLaunches = 3
SPECIFICATION MCSpec
INVARIANTS LinesJustified SkippedIsComplete OnPolicy TrackedConsistent FailsOnlyTorn
PROPERTIES CueNoOverlapNoGaps PassChainsEnd RunSpec LaunchEndsDurable
