CONSTANTS
  Pool = 2
  Limit = 2
  NumSeeds = 1
  Sampled <- WholePool
  N = 2
  Threads = 1
  MaxFaults = 0
SPECIFICATION MCSpec
INVARIANT NeitherPerfect
