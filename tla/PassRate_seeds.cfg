CONSTANTS
  Pool = 2
  Limit = 1
  NumSeeds = 2
  Sampled <- Disjoint
  N = 1
  Threads = 1
  MaxFaults = 0
SPECIFICATION MCSpec
INVARIANTS KeptByOwnAnswers
