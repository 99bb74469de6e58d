CONSTANTS
  NumWorkers = 1
  ChunkSize = 2
  RolloutN = 2
  PromptBuilt = TRUE
  CueGate = TRUE
  ExOPD = FALSE
  AxisDecomposed = FALSE
  Contrastive = FALSE
  UidGroups = FALSE
  Utilities <- OneUtility
SPECIFICATION MCSpec
INVARIANT FallbackNeutral
