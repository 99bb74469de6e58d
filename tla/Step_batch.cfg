CONSTANTS
  NumWorkers = 2
  ChunkSize = 2
  RolloutN = 2
  PromptBuilt = TRUE
  CueGate = TRUE
  ExOPD = TRUE
  AxisDecomposed = TRUE
  Contrastive = TRUE
  UidGroups = FALSE
  Utilities <- OneUtility
  NumRows = 2
  PromptWidth = 2
  ResponseWidth = 3
  TeacherWidth = 3
SPECIFICATION MCSpec
INVARIANTS TypeOK RowsUsable RaisesOnlyIfAllFailed CrashExplained
INVARIANTS AlignTypeOK RowsStack LossAligned GateViewsAgree
PROPERTY AgentEventuallyEnded
