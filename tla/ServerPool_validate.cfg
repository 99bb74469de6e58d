CONSTANTS
  Clients = {"c1", "c2"}
  Standalone <- MCStandalone
  Hybrid <- MCHybrid
  CacheSize = 1
  Prompt <- MCPrompt
  PromptLength = 2
  ResponseLength = 2
  MaxModelLen = 4
  Partial = TRUE
  TestFreq = 1
  MaxVersion = 1
  FailAt = {1, 7, 12, 13}
SPECIFICATION MCFairSpec
INVARIANTS LoadIsReal VersionSpan
PROPERTIES StickySession RefusalsExplained EventuallyAnswered
