CONSTANTS
  Root = "r"
  Dirs <- DeepDirs
  Path <- DeepPath
  Bytes <- DeepBytes
  Target <- DeepTarget
  Unreadable <- NoDirs
  Flaky <- OnlyB
  Follow = FALSE
  MaxDepth = 3
  Workers <- TwoThreads
  None = None
SPECIFICATION FairSpec
INVARIANTS BuildInv CompleteIsExact NeverOvercounts
PROPERTIES BuildReturns ImplementsContract
