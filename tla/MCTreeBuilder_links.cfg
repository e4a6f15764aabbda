CONSTANTS
  Root = "r"
  Dirs <- LinkDirs
  Path <- LinkPath
  Bytes <- LinkBytes
  Target <- LinkTarget
  Unreadable <- BothX
  Flaky <- NoDirs
  Follow = TRUE
  MaxDepth = 9
  Workers <- ThreeThreads
  None = None
SPECIFICATION FairSpec
INVARIANTS NeverOvercounts TargetsOnce FollowReachesEverything
