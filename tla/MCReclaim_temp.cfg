CONSTANTS
  Paths <- FourPaths
  Inodes = {1, 2, 3}
  Contents = {"x", "y", "s"}
  None = None
  Size <- Text
  Ends <- SameEnds
  InitAt <- TakenAt
  InitData <- TakenData
  Tabs <- OneTab
  Scope <- OneScope
  Cached = FALSE
  MayRestore = FALSE
  MaxEdits = 0
  MaxSearches = 1
  Commands = {"k"}
  Actions = {"hardlink"}
  Temp <- PairTemp
  Posix = TRUE
  MayFail = FALSE
  Overlap = TRUE
  MayCrash = FALSE
SPECIFICATION ReclaimSpec
PROPERTY FailedLinkLosesNothing
CHECK_DEADLOCK FALSE
