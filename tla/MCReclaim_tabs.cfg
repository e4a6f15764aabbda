CONSTANTS
  Paths <- FourPaths
  Inodes = {1, 2}
  Contents = {"x", "y", "s"}
  None = None
  Size <- Text
  Ends <- SameEnds
  InitAt <- PairAt
  InitData <- TwinsData
  Tabs <- TwoTabs
  Scope <- TwoScopes
  Cached = TRUE
  MayRestore = FALSE
  MaxEdits = 0
  MaxSearches = 2
  Commands = {"k"}
  Actions = {"delete", "trash"}
  Temp <- NoTemp
  Posix = TRUE
  MayFail = FALSE
  Overlap = TRUE
  MayCrash = FALSE
SPECIFICATION ReclaimSpec
PROPERTY OneFileKept
CHECK_DEADLOCK FALSE
