CONSTANTS
  Paths <- FourPaths
  Inodes = {1, 2}
  Contents = {"x", "y", "s"}
  None = None
  Size <- Text
  Ends <- SameEnds
  InitAt <- PairAt
  InitData <- AgedData
  Tabs <- OneTab
  Scope <- OneScope
  Cached = TRUE
  MayRestore = FALSE
  MaxEdits = 1
  MaxSearches = 2
  Commands = {"k"}
  Actions = {"hardlink", "delete"}
  Temp <- PairTemp
  Posix = TRUE
  MayFail = TRUE
  Overlap = TRUE
  MayCrash = TRUE
SPECIFICATION ReclaimSpec
INVARIANTS ReclaimInv HardLinksNotDuplicates
PROPERTIES FileStaysInPlace KeepsACopy
CHECK_DEADLOCK FALSE
