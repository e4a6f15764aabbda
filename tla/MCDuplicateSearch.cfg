CONSTANTS
  Paths <- ThreePaths
  Inodes = {1, 2}
  Contents = {"x", "y"}
  None = None
  Size <- Text
  Ends <- SameEnds
  InitAt <- LinkedAt
  InitData <- TimelessData
  Tabs <- TwoTabs
  Scope <- NestedScopes
  Cached = TRUE
  MayRestore = TRUE
  MaxEdits = 2
  MaxSearches = 2
SPECIFICATION Spec
INVARIANTS GroupsIdentical HardLinksNotDuplicates NoDuplicateMissed
CHECK_DEADLOCK FALSE
