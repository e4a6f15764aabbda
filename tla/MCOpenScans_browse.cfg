CONSTANTS
  MaxJobs = 2
  MaxScans = 2
  MaxCalls = 1
  Parallel = 1
  Root = "r"
  Items <- TwoItems
  Sub <- ItemsBelow
  Folders <- TwoFolders
  Up <- FolderOf
  Partial = FALSE
  Waits = TRUE
  None = None
SPECIFICATION FairSpec
INVARIANTS ScansTypeOK CurrentMatchesTree ViewsAreCurrent GoneFromOpenScans OneScanEach ClosedIsFreed ParallelLimit
PROPERTY QueuedStarts
CHECK_DEADLOCK FALSE
