CONSTANTS
  Ids <- OneJob
  MaxScans = 2
  MaxHelpers = 2
  Worlds <- Late
SPECIFICATION FairSpec
CHECK_DEADLOCK FALSE
INVARIANT OneHelper
