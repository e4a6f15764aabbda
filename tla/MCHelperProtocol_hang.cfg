CONSTANTS
  Ids <- OneJob
  MaxScans = 2
  MaxHelpers = 2
  Worlds <- Restarted
SPECIFICATION FairSpec
CHECK_DEADLOCK FALSE
PROPERTIES EveryScanEnds
