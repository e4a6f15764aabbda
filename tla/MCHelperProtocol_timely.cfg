CONSTANTS
  Ids <- TwoJobs
  MaxScans = 3
  MaxHelpers = 2
  Worlds <- ManyWorlds
SPECIFICATION FairSpec
CHECK_DEADLOCK FALSE
INVARIANTS ProtocolInv OwnAnswer
PROPERTIES PromptsOnlyWithoutHelper OnlyStrangersHang HelperQuits
