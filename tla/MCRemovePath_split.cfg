CONSTANTS
  Root = 1
  FirstUser = 3
  TableSize = 18
  Cluster = 2
  Chunk = 4
  Extents <- MCExtents
  Layouts <- MCSplit
  Starts <- MCStarts
  Depths <- MCDepths
  Excludes <- MCExcludes
  Targets <- MCTargets
  MayFail = FALSE
  MaxErrors = 0
SPECIFICATION Spec
INVARIANT EnginesAgree
CHECK_DEADLOCK FALSE
