CONSTANTS
  Root = 1
  FirstUser = 3
  TableSize = 18
  Cluster = 2
  Chunk = 4
  Extents <- MCExtents
  Layouts <- MCSplit
  Starts <- MCStarts
  Depths <- MCDepths
  Excludes <- MCExcludes
  Targets <- MCTargets
  MayFail = FALSE
  MaxErrors = 1
SPECIFICATION Spec
INVARIANT ReportIsWhatWent
CHECK_DEADLOCK FALSE
