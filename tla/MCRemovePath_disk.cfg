CONSTANTS
  Root = 1
  FirstUser = 3
  TableSize = 18
  Cluster = 2
  Chunk = 4
  Extents <- MCExtents
  Layouts <- MCLayouts
  Starts <- MCStarts
  Depths <- MCDepths
  Excludes <- MCExcludes
  Targets <- MCTargets
  MayFail = TRUE
  MaxErrors = 2
SPECIFICATION Spec
INVARIANTS EnginesAgree NothingElseGoes RemoveIsRescan ReportIsTrue
CHECK_DEADLOCK FALSE
