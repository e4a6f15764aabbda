CONSTANTS
  Sep <- MCSep
  Lossy <- MCLossy
  Trees <- MCTrees
  Ats <- MCAts
  Formats = {"dgs", "json"}
  DiffFileLimit = 1
  Bounds <- MCBounds
  Tops = {1, 2}
SPECIFICATION Spec
INVARIANTS DiffIsExact UnchangedMeansSame RoundTrip ReportsAreScans
CHECK_DEADLOCK FALSE
