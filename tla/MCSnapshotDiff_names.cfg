CONSTANTS
  Sep <- MCSep
  Lossy <- MCLossy
  Trees <- MCNoText
  Ats <- MCAts
  Formats = {"dgs", "json"}
  DiffFileLimit = 1
  Bounds <- MCBounds
  Tops = {1, 2}
SPECIFICATION Spec
INVARIANT SameTree
CHECK_DEADLOCK FALSE
