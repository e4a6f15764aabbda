CONSTANTS
  MaxScans = 3
  MaxClock = 3
  Watched = {3}
  MaxDeletes = 1
  MaxCrashes = 1
  Keep <- MCKeep
  Bytes <- MCBytes
  LegacyAt = 1
SPECIFICATION Spec
INVARIANTS WholeSnapshots NewestStay StoreBounded ComparesAsked
CHECK_DEADLOCK FALSE
