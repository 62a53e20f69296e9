SPECIFICATION DataFairSpec
CONSTANTS
  DataKeys = {k1, k2}
  Rows = {r1}
  NoRow = NoRow
  NoKey = NoKey
  Goroutines = {g1, g2}
  DataBufferLimit = 2
  MaxSpawned = 2
  FaultyKeys = {k2}
  CrashEnabled = TRUE
INVARIANTS DataInv ReadsRegular
PROPERTIES ImplementsRowMap SavedRowsReachDisk RamDrains
CHECK_DEADLOCK TRUE
