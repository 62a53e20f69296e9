SPECIFICATION Spec
CONSTANTS
  Pks = {p1, p2}
  Cols = {c}
  JsonCols = {}
  Vals = {v1}
  NoRow = NoRow
  NoPk = NoPk
  NoIndexKey = NoIndexKey
  Goroutines = {g1, g2}
  MaxCalls = 3
  DataBufferLimit = 2
  MaxSpawned = 1
  FaultyPks = {p2}
  AddTimer = addTimer
  AddSpawned = {}
  DelTimer = delTimer
  DelSpawned = {}
  BufferLimit = 2
  DeleteBufferLimit = 2
  Faults = {"crash"}
INVARIANT DeletedStaysDeleted
SYMMETRY GoroutineSymmetry
CHECK_DEADLOCK FALSE
