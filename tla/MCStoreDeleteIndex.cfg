SPECIFICATION Spec
CONSTANTS
  Pks = {p1}
  Cols = {c}
  JsonCols = {}
  Vals = {v1, v2}
  NoRow = NoRow
  NoPk = NoPk
  NoIndexKey = NoIndexKey
  Goroutines = {g1}
  MaxCalls = 2
  DataBufferLimit = 2
  MaxSpawned = 1
  FaultyPks = {}
  AddTimer = addTimer
  AddSpawned = {}
  DelTimer = delTimer
  DelSpawned = {}
  BufferLimit = 3
  DeleteBufferLimit = 3
  Faults = {}
INVARIANT NoStaleEntries
CHECK_DEADLOCK FALSE
