SPECIFICATION Spec
CONSTANTS
  Pks = {p1}
  Cols = {c}
  JsonCols = {}
  Vals = {v1, v2}
  NoRow = NoRow
  NoPk = NoPk
  NoIndexKey = NoIndexKey
  Goroutines = {g1, g2}
  MaxCalls = 3
  DataBufferLimit = 2
  MaxSpawned = 1
  FaultyPks = {}
  AddTimer = addTimer
  AddSpawned = {}
  DelTimer = delTimer
  DelSpawned = {}
  BufferLimit = 3
  DeleteBufferLimit = 3
  Faults = {}
SYMMETRY GoroutineSymmetry
INVARIANTS StoreInv 
  
CHECK_DEADLOCK FALSE
