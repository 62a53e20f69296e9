SPECIFICATION IndexSpec
CONSTANTS
  IndexKeys = {plain, nested}
  NestedKeys = {nested}
  Pks = {p1, p2}
  AddTimer = addTimer
  AddSpawned = {}
  DelTimer = delTimer
  DelSpawned = {}
  BufferLimit = 3
  DeleteBufferLimit = 2
  NoIndexKey = NoIndexKey
  Faults = {}
SYMMETRY Symmetry
INVARIANTS CompleteInv PlainIndexComplete
 
