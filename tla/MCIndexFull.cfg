SPECIFICATION IndexSpec
CONSTANTS
  IndexKeys = {plain, nested}
  NestedKeys = {nested}
  Pks = {p1}
  AddTimer = addTimer
  AddSpawned = {add1}
  DelTimer = delTimer
  DelSpawned = {del1}
  BufferLimit = 2
  DeleteBufferLimit = 2
  NoIndexKey = NoIndexKey
  Faults = {"open", "get", "set", "crash"}
INVARIANTS IndexInv NoInventedEntries
