SPECIFICATION IndexFairSpec
CONSTANTS
  IndexKeys = {plain, nested}
  NestedKeys = {nested}
  Pks = {p1}
  AddTimer = addTimer
  AddSpawned = {}
  DelTimer = delTimer
  DelSpawned = {}
  BufferLimit = 3
  DeleteBufferLimit = 3
  NoIndexKey = NoIndexKey
  Faults = {}
PROPERTY PlainEntriesArrive
