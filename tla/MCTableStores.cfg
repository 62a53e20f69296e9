SPECIFICATION StoresSpec
CONSTANTS
  id = id
  a = a
  b = b
  d1 = d1
  d2 = d2
  t1 = t1
  t2 = t2
  Dbs = {d1, d2}
  Tabs = {t1, t2}
  Cols = {id, a, b}
  Id = id
  Pks = {p1}
  Alterations <- MCAlterations
  FirstDb = d1
  FirstTable = t1
  FirstCols = {id, a}
  NoHand = NoHand
  MaxWrites = 2
  MaxRequests = 2
  Faults = {"crash"}
INVARIANTS StoresInv    
  CalmRowsReadable  
CHECK_DEADLOCK FALSE
