SPECIFICATION CatalogSpec
CONSTANTS
  d1 = d1
  d2 = d2
  t1 = t1
  t2 = t2
  id = id
  a = a
  b = b
  pw = pw
  Dbs = {d1, d2}
  Tabs = {t1, t2}
  Cols = {id, a, b}
  Id = id
  NoSchema = NoSchema
  Default = Default
  Passwords = {Default, pw}
  NoPassword = NoPassword
  Schemas <- MCSchemas
  Alterations <- MCAlterations
  UserProtocols <- MCUserProtocols
  InitialCatalogs <- MCInitialCatalogs
  Goroutines = {g1, g2}
  MaxCalls = 2
  Faults = {"store", "folder", "crash"}
INVARIANTS CatalogInv CacheFresh ProtosFresh
PROPERTIES SoloRequestsRefresh 
CHECK_DEADLOCK FALSE
