SPECIFICATION Spec
CONSTANTS
  Omitted = Omitted
  Rank <- MCRank
  Matches <- MCMatches
  Protos <- MCProtos
  Password = "pw"
  ColTypes <- MCColTypes
  Db = "db"
  Queries <- MCQueries
  Databases <- MCDatabases
  Tokens <- Render
INVARIANTS
  QueryInv
  LoopsMatchBrackets
  ReadsCurrentRows
  
PROPERTY EveryQueryEnds
CHECK_DEADLOCK FALSE
