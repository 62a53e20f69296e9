SPECIFICATION Spec
CONSTANTS
  Omitted = Omitted
  Rank <- MCRank
  Matches <- MCMatches
  Protos <- MCProtos
  Password = "pw"
  ColTypes <- MCColTypes
  Db = "db"
  Queries <- MCQueries
  Databases <- MCDatabases
  Tokens <- Render
INVARIANT LeftToRight
CHECK_DEADLOCK FALSE
