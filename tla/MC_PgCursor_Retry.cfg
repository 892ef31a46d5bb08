CONSTANTS
  k1 = k1  k2 = k2  c1 = c1  c2 = c2
  q1 = q1  q2 = q2  q3 = q3  q4 = q4
  NoName = NoName  NoRows = NoRows  Pool = Pool  NoConn = NoConn  NoCursor = NoCursor
  Cursors <- MCCursors
  Conns <- MCConns
  PoolConns <- MCPoolConns
  Queries <- MCQueries
  Prepared <- MCPrepared
  Names <- MCNames
  Desc <- MCDesc
  Rows <- MCRows
  Fallible <- MCNoFallible
  MaxResults = 5
  CancelInRun = TRUE
SPECIFICATION Spec
INVARIANT RowsFromOwnQuery
