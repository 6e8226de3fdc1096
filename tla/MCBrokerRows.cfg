CONSTANTS
  p1 = p1
  CP = {p1}
  NoCp = NoCp
  NoConn = NoConn
  Conn = {c1}
  Sub = {s1}
  Query <- RowQueries
  Topics <- RowTopics
  MaxEvents = 2
  MaxSamples = 1
  Fallible = TRUE
SPECIFICATION Spec
INVARIANT TypeOK EveryEventOnce RowsBelong ListShowsStatus
PROPERTY SnapshotThenTail
CHECK_DEADLOCK FALSE
