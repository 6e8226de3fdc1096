CONSTANTS
  p1 = p1
  CP = {p1}
  NoCp = NoCp
  NoConn = NoConn
  Conn = {c1}
  Sub = {s1}
  Query <- DetailQuery
  Topics <- FleetTopics
  MaxEvents = 1
  MaxSamples = 1
  Fallible = FALSE
SPECIFICATION Spec
INVARIANT ViewCatchesUp
CHECK_DEADLOCK FALSE
