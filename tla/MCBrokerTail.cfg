CONSTANTS
  p1 = p1
  CP = {p1}
  NoCp = NoCp
  NoConn = NoConn
  Conn = {c1}
  Sub = {s1}
  Query <- TailQueries
  Topics <- TailTopics
  MaxEvents = 2
  MaxSamples = 2
  Fallible = TRUE
SPECIFICATION FairSpec
 
PROPERTY SubscribeAnswered
CHECK_DEADLOCK FALSE
