SPECIFICATION FairScenarios
CONSTANTS
  m1 = m1
  m2 = m2
  m3 = m3
  m4 = m4
  bad = bad
  u = u
  v = v
  w = w
  NoMsg = NoMsg
  NoUri = NoUri
  Msg = {m1, bad}
  Dest <- To
  Uri = {u}
  Resolve <- Names
  Unencodable = {bad}
  Scenarios <- LiveScenarios
  ChLength = 2
  CtxLength = 1
  MaxConn = 4
  MaxAccept = 1
  MaxArrived = 2
  MaxFaults = 1
CHECK_DEADLOCK FALSE
PROPERTIES
  QueueMoves
  DeadConnectionsLeave
