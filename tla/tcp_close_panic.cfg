SPECIFICATION ScenariosSpec
CONSTANTS
  m1 = m1
  m2 = m2
  m3 = m3
  m4 = m4
  bad = bad
  u = u
  v = v
  w = w
  NoMsg = NoMsg
  NoUri = NoUri
  Msg = {m1, m2}
  Dest <- To
  Uri = {u}
  Resolve <- Names
  Unencodable = {}
  Scenarios <- Closed
  ChLength = 2
  CtxLength = 1
  MaxConn = 2
  MaxAccept = 0
  MaxArrived = 0
  MaxFaults = 1
CHECK_DEADLOCK FALSE
INVARIANTS
  NoPanic
