SPECIFICATION ScenariosSpec
CONSTANTS
  m1 = m1
  m2 = m2
  m3 = m3
  m4 = m4
  bad = bad
  u = u
  v = v
  w = w
  NoMsg = NoMsg
  NoUri = NoUri
  Msg = {m1, m2, m3, m4, bad}
  Dest <- To
  Uri = {u, v, w}
  Resolve <- Names
  Unencodable = {bad}
  Scenarios <- TwoNames
  ChLength = 2
  CtxLength = 1
  MaxConn = 3
  MaxAccept = 1
  MaxArrived = 1
  MaxFaults = 2
CHECK_DEADLOCK FALSE
INVARIANT
  InOrderByAnyName
