SPECIFICATION Spec
CONSTANTS
  c1 = c1
  c2 = c2
  s1 = s1
  s2 = s2
  q = q
  p1 = p1
  p2 = p2
  p3 = p3
  rAll = rAll
  rA = rA
  a = a
  b = b
  Null = Null
  Wildcard = Wildcard
  NoSub = NoSub
  NoPub = NoPub
  Here = Here
  g = g
  h = h
  l = l
  Handler = {g}
  Local = {}
  Pub = {p1, p2}
  Undecodable = {p2}
  Headers <- SameHeaders
  Values <- SameHeaders
  Selects <- SelectedSame
  Consumer <- OneConsumer
  SubId <- OneId
  Request = {rAll}
  MaxRequests = 2
  Publisher = {q}
  From <- Sources
CHECK_DEADLOCK FALSE
INVARIANTS
  UpdatesIntact
