SPECIFICATION Spec
CONSTANTS
  c1 = c1
  c2 = c2
  s1 = s1
  s2 = s2
  q = q
  p1 = p1
  p2 = p2
  p3 = p3
  rAll = rAll
  rA = rA
  a = a
  b = b
  Null = Null
  Wildcard = Wildcard
  NoSub = NoSub
  NoPub = NoPub
  Here = Here
  g = g
  h = h
  l = l
  Handler = {g, h}
  Local = {l}
  Pub = {p1, p3}
  Undecodable = {}
  Headers <- HeaderCounts
  Values <- HeaderCounts
  Selects <- Selected
  Consumer <- OneConsumer
  SubId <- OneId
  Request = {rAll, rA}
  MaxRequests = 3
  Publisher = {q}
  From <- Sources
SYMMETRY SameHandlers
CHECK_DEADLOCK FALSE
INVARIANTS
  NotifiedAccepted
PROPERTIES
  PubSubSpec
