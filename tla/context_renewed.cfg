SPECIFICATION RenewedSpec
CONSTANTS
  c1 = c1
  c2 = c2
  a = a
  p = p
  q = q
  e = e
  o = o
  a1 = a1
  a2 = a2
  p1 = p1
  e1 = e1
  Contexts = {c1, c2}
  Clients = {a, p, q}
  EndPoints = {e}
  Ops = {o}
  Apps = {a1, a2, p1, e1}
  Home <- HomeOf
  AppUri <- AppOf
  ChannelSize = 1
  InboxSize = 1
  MaxCalls = 3
  MaxAdmin = 2
CHECK_DEADLOCK FALSE
INVARIANT RepliesMatch
