SPECIFICATION Spec
CONSTANTS
  a = a
  b = b
  None = None
  Null = Null
  Wildcard = Wildcard
CHECK_DEADLOCK FALSE
INVARIANTS
  NullCompared
  DomainsCompared
