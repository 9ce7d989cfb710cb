SPECIFICATION Spec
CONSTANTS
  Bits = 7
  ShortBytes = 2
  IntegerBytes = 3
  LongBytes = 4
  MillisInDay = 4
  PerMilli = 2
  TypePart = 16384
  MaxItems = 100
  Version = 1
  MALTCP <- Scheme
  Separator <- SchemeEnd
  Slash <- PathStart
CHECK_DEADLOCK FALSE
INVARIANT PairsReadBack
