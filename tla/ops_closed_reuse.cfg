SPECIFICATION Spec
CONSTANTS
  o1 = o1
  o2 = o2
  a = a
  b = b
  NoOp = NoOp
  Op = {o1}
  Thread = {a, b}
  Pattern <- RequestPattern
  Program <- CloseProgram
  BufferLength = 1
  ErrBufferLength = 1
  Provider = "conforming"
  SendErrors = FALSE
  MaxTid = 2
  MaxReplies = 1
CHECK_DEADLOCK FALSE
PROPERTIES
  ClosedNotReused
