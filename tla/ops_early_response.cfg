SPECIFICATION Spec
CONSTANTS
  o1 = o1
  o2 = o2
  a = a
  b = b
  NoOp = NoOp
  Op = {o1}
  Thread = {a}
  Pattern <- ProgressPattern
  Program <- EarlyProgram
  BufferLength = 1
  ErrBufferLength = 1
  Provider = "conforming"
  SendErrors = FALSE
  MaxTid = 1
  MaxReplies = 2
CHECK_DEADLOCK FALSE
INVARIANTS
  NoBadReturn
