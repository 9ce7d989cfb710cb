SPECIFICATION ReadingSpec
CONSTANTS
  o1 = o1
  o2 = o2
  a = a
  b = b
  NoOp = NoOp
  Op = {o1, o2}
  Thread = {a, b}
  Pattern <- StreamPattern
  Program <- StreamProgram
  BufferLength = 1
  ErrBufferLength = 1
  Provider = "conforming"
  SendErrors = TRUE
  MaxTid = 2
  MaxReplies = 2
CHECK_DEADLOCK FALSE
PROPERTIES
  CallsReturn
  HandlerComesBack
