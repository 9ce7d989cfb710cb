SPECIFICATION CallsSpec
CONSTANTS
  submit = submit
  request = request
  invoke = invoke
  progress = progress
  subscriber = subscriber
  publisher = publisher
  a = a
  b = b
  NoOp = NoOp
  Op = {invoke, progress}
  Thread = {a, b}
  Pattern <- InvokeOrProgress
  Program <- Interfering
  Scenarios <- InterferenceScenarios
  BufferLength = 1
  ErrBufferLength = 1
  Provider = "any"
  SendErrors = FALSE
  MaxTid = 2
  MaxReplies = 2
CHECK_DEADLOCK FALSE
INVARIANTS
  TypeOK
  IdsFresh
PROPERTIES
  TransactionsSpec
