SPECIFICATION CallsSpec
CONSTANTS
  submit = submit
  request = request
  invoke = invoke
  progress = progress
  subscriber = subscriber
  publisher = publisher
  a = a
  b = b
  NoOp = NoOp
  Op = {submit, request, invoke, progress, subscriber, publisher}
  Thread = {a, b}
  Pattern <- Patterned
  Program <- Calling
  Scenarios <- CallScenarios
  BufferLength = 1
  ErrBufferLength = 1
  Provider = "conforming"
  SendErrors = TRUE
  MaxTid = 3
  MaxReplies = 2
CHECK_DEADLOCK FALSE
INVARIANTS
  TableExact
  NoPanic
  NeverStuck
  NoBadReturn
PROPERTIES
  RepliesMatch
