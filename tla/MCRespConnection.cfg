CONSTANTS
  MaxMultiBulkLength = 3
  MaxBulkLength = 2
  MaxBufferSize = 5
  ReaderSize = 6
  MaxUint = 15
  MaxDigits = 2
  Scripts <- AnyThenEcho
  WriterSize = 8
  Resp2Scripts <- DataOnly
  Echo <- EchoName
  Ping <- PingName
  Subscribe <- SubscribeName
  MaxMessages = 1
  Message <- Hello
  Data <- DataName
  Replies <- AnyReply
SPECIFICATION ConnSpec
INVARIANTS SlicesInside Framing RepliesDecode AnswersMatch
PROPERTIES RequestsAnswered
