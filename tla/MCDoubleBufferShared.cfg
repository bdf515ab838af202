CONSTANTS
  handler = handler
  subscriber = subscriber
  Writers <- HandlerAndSubscriber
  Closers <- Nobody
  Limit = 1
  IsCloser = TRUE
  MaxLen = 2
  MaxBytes = 3
SPECIFICATION FairSpec
INVARIANTS WriterOrder NoLostWakeUp
PROPERTIES RepliesSent
