CONSTANTS
  handler = handler
  subscriber = subscriber
  Writers <- HandlerAndSubscriber
  Closers <- JustHandler
  Limit = 2
  IsCloser = TRUE
  MaxLen = 1
  MaxBytes = 2
SPECIFICATION Spec
INVARIANTS CleanCloseDrains
