CONSTANTS
  handler = handler
  subscriber = subscriber
  Writers <- JustHandler
  Closers <- JustHandler
  Limit = 2
  IsCloser = TRUE
  MaxLen = 5
  MaxBytes = 7
SPECIFICATION FairSpec
INVARIANTS InOrder CleanCloseDrains PoolSafe NoPanic
PROPERTIES CallsReturn PipeSpec
