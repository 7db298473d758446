\* The service may be gone for good, with nothing left to do.
CONSTANTS
  Pool = {p1, p2}
  Async = Async
  MaxLives = 3
  MaxCalls = 1
SPECIFICATION FairSpec
INVARIANT OneWaits RegisteredOnce
PROPERTY CallsServed ServiceGetsCallback
CHECK_DEADLOCK FALSE
