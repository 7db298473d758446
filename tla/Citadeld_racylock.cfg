CONSTANTS
  b1 = b1
  b2 = b2
  Event = Event
  Waiter = Waiter
  None = None
  Binders <- MCBinders
  MaxAppId = 1
  MaxCalls = 2
  MaxEvents = 1
  MaxFaults = 0
  RacyStart = TRUE
SPECIFICATION Spec
CHECK_DEADLOCK FALSE
INVARIANT AppCallsExclusive
