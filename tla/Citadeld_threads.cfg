CONSTANTS
  b1 = b1
  b2 = b2
  Event = Event
  Waiter = Waiter
  None = None
  Binders <- MCBinders
  MaxAppId = 1
  MaxCalls = 2
  MaxEvents = 1
  MaxFaults = 2
  RacyStart = FALSE
SPECIFICATION FairSpec
CHECK_DEADLOCK FALSE
INVARIANT TypeOK AppCallsExclusive LockOrder RunsAreScheduled
PROPERTY SnapshotWhole ImplementsTimer CallsReturn EventsFetched
