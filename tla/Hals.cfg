CONSTANTS
  k1 = k1
  k2 = k2
  v1 = v1
  None = None
  Config = Config
  Methods <- MCMethods
  WordSize = 2
  Accepted <- MCAccepted
  Timeouts = {30}
  MaxCalls = 2
  MaxFaults = 1
SPECIFICATION FairSpec
PROPERTY ImplementsContract CallsReturn
\* Clients have used up their calls.
CHECK_DEADLOCK FALSE
