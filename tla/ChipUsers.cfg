CONSTANTS
  Secrets = {s1, s2}
  Default = Default
  ResetValue = 9
  Word = 1048576
  Acquisitions = 2
  Randoms = {1, 2}
  MaxCount = 3
  Samples = {4, 18}
  Fuses = {4101}
  MaxWrites = 2
  MaxResets = 1
  MaxFaults = 1
SPECIFICATION FairSpec
INVARIANT RebootsAreForUpdates StressVerdict HealthVerdict ResetVerified TempMeasured
PROPERTY AlertsAsAsked UpdatesAreEnabled UpdatesTakeEffect
