\* Handles are reused, nothing fails.
CONSTANTS
  MaxChunkSize = 2
  AesBlockSize = 1
  DesBlockSize = 1
  DigestLength = 2
  Handles = {h1}
  KeyAlgorithms = {"AES"}
  MaxOperations = 2
  MaxStream = 1
  MaxFaults = 0
  Misreports = FALSE
SPECIFICATION Spec
PROPERTIES
  DuplicateMeansInUse
\* The bounded number of operations may have ended, with nothing left to do.
CHECK_DEADLOCK FALSE
