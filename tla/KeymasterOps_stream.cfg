\* A stream longer than the buffer, two faults, and a second operation that
\* may get the same handle.
CONSTANTS
  MaxChunkSize = 5
  AesBlockSize = 2
  DesBlockSize = 1
  DigestLength = 3
  Handles = {h1}
  KeyAlgorithms = {"AES", "EC"}
  MaxOperations = 2
  MaxStream = 7
  MaxFaults = 2
  Misreports = FALSE
SPECIFICATION StreamSpec
INVARIANTS
  TypeOK
  StreamIntact
  LastBlockForFinish
  BufferBounded
PROPERTIES
  CallsReturn
\* The bounded number of operations may have ended, with nothing left to do.
CHECK_DEADLOCK FALSE
