\* Three operations over two handles, three faults of any kind.
CONSTANTS
  MaxChunkSize = 2
  AesBlockSize = 1
  DesBlockSize = 1
  DigestLength = 2
  Handles = {h1, h2}
  KeyAlgorithms = {"AES"}
  MaxOperations = 3
  MaxStream = 1
  MaxFaults = 3
  Misreports = FALSE
SPECIFICATION Spec
SYMMETRY HandleSymmetry
INVARIANTS
  StreamIntact
  BufferOfItsOwn
\* The bounded number of operations may have ended, with nothing left to do.
CHECK_DEADLOCK FALSE
