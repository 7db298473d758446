\* A call that fails made no key: the model stops there (one call makes a key).
CONSTANTS
  Params <- MCDatedParams
  Keys <- MCKeys
  Wrappers <- MCWrappers
  SoftwareTags <- MCSoftwareTags
  MaxParams = 2
  AttestParams <- MCAttestParams
  Handles = {h1, h2}
  Sizes <- MCSizes
  MaxAttests = 1
  MaxFaults = 0
SPECIFICATION AttestSpec
INVARIANT ValidFromActivation
CHECK_DEADLOCK FALSE
