\* A call that fails made no key: the model stops there (one call makes a key).
CONSTANTS
  Params <- MCParams
  Keys <- MCKeys
  Wrappers <- MCWrappers
  SoftwareTags <- MCSoftwareTags
  MaxParams = 3
  AttestParams <- MCAttestParams
  Handles = {h1, h2}
  Sizes <- MCSizes
  MaxAttests = 2
  MaxFaults = 1
SPECIFICATION AttestSpec
INVARIANT ImportsWhatAgrees ReportsWhatWasAsked WrappedAsGiven NothingLeftBehind CertificateWhole ChainComplete
CHECK_DEADLOCK FALSE
