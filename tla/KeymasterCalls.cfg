\* Two calls after any start, with faults at any step.
SPECIFICATION FairSpec
CONSTANTS
  Releases <- MCReleases
  PatchDates <- MCPatchDates
  PublicKeys <- MCPublicKeys
  ParamLists <- MCParamLists
  Sharing <- MCSharing
  Refusals <- MCRefusals
  ChunkSize = 2
  MaxData = 5
  MaxCalls = 2
  MaxFaults = 1
INVARIANTS OkMeansDone ExportsTheKey EntropyInOrder VersionsTold
PROPERTY Serves
CHECK_DEADLOCK FALSE
