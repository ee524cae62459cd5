\* Two ranks, two buffers, four jobs that may fail at every step.
SPECIFICATION FairSpec
CONSTANTS
  NumRanks = 2
  NumBuffers = 2
  Keys <- MCKeys
  Jobs <- MCJobs
  MayFail <- MCEveryStep
  CanSave = TRUE
INVARIANTS
  TypeOK
  DecompressesRoot
  SettingsAreAsked
  StuckOnlyAfterExit
PROPERTIES
  ImplementsJobs
  JobsEnd
CHECK_DEADLOCK FALSE
