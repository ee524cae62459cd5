\* A rank loads while another saves.
SPECIFICATION Spec
CONSTANTS
  NumRanks = 2
  NumBuffers = 1
  Keys <- MCKeys
  Jobs <- MCSaveThenLoadAndSave
  MayFail = {}
  CanSave = TRUE
INVARIANTS
  LoadFindsConfiguration
CHECK_DEADLOCK FALSE
