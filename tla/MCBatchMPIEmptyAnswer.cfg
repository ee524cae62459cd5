\* A task that reports nothing prints the row of whatever task id is on the stack.
SPECIFICATION Spec
CONSTANTS
  Workers = {w1, w2}
  Replicats = 1
  NumDatasets = 1
  NumCompressors = 2
  UserFields <- MCUserFields
  InitialMetrics = {}
  ResultSets <- MCFailingResults
  MayFailToStart = FALSE
  BadCompressors = {}
  BadDatasets = {}
  CompressedDir = FALSE
  DecompressedDir = FALSE
INVARIANTS
  RowsPerConfiguration
CHECK_DEADLOCK FALSE
