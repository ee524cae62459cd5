\* A metric that no column asks for is sent under the id of the first column.
\* The columns come from init_fieldnames.
SPECIFICATION Spec
CONSTANTS
  Workers = {w1, w2}
  Replicats = 1
  NumDatasets = 1
  NumCompressors = 2
  UserFields <- MCNoFields
  InitialMetrics = {1, 2}
  ResultSets <- MCResults
  MayFailToStart = FALSE
  BadCompressors = {}
  BadDatasets = {}
  CompressedDir = FALSE
  DecompressedDir = FALSE
INVARIANTS
  ColumnShowsItsMetric
CHECK_DEADLOCK FALSE
