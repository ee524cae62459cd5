\* Two datasets and two configurations, once each, on three workers.  A rank that fails to
\* start, a configuration that does not load, a dataset that cannot be read, metrics
\* without a column and columns without a metric.
SPECIFICATION Spec
CONSTANTS
  Workers = {w1, w2, w3}
  Replicats = 1
  NumDatasets = 2
  NumCompressors = 2
  UserFields <- MCUserFields
  InitialMetrics = {}
  ResultSets <- MCResults
  MayFailToStart = TRUE
  BadCompressors = {1}
  BadDatasets = {0}
  CompressedDir = TRUE
  DecompressedDir = TRUE
INVARIANTS
  TypeOK
  CellsBelongToRow
  WritersApart
  OneRowPerTask
  StuckOnlyAfterThrow
  ExitIsAllOrNothing
PROPERTIES
  ThrowIsFinal
  RanksOnlyAdvance
  Termination
  ImplementsRows
CHECK_DEADLOCK FALSE
