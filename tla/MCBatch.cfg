\* Every failure the program meets: command lines, files, loads, compressions,
\* decompressions, missing metrics.
SPECIFICATION Spec
CONSTANTS
  CommandLines <- MCCommandLines
  MaxInt = 1
  Readable = {"datasets.json", "compressors.json", "metrics.json"}
  NumDatasets = 2
  NumCompressors = 2
  Results <- MCPartialResults
  BadCompressors = {1}
  BadDatasets = {1}
  MayFail = {0, 1}
INVARIANTS
  TypeOK
  BuffersFreed
  DanglingOnlyAfterFailure
  ShortRowEndsProgram
  RowsAreSuccesses
PROPERTIES
  LoopsOnlyAdvance
  Terminates
  ImplementsRowsInOrder
CHECK_DEADLOCK FALSE
