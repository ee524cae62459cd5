\* The first replicate fails and releases the compressor the second one uses.
SPECIFICATION Spec
CONSTANTS
  CommandLines <- MCTwice
  MaxInt = 3
  Readable = {"datasets.json", "compressors.json", "metrics.json"}
  NumDatasets = 1
  NumCompressors = 1
  Results <- MCResults
  BadCompressors = {}
  BadDatasets = {}
  MayFail = {0}
INVARIANTS
  ReplicatesRunConfiguration
CHECK_DEADLOCK FALSE
