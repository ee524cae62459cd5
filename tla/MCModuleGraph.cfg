\* Two ranks print the graph of a meta compressor to one output.
SPECIFICATION Spec
CONSTANTS
  Ranks = {0, 1}
  Formats = {"graphviz", "d2", "dot"}
  Graphs <- MCGraphs
INVARIANTS
  TypeOK
  OneNumberPerModule
  GraphIsPrinted
CHECK_DEADLOCK FALSE
