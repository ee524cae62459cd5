---------------------------- MODULE MCPressioMain ----------------------------
(***************************************************************************)
(* Instances of PressioMain for TLC.                                       *)
(***************************************************************************)
EXTENDS PressioMain

MCKeys == {"bound", "mode", "threads"}

Job(actions, early, options) == [actions |-> actions, early |-> early, options |-> options]

\* Two jobs that save, the first of which prints the graph, one that loads and
\* decompresses what it compressed, and one that needs no compressor.
MCJobs ==
  <<Job({"save", "settings", "graph"}, {"mode", "bound"}, {"bound"}),
    Job({"save", "decompress"}, {"threads"}, {}),
    Job({"load", "compress", "decompress"}, {}, {"mode"}),
    Job({"versions"}, {}, {})>>

MCSaveThenLoadAndSave ==
  <<Job({"save"}, {}, {"bound"}), Job({"load", "save"}, {}, {"bound"})>>

\* Every step at which the code has an exit or an uncaught exception.
MCEveryStep ==
  {"parse", "setup", "load", "early", "options", "check", "print", "compress",
   "open_compressed", "write_compressed", "decompress", "open_decompressed", "write_decompressed",
   "metrics"}

=============================================================================
