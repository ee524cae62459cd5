------------------------------ MODULE MCCmdline ------------------------------
(***************************************************************************)
(* Instances of Cmdline for TLC.                                           *)
(***************************************************************************)
EXTENDS Cmdline

Flag(opt, arg) == [opt |-> opt, arg |-> arg]

\* Flags that decide about files and buffers, some more than once, some unusable,
\* and one of each other kind.
MCFlags ==
  {Flag("i", "in"), Flag("I", "x"), Flag("T", "by_extension"), Flag("u", "?"), Flag("p", ""),
   Flag("f", "posix"), Flag("f", "csv"), Flag("w", "out"), Flag("s", "x"), Flag("y", "csv:headers"),
   Flag("f", "select"), Flag("e", "select:io"), Flag("e", "csv:headers"), Flag("e", "io:path"),
   Flag("G", "?"), Flag("F", "nonsense"), Flag("S", "x"),
   Flag("a", "settings"), Flag("a", "?"), Flag("o", "?"), Flag("t", "float"), Flag("k", "2")}

\* For the run about the usage text.
MCFlagsK == {Flag("i", "in"), Flag("w", "out"), Flag("k", "2")}

\* The keys of the plugins; csv stands for any plugin with keys of its own, and select
\* for one that contains another, here csv.
MCAccepts ==
  [noop         |-> {},
   posix        |-> {"io:path"},
   by_extension |-> {"io:path"},
   hdf5         |-> {"io:path", "hdf5:dataset"},
   csv          |-> {"io:path", "csv:rows", "csv:headers"},
   select       |-> {"io:path", "select:io"}]

TypeTable ==
  <<<<"io:path", "string">>, <<"hdf5:dataset", "string">>, <<"select:io", "string">>,
    <<"csv:rows", "number">>, <<"csv:headers", "list">>>>

MCTypes ==
  [key \in {TypeTable[n][1] : n \in DOMAIN TypeTable} |->
     (CHOOSE row \in {TypeTable[n] : n \in DOMAIN TypeTable} : row[1] = key)[2]]

MCBrings ==
  [key \in DOMAIN MCTypes |-> IF key = "select:io" THEN {"csv:rows", "csv:headers"} ELSE {}]

=============================================================================
