----------------------------- MODULE ModuleGraph -----------------------------
(***************************************************************************)
(* -a graph (src/pressio/graph.cc): print_graph goes once over the         *)
(* configuration of the compressor, gives each module it meets a number,   *)
(* and prints an edge per child and a node per type.                       *)
(*                                                                         *)
(* Unlike the printing of settings and versions it does not ask for the    *)
(* rank: under MPI every rank prints the graph to the same output.         *)
(***************************************************************************)
EXTENDS Naturals, Sequences, FiniteSets, Functions

CONSTANTS
  Ranks,    \* the MPI ranks
  Formats,  \* the arguments of -g
  Graphs    \* the configurations: see IsGraph

VARIABLES
  graph,   \* the configuration of the compressor, the same on every rank
  format,  \* opts.graph_format
  named,   \* the compressor has a name: -Q was given
  pc,      \* "check", "entries", "closed" or "exited", per rank
  at,      \* the entry the loop of each rank is at
  child,   \* how many children of that entry have their edge
  ids,     \* name_to_id of each rank
  out      \* the lines on standard output: [rank, line]

vars == <<graph, format, named, pc, at, child, ids, out>>

(***************************************************************************)
(* A configuration: the entries "<module>:pressio:children" and            *)
(* "<module>:pressio:type", in the order of the map, and the modules that  *)
(* have a prefix and a version.  Modules are whatever names them.          *)
(***************************************************************************)
IsList(s) == Len(s) \in Nat /\ DOMAIN s = 1..Len(s)

IsGraph(g) ==
  /\ DOMAIN g = {"entries", "described"}
  /\ IsList(g.entries)
  /\ \A e \in DOMAIN g.entries :
       \/ g.entries[e].kind = "type"
       \/ /\ g.entries[e].kind = "children"
          /\ IsList(g.entries[e].children) /\ IsInjective(g.entries[e].children)
  /\ \A e, f \in DOMAIN g.entries :
       e # f => g.entries[e].module # g.entries[f].module \/ g.entries[e].kind # g.entries[f].kind

ASSUME GraphsAssumption == \A g \in Graphs : IsGraph(g)

Init ==
  /\ graph \in Graphs
  /\ format \in Formats
  /\ named \in BOOLEAN
  /\ pc = [r \in Ranks |-> "check"]
  /\ at = [r \in Ranks |-> 1]
  /\ child = [r \in Ranks |-> 0]
  /\ ids = [r \in Ranks |-> <<>>]
  /\ out = <<>>

Emit(r, line) == out' = Append(out, [rank |-> r, line |-> line])

\* Mutant: the number is that of the next line of the output.
Mut_ToId(r, known, module) ==
  IF module \in DOMAIN known THEN known
  ELSE [m \in DOMAIN known \cup {module} |-> IF m = module THEN Len(out) ELSE known[m]]

\* to_id on rank r: a new module gets the size the map had before.
ToId(r, known, module) ==
  IF module \in DOMAIN known THEN known
  ELSE [m \in DOMAIN known \cup {module} |->
          IF m = module THEN Cardinality(DOMAIN known) ELSE known[m]]

\* print_graph asks for a name, and make_printer for a format that it knows; the
\* constructor of either printer prints a line.
Start(r) ==
  /\ pc[r] = "check"
  /\ IF named /\ format \in {"graphviz", "d2"}
     THEN pc' = [pc EXCEPT ![r] = "entries"] /\ Emit(r, [kind |-> "open"])
     ELSE pc' = [pc EXCEPT ![r] = "exited"] /\ UNCHANGED out
  /\ UNCHANGED <<graph, format, named, at, child, ids>>

Entry(r) == graph.entries[at[r]]

AtEntry(r, kind) ==
  /\ pc[r] = "entries"
  /\ at[r] <= Len(graph.entries)
  /\ Entry(r).kind = kind

\* Mutant: the children are numbered, but not the parent.
Mut_Edge(r) ==
  /\ AtEntry(r, "children")
  /\ child[r] < Len(Entry(r).children)
  /\ LET to == Entry(r).children[child[r] + 1]
     IN  /\ ids' = [ids EXCEPT ![r] = ToId(r, @, to)]
         /\ Emit(r, [kind |-> "edge", from |-> ids'[r][to], to |-> ids'[r][to]])
  /\ child' = [child EXCEPT ![r] = @ + 1]
  /\ UNCHANGED <<graph, format, named, pc, at>>

Edge(r) ==
  /\ AtEntry(r, "children")
  /\ child[r] < Len(Entry(r).children)
  /\ LET from == Entry(r).module
         to   == Entry(r).children[child[r] + 1]
     IN  /\ ids' = [ids EXCEPT ![r] = ToId(r, ToId(r, @, from), to)]
         /\ Emit(r, [kind |-> "edge", from |-> ids'[r][from], to |-> ids'[r][to]])
  /\ child' = [child EXCEPT ![r] = @ + 1]
  /\ UNCHANGED <<graph, format, named, pc, at>>

\* Mutant: the iterator over the children is not started again.
Mut_EndOfChildren(r) ==
  /\ AtEntry(r, "children")
  /\ child[r] = Len(Entry(r).children)
  /\ ids' = [ids EXCEPT ![r] = ToId(r, @, Entry(r).module)]
  /\ at' = [at EXCEPT ![r] = @ + 1]
  /\ UNCHANGED <<graph, format, named, pc, child, out>>

\* The parent is numbered also when it has no children.
EndOfChildren(r) ==
  /\ AtEntry(r, "children")
  /\ child[r] = Len(Entry(r).children)
  /\ ids' = [ids EXCEPT ![r] = ToId(r, @, Entry(r).module)]
  /\ child' = [child EXCEPT ![r] = 0]
  /\ at' = [at EXCEPT ![r] = @ + 1]
  /\ UNCHANGED <<graph, format, named, pc, out>>

\* A module without prefix and version is labelled with its name and "@".
Node(r) ==
  /\ AtEntry(r, "type")
  /\ LET module == Entry(r).module
     IN  /\ ids' = [ids EXCEPT ![r] = ToId(r, @, module)]
         /\ Emit(r, [kind |-> "node", id |-> ids'[r][module], module |-> module,
                      described |-> module \in graph.described])
  /\ at' = [at EXCEPT ![r] = @ + 1]
  /\ UNCHANGED <<graph, format, named, pc, child>>

\* The printer is destroyed: graphviz ends with "}".
Close(r) ==
  /\ pc[r] = "entries"
  /\ at[r] > Len(graph.entries)
  /\ pc' = [pc EXCEPT ![r] = "closed"]
  /\ IF format = "graphviz" THEN Emit(r, [kind |-> "close"]) ELSE UNCHANGED out
  /\ UNCHANGED <<graph, format, named, at, child, ids>>

Next == \E r \in Ranks : Start(r) \/ Edge(r) \/ EndOfChildren(r) \/ Node(r) \/ Close(r)

Spec == Init /\ [][Next]_vars
-----------------------------------------------------------------------------
(***************************************************************************)
(* Properties.                                                             *)
(***************************************************************************)

\* The type invariant.
TypeOK ==
  /\ graph \in Graphs /\ format \in Formats /\ named \in BOOLEAN
  /\ pc \in [Ranks -> {"check", "entries", "closed", "exited"}]
  /\ at \in [Ranks -> 1..(Len(graph.entries) + 1)]
  /\ \A r \in Ranks :
       child[r] # 0 => AtEntry(r, "children") /\ child[r] \in 1..Len(Entry(r).children)
  /\ \A k \in DOMAIN out : out[k].rank \in Ranks

\* Two modules never share a number and a module never has two, whichever rank
\* numbered them and however the ranks take turns: lines of several ranks, mixed in
\* one output, speak of the same modules.
OneNumberPerModule ==
  \A r, s \in Ranks : \A m \in DOMAIN ids[r], n \in DOMAIN ids[s] :
    ids[r][m] = ids[s][n] <=> m = n

\* The lines that rank r printed.
Mine(r) == {k \in DOMAIN out : out[k].rank = r}
Body(r) == {k \in Mine(r) : out[k].line.kind \in {"node", "edge"}}

\* The lines of an entry, said of modules instead of numbers.
LinesOf(entry) ==
  IF entry.kind = "type"
  THEN {[kind |-> "node", of |-> entry.module, described |-> entry.module \in graph.described]}
  ELSE {[kind |-> "edge", from |-> entry.module, to |-> entry.children[c]] :
          c \in DOMAIN entry.children}

\* A line of rank r, with the modules that its numbers name in the end.
Read(r, line) ==
  LET Module(id) == CHOOSE m \in DOMAIN ids[r] : ids[r][m] = id
  IN  IF line.kind = "node"
      THEN [kind |-> "node", of |-> Module(line.id), described |-> line.described]
      ELSE [kind |-> "edge", from |-> Module(line.from), to |-> Module(line.to)]

\* When a rank has closed the graph, the nodes and edges it printed are those of the
\* configuration, each once, between the lines that open and close the graph: an
\* edge printed before the node of its child still names that child.
GraphIsPrinted ==
  \A r \in Ranks :
    pc[r] = "closed" =>
      /\ {Read(r, out[k].line) : k \in Body(r)} =
           UNION {LinesOf(graph.entries[e]) : e \in DOMAIN graph.entries}
      /\ \A k, l \in Body(r) : Read(r, out[k].line) = Read(r, out[l].line) => k = l
      /\ \E k \in Mine(r) : out[k].line.kind = "open"
      /\ \A k \in Mine(r) \ Body(r) :
           \/ out[k].line.kind = "open" /\ \A l \in Mine(r) : k <= l
           \/ out[k].line.kind = "close" /\ format = "graphviz" /\ \A l \in Mine(r) : l <= k
      /\ format = "graphviz" => \E k \in Mine(r) : out[k].line.kind = "close"

=============================================================================
