---------------------------- MODULE MCModuleGraph ----------------------------
(***************************************************************************)
(* Instances of ModuleGraph for TLC.  The entries of a module come after   *)
(* those of its children, whose names are longer: "opt/sz:..." is before   *)
(* "opt:..." in the map.                                                   *)
(***************************************************************************)
EXTENDS ModuleGraph

Children(m, cs) == [module |-> m, kind |-> "children", children |-> cs]
Type(m) == [module |-> m, kind |-> "type"]

\* A compressor in a meta compressor, whose search has no entries of its own.
Nested ==
  [entries   |-> <<Children("opt/sz", <<>>), Type("opt/sz"),
                   Children("opt", <<"opt/sz", "opt/search">>), Type("opt")>>,
   described |-> {"opt/sz"}]

\* A module that is met as a child before its own entries: not named below its parent.
Early ==
  [entries   |-> <<Children("a", <<"b">>), Type("a"), Type("b/c"), Children("b", <<"b/c">>), Type("b")>>,
   described |-> {"a", "b", "b/c"}]

MCGraphs == {Nested, Early, [entries |-> <<>>, described |-> {}]}

=============================================================================
