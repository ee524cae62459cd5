------------------------------- MODULE MCBatch -------------------------------
(***************************************************************************)
(* Instances of Batch for TLC.  Metric keys are numbers in the order of    *)
(* the std::map.  In MCBatch.cfg an int has two bits: 2 is no int, -r -2   *)
(* is two replicates, and -r -1 is three, the last with a negative i.      *)
(***************************************************************************)
EXTENDS Batch, TLC

R(n) == [opt |-> "r", arg |-> "", number |-> n]
Dataset(file) == [opt |-> "d", arg |-> file, number |-> <<>>]
Other(opt) == [opt |-> opt, arg |-> "dir", number |-> <<>>]

MCCommandLines ==
  {[flags |-> fs, rest |-> <<>>] :
     fs \in {<<>>, <<R(<<0>>)>>, <<R(<<-1>>)>>, <<R(<<-2>>)>>,
             <<R(<<-2>>), R(<<1>>)>>, <<R(<<1>>), R(<<-2>>)>>,
             <<R(<<>>)>>, <<R(<<1>>), R(<<2>>)>>,
             <<Dataset("none.json")>>, <<Dataset("none.json"), Dataset("datasets.json")>>}}
  \cup {[flags |-> <<R(<<-2>>)>>, rest |-> <<1>>],
        [flags |-> <<Other("h"), Other("w"), Other("W"), Other("?")>>, rest |-> <<2, 1>>]}

MCTwice == {[flags |-> <<R(<<2>>)>>, rest |-> <<>>]}

\* A double and a type print_value leaves blank.
MCResults == {(1 :> "double") @@ (2 :> "uint64")}

\* A metric that only some replicates report.
MCPartialResults == {(1 :> "double"), (1 :> "double") @@ (2 :> "uint64")}

=============================================================================
