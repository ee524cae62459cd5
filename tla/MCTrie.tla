------------------------------- MODULE MCTrie -------------------------------
(***************************************************************************)
(* Instances of Trie for TLC: every list of at most three words of one to  *)
(* three characters over an alphabet of two.                               *)
(***************************************************************************)
EXTENDS Trie

MaxLength == 3
MCChars == {"a", "b"}
MCWords == UNION {[1..n -> MCChars] : n \in 1..MaxLength}

\* The empty word comes last, because nothing is inserted after it.
MCCandidateLists ==
  UNION {[1..n -> MCWords] : n \in 0..3} \cup {<<w, <<>>>> : w \in MCWords} \cup {<<<<>>>>}

=============================================================================
