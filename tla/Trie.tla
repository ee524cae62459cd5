-------------------------------- MODULE Trie --------------------------------
(***************************************************************************)
(* The prefix tree of src/include/utils/fuzzy_matcher.h, with which        *)
(* pressio resolves abbreviated -f formats and -a actions.                 *)
(*                                                                         *)
(* A node is the word that leads to it, so the tree is the function ids    *)
(* from its nodes to their ids, and a child has one more character.  A     *)
(* step inserts one character of the current candidate, or ends it.        *)
(***************************************************************************)
EXTENDS Integers, Sequences, FiniteSetsExt

CONSTANTS
  Chars,          \* the characters candidates are made of
  CandidateLists  \* the lists of candidates a Trie may be built from

ASSUME CandidatesAssumption == CandidateLists \subseteq Seq(Seq(Chars))

VARIABLES
  candidates,  \* the range the constructor iterates over
  pc,          \* "insert", "threw" or "built"
  max_id,      \* candidates inserted so far, and the id of the next one
  pos,         \* characters of the current candidate already processed
  created,     \* last_id is not ambiguous: this candidate has created a node
  ids          \* the id of every node

vars == <<candidates, pc, max_id, pos, created, ids>>

root == <<>>
\* (size_t)-1, and the empty optional.
ambiguous == -1

Word == candidates[max_id + 1]
Current == SubSeq(Word, 1, pos)
Child == SubSeq(Word, 1, pos + 1)

has_any_child(node) ==
  \E other \in DOMAIN ids : Len(other) = Len(node) + 1 /\ SubSeq(other, 1, Len(node)) = node

Init ==
  /\ candidates \in CandidateLists
  /\ pc = "insert"
  /\ max_id = 0
  /\ pos = 0
  /\ created = FALSE
  /\ ids = [node \in {root} |-> ambiguous]

-----------------------------------------------------------------------------
Inserting == pc = "insert" /\ max_id < Len(candidates)
AtCharacter == Inserting /\ pos < Len(Word)
AtEnd == Inserting /\ pos = Len(Word)

\* Mutant: a candidate may pass through the last node of another.
Mut_AtLeaf == FALSE

\* The candidate goes on where an earlier candidate has ended.
AtLeaf == ~ has_any_child(Current) /\ ~ created /\ Current # root

Throw ==
  /\ pc' = "threw"
  /\ UNCHANGED <<candidates, max_id, pos, created, ids>>

InsertThrows == AtCharacter /\ AtLeaf /\ Throw

\* Mutant: nodes keep the id of the first candidate.
Mut_Marked == ids

\* Nodes the candidate passes through lose the id of an earlier candidate.
Marked == IF ids[Current] = max_id THEN ids ELSE [ids EXCEPT ![Current] = ambiguous]

Follow ==
  /\ AtCharacter
  /\ ~ AtLeaf
  /\ Child \in DOMAIN ids
  /\ ids' = Marked
  /\ pos' = pos + 1
  /\ UNCHANGED <<candidates, pc, max_id, created>>

\* Mutant: new nodes get the id of the next candidate.
Mut_Create ==
  /\ AtCharacter
  /\ ~ AtLeaf
  /\ Child \notin DOMAIN ids
  /\ ids' = [node \in DOMAIN ids \cup {Child} |-> IF node = Child THEN max_id + 1 ELSE Marked[node]]
  /\ created' = TRUE
  /\ pos' = pos + 1
  /\ UNCHANGED <<candidates, pc, max_id>>

Create ==
  /\ AtCharacter
  /\ ~ AtLeaf
  /\ Child \notin DOMAIN ids
  /\ ids' = [node \in DOMAIN ids \cup {Child} |-> IF node = Child THEN max_id ELSE Marked[node]]
  /\ created' = TRUE
  /\ pos' = pos + 1
  /\ UNCHANGED <<candidates, pc, max_id>>

\* The candidate is a prefix of an earlier one, or empty.
EndThrows == AtEnd /\ ~ created /\ Throw

EndCandidate ==
  /\ AtEnd
  /\ created
  /\ max_id' = max_id + 1
  /\ pos' = 0
  /\ created' = FALSE
  /\ UNCHANGED <<candidates, pc, ids>>

\* The constructor returns.
Built ==
  /\ pc = "insert"
  /\ max_id = Len(candidates)
  /\ pc' = "built"
  /\ UNCHANGED <<candidates, max_id, pos, created, ids>>

Next == InsertThrows \/ Follow \/ Create \/ EndThrows \/ EndCandidate \/ Built

Spec == Init /\ [][Next]_vars /\ WF_vars(Next)

-----------------------------------------------------------------------------
NoMatch == -1

\* find descends until a character has no child or a node has an id.
find(text) ==
  LET Node(n) == SubSeq(text, 1, n)
      Stops == {n \in 1..Len(text) : Node(n) \in DOMAIN ids => ids[Node(n)] # ambiguous}
  IN  IF Stops = {} \/ Node(Min(Stops)) \notin DOMAIN ids
      THEN NoMatch
      ELSE ids[Node(Min(Stops))]

-----------------------------------------------------------------------------
(***************************************************************************)
(* Properties.                                                             *)
(***************************************************************************)

\* The type invariant.
TypeOK ==
  /\ candidates \in Seq(Seq(Chars))
  /\ pc \in {"insert", "threw", "built"}
  /\ max_id \in 0..Len(candidates)
  /\ pos \in Nat /\ (max_id < Len(candidates) => pos \in 0..Len(Word))
  /\ created \in BOOLEAN
  /\ root \in DOMAIN ids
  /\ \A node \in DOMAIN ids :
       node \in Seq(Chars) /\ (ids[node] = ambiguous \/ ids[node] \in 0..max_id)

Texts == UNION {{SubSeq(candidates[k], 1, n) : n \in 0..Len(candidates[k])} : k \in DOMAIN candidates}

Dict == INSTANCE Dictionary WITH
          Lists   <- CandidateLists,
          words   <- candidates,
          taken   <- max_id,
          refused <- (pc = "threw")

\* The candidates accepted so far that text abbreviates.
Abbreviated(text) == {k \in 1..max_id : Dict!Prefix(text, candidates[k])}

\* The reference for find: the shortest prefix of text that abbreviates one
\* candidate only names it, unless a shorter prefix abbreviates none.
Unique(text) ==
  LET Cut(n) == SubSeq(text, 1, n)
      Decisive == {n \in 1..Len(text) : Cardinality(Abbreviated(Cut(n))) <= 1}
  IN  IF Decisive = {} \/ Abbreviated(Cut(Min(Decisive))) = {}
      THEN NoMatch
      ELSE (CHOOSE k \in Abbreviated(Cut(Min(Decisive))) : TRUE) - 1

\* Between two insertions find answers every text as the reference does; with
\* one more character a text may leave the tree or go beyond a decided node.
FindIsUniquePrefix ==
  pos = 0 /\ pc # "threw" =>
    \A text \in Texts : find(text) = Unique(text) /\
      \A ch \in Chars : find(Append(text, ch)) = Unique(Append(text, ch))

\* Test InvalidCandidates: the constructor throws in whichever order two clashing
\* candidates come, exactly at the candidate that clashes or is empty, and takes
\* every other one.
ImplementsDictionary == Dict!Spec

=============================================================================
