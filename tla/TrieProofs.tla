------------------------------ MODULE TrieProofs ------------------------------
(***************************************************************************)
(* Theorems about Trie for any alphabet and any lists of candidates.       *)
(*                                                                         *)
(* A node is there because a candidate that was taken goes through it, or  *)
(* because the current one has reached it.  Its id is that of the only     *)
(* candidate through it, and ambiguous when there are two.                 *)
(***************************************************************************)
EXTENDS Trie, SequenceTheorems, DataFacts

-----------------------------------------------------------------------------
(***************************************************************************)
(* Prefixes of words.                                                      *)
(***************************************************************************)
Words == Seq(Chars)
Cut(w, n) == SubSeq(w, 1, n)

LEMMA WordFacts ==
  ASSUME NEW w \in Words
  PROVE  /\ Len(w) \in Nat /\ DOMAIN w = 1..Len(w)
         /\ w = root <=> Len(w) = 0
         /\ Dict!Prefix(w, w)
         /\ root \in Words /\ Len(root) = 0 /\ Dict!Prefix(root, w)
<1>1. /\ Len(w) \in Nat /\ DOMAIN w = 1..Len(w)
      /\ root \in Words /\ Len(root) = 0 /\ DOMAIN root = {}
  BY EmptySeq, LenProperties DEF Words, root
<1>2. Len(w) = 0 => w = root
  BY <1>1, SeqEqual DEF Words
<1>. QED  BY <1>1, <1>2 DEF Dict!Prefix

LEMMA CutFacts ==
  ASSUME NEW w \in Words, NEW n \in 0..Len(w)
  PROVE  /\ Cut(w, n) \in Words /\ Len(Cut(w, n)) = n
         /\ Dict!Prefix(Cut(w, n), w)
         /\ \A i \in 1..n : Cut(w, n)[i] = w[i]
<1>1. \A i \in 1..n : w[i] \in Chars
  BY ElementOfSeq DEF Words
<1>2. /\ Cut(w, n) \in Words /\ Len(Cut(w, n)) = n
      /\ \A i \in 1..n : Cut(w, n)[i] = w[i]
  BY <1>1, SubSeqProperties DEF Words, Cut
<1>3. DOMAIN Cut(w, n) = 1..n
  BY <1>2, LenProperties DEF Words
<1>. QED  BY <1>2, <1>3 DEF Dict!Prefix

\* A prefix is a cut.
LEMMA PrefixIsCut ==
  ASSUME NEW p \in Words, NEW w \in Words, Dict!Prefix(p, w)
  PROVE  Len(p) \in 0..Len(w) /\ p = Cut(w, Len(p))
<1>1. Len(p) \in 0..Len(w) /\ \A i \in 1..Len(p) : p[i] = w[i]
  BY WordFacts DEF Dict!Prefix
<1>2. /\ Cut(w, Len(p)) \in Words /\ Len(Cut(w, Len(p))) = Len(p)
      /\ \A i \in 1..Len(p) : Cut(w, Len(p))[i] = w[i]
  BY <1>1, CutFacts
<1>. QED  BY <1>1, <1>2, SeqEqual DEF Words

LEMMA SameLength ==
  ASSUME NEW p \in Words, NEW q \in Words, NEW w \in Words, Dict!Prefix(p, w), Dict!Prefix(q, w),
         Len(p) = Len(q)
  PROVE  p = q
  BY PrefixIsCut

LEMMA PrefixTransitive ==
  ASSUME NEW p \in Words, NEW q \in Words, NEW w \in Words, Dict!Prefix(p, q), Dict!Prefix(q, w)
  PROVE  Dict!Prefix(p, w)
  BY WordFacts DEF Dict!Prefix

LEMMA PrefixesNest ==
  ASSUME NEW p \in Words, NEW q \in Words, NEW w \in Words, Dict!Prefix(p, w), Dict!Prefix(q, w),
         Len(p) <= Len(q)
  PROVE  Dict!Prefix(p, q)
  BY WordFacts DEF Dict!Prefix

\* As has_any_child says it.
LEMMA CutIsPrefix ==
  ASSUME NEW p \in Words, NEW w \in Words, Len(p) <= Len(w)
  PROVE  Cut(w, Len(p)) = p <=> Dict!Prefix(p, w)
<1>1. Len(p) \in 0..Len(w)
  BY WordFacts
<1>. QED  BY <1>1, CutFacts, PrefixIsCut

-----------------------------------------------------------------------------
(***************************************************************************)
(* The inductive invariant.                                                *)
(***************************************************************************)

\* The current candidate has reached a node, and has left it behind.
Reached(node) == node = root \/ (pos > 0 /\ Len(node) <= pos /\ Dict!Prefix(node, Word))
Passed(node) == pos > 0 /\ Len(node) < pos /\ Dict!Prefix(node, Word)

TypeInv ==
  /\ candidates \in CandidateLists
  /\ pc \in {"insert", "threw", "built"}
  /\ max_id \in 0..Len(candidates)
  /\ pos \in Nat
  /\ pos > 0 => max_id < Len(candidates) /\ pos <= Len(Word)
  /\ pc = "built" => max_id = Len(candidates)
  /\ created \in BOOLEAN

\* The candidates that were taken do not clash.
TakenInv ==
  /\ \A k \in 1..max_id : candidates[k] # root
  /\ \A j, k \in 1..max_id : j # k => ~ Dict!Prefix(candidates[j], candidates[k])

\* The current candidate has not gone on where one of them ends.
EndsInv ==
  \A k \in 1..max_id :
    pos > 0 /\ Dict!Prefix(candidates[k], Word) => pos <= Len(candidates[k])

\* created is known from the node that was reached last.
CreatedInv == created <=> pos > 0 /\ Abbreviated(Current) = {}

NodesInv ==
  /\ DOMAIN ids \subseteq Words
  /\ \A node \in Words : node \in DOMAIN ids <=> Reached(node) \/ Abbreviated(node) # {}

\* The id of a node.
HasId(node) ==
  /\ Abbreviated(node) = {} => ids[node] = max_id
  /\ \A k \in 1..max_id : Abbreviated(node) = {k} /\ ~ Passed(node) => ids[node] = k - 1
  /\ Abbreviated(node) # {} /\ (Passed(node) \/ \A k : Abbreviated(node) # {k}) =>
       ids[node] = ambiguous

IdsInv ==
  /\ ids[root] = ambiguous
  /\ \A node \in DOMAIN ids : node # root => HasId(node)

IInv == TypeInv /\ TakenInv /\ EndsInv /\ CreatedInv /\ NodesInv /\ IdsInv

LEMMA TypeFacts ==
  ASSUME TypeInv
  PROVE  /\ candidates \in Seq(Words) /\ Len(candidates) \in Nat
         /\ DOMAIN candidates = 1..Len(candidates)
         /\ \A k \in 1..Len(candidates) : candidates[k] \in Words
         /\ max_id \in Nat /\ max_id <= Len(candidates)
         /\ \A k \in 1..max_id : candidates[k] \in Words
         /\ max_id < Len(candidates) => Word \in Words /\ Len(Word) \in Nat
<1>1. candidates \in Seq(Words)
  BY CandidatesAssumption DEF TypeInv, Words
<1>2. /\ Len(candidates) \in Nat /\ DOMAIN candidates = 1..Len(candidates)
      /\ \A k \in 1..Len(candidates) : candidates[k] \in Words
  BY <1>1, LenProperties, ElementOfSeq
<1>3. max_id \in Nat /\ max_id <= Len(candidates)
  <2>1. max_id \in 0..Len(candidates)
    BY DEF TypeInv
  <2>2. Len(candidates) \in Nat
    BY <1>2
  <2>. QED  BY <2>1, <2>2
<1>4. max_id < Len(candidates) => Word \in Words
  <2> SUFFICES ASSUME max_id < Len(candidates) PROVE Word \in Words
    OBVIOUS
  <2>1. max_id + 1 \in 1..Len(candidates)
    BY <1>2, <1>3
  <2>. QED  BY <1>2, <2>1 DEF Word
<1>. QED  BY <1>1, <1>2, <1>3, <1>4, WordFacts

\* The nodes around the one that was reached last.
LEMMA CurrentFacts ==
  ASSUME TypeInv, NodesInv, AtCharacter
  PROVE  /\ Word \in Words /\ pos \in Nat /\ pos < Len(Word)
         /\ Current \in Words /\ Len(Current) = pos /\ Dict!Prefix(Current, Word)
         /\ Child \in Words /\ Len(Child) = pos + 1 /\ Dict!Prefix(Child, Word)
         /\ Dict!Prefix(Current, Child) /\ Current # Child
         /\ Current = root <=> pos = 0
         /\ Child # root /\ ~ Reached(Child)
         /\ Reached(Current) /\ ~ Passed(Current) /\ Current \in DOMAIN ids
<1>1. /\ Word \in Words /\ pos \in Nat /\ pos < Len(Word) /\ Len(Word) \in Nat
  BY TypeFacts DEF TypeInv, AtCharacter, Inserting
<1>2. /\ Current \in Words /\ Len(Current) = pos /\ Dict!Prefix(Current, Word)
      /\ Child \in Words /\ Len(Child) = pos + 1 /\ Dict!Prefix(Child, Word)
  BY <1>1, CutFacts DEF Current, Child, Cut
<1>3. /\ Dict!Prefix(Current, Child) /\ Current # Child
  BY <1>1, <1>2, PrefixesNest
<1>4. (Current = root <=> pos = 0) /\ Child # root
  BY <1>1, <1>2, WordFacts
<1>5. Reached(Current) /\ ~ Passed(Current) /\ ~ Reached(Child)
  BY <1>1, <1>2, <1>4 DEF Reached, Passed
<1>6. Current \in DOMAIN ids
  BY <1>2, <1>5 DEF NodesInv
<1>. QED  BY <1>1, <1>2, <1>3, <1>4, <1>5, <1>6

LEMMA AbbreviatedFacts ==
  ASSUME TypeInv, NEW p \in Words, NEW q \in Words, Dict!Prefix(p, q)
  PROVE  Abbreviated(q) \subseteq Abbreviated(p)
<1>1. ASSUME NEW k \in 1..max_id, Dict!Prefix(q, candidates[k]) PROVE Dict!Prefix(p, candidates[k])
  BY <1>1, TypeFacts, PrefixTransitive
<1>. QED  BY <1>1 DEF Abbreviated

\* Without a leaf in its way the candidate meets no end of another.
LEMMA NoEndHere ==
  ASSUME TypeInv, TakenInv, CreatedInv, NodesInv, AtCharacter, ~ AtLeaf,
         NEW k \in 1..max_id
  PROVE  candidates[k] # Current
<1> SUFFICES ASSUME candidates[k] = Current PROVE FALSE
    OBVIOUS
<1>1. k \in Abbreviated(Current) /\ candidates[k] \in Words
  BY TypeFacts, WordFacts DEF Abbreviated
<1>2. Current # root
  BY DEF TakenInv
<1>3. ~ created
  BY <1>1 DEF CreatedInv
<1>4. PICK other \in DOMAIN ids : Len(other) = Len(Current) + 1 /\ SubSeq(other, 1, Len(Current)) = Current
  BY <1>2, <1>3 DEF AtLeaf, has_any_child
<1>5. /\ other \in Words /\ Len(other) = pos + 1 /\ Dict!Prefix(Current, other)
  BY <1>4, CurrentFacts, CutIsPrefix DEF NodesInv, Cut
<1>6. ~ Reached(other)
  BY <1>5, CurrentFacts, WordFacts DEF Reached
<1>7. PICK j \in 1..max_id : Dict!Prefix(other, candidates[j])
  BY <1>5, <1>6 DEF NodesInv, Abbreviated
<1>8. Dict!Prefix(candidates[k], candidates[j]) /\ candidates[j] \in Words
  BY <1>1, <1>5, <1>7, TypeFacts, PrefixTransitive
<1>9. j = k
  BY <1>8 DEF TakenInv
<1>10. Len(candidates[k]) = pos /\ pos \in Nat
  BY CurrentFacts
<1>. QED  BY <1>5, <1>7, <1>9, <1>10 DEF Dict!Prefix

-----------------------------------------------------------------------------
(***************************************************************************)
(* Each action preserves the invariant.                                    *)
(***************************************************************************)
LEMMA InitStep == Init => IInv
<1> SUFFICES ASSUME Init PROVE IInv
    OBVIOUS
<1>1. TypeInv
  <2>1. candidates \in Seq(Seq(Chars))
    BY CandidatesAssumption DEF Init
  <2>2. Len(candidates) \in Nat
    BY <2>1, LenProperties
  <2>3. /\ candidates \in CandidateLists /\ pc = "insert" /\ max_id = 0 /\ pos = 0
        /\ created = FALSE
    BY DEF Init
  <2>4. max_id \in 0..Len(candidates)
    BY <2>2, <2>3
  <2>5. (pos > 0) = FALSE /\ (pc = "built") = FALSE /\ pos \in Nat
    BY <2>3
  <2>. QED  BY <2>3, <2>4, <2>5 DEF TypeInv
<1>2. max_id = 0 /\ pos = 0 /\ created = FALSE /\ DOMAIN ids = {root} /\ ids[root] = ambiguous
  BY DEF Init
<1>3. TakenInv /\ EndsInv
  BY <1>2 DEF TakenInv, EndsInv
<1>4. \A node : Abbreviated(node) = {} /\ (Reached(node) <=> node = root)
  BY <1>2 DEF Abbreviated, Reached
<1>5. CreatedInv
  BY <1>2 DEF CreatedInv
<1>6. NodesInv
  BY <1>2, <1>4, EmptySeq DEF NodesInv, Words, root
<1>7. IdsInv
  BY <1>2 DEF IdsInv
<1>. QED  BY <1>1, <1>3, <1>5, <1>6, <1>7 DEF IInv

\* One character further: what Follow and Create have in common.
Further ==
  /\ AtCharacter /\ ~ AtLeaf
  /\ pos' = pos + 1
  /\ UNCHANGED <<candidates, pc, max_id>>

LEMMA FurtherFacts ==
  ASSUME IInv, Further
  PROVE  /\ TypeInv /\ TakenInv /\ NodesInv /\ CreatedInv /\ IdsInv /\ AtCharacter
         /\ Word' = Word /\ Current' = Child
         /\ \A node : Abbreviated(node)' = Abbreviated(node)
         /\ \A node \in Words : Reached(node)' <=> Reached(node) \/ node = Child
         /\ \A node \in Words : Passed(node)' <=> Passed(node) \/ node = Current
         /\ pos' > 0 /\ pos' \in Nat /\ pos' <= Len(Word) /\ max_id < Len(candidates)
         /\ TakenInv' /\ EndsInv'
<1>1. /\ TypeInv /\ TakenInv /\ EndsInv /\ CreatedInv /\ NodesInv /\ IdsInv /\ AtCharacter /\ ~ AtLeaf
      /\ pos' = pos + 1 /\ UNCHANGED <<candidates, pc, max_id>>
  BY DEF IInv, Further
<1>2. /\ Word \in Words /\ pos \in Nat /\ pos < Len(Word) /\ Len(Word) \in Nat
      /\ Current \in Words /\ Len(Current) = pos /\ Dict!Prefix(Current, Word)
      /\ Child \in Words /\ Len(Child) = pos + 1 /\ Dict!Prefix(Child, Word)
      /\ root \in Words /\ Len(root) = 0 /\ Dict!Prefix(root, Word)
  BY <1>1, CurrentFacts, WordFacts
<1>3. Word' = Word /\ Current' = Child
  BY <1>1 DEF Word, Current, Child
<1>4. \A node : Abbreviated(node)' = Abbreviated(node)
  BY <1>1 DEF Abbreviated
<1>5. \A node \in Words : Len(node) \in Nat
  BY WordFacts
<1>6. ASSUME NEW node \in Words PROVE Reached(node)' <=> Reached(node) \/ node = Child
  <2>1. Reached(node)' <=> node = root \/ (Len(node) <= pos + 1 /\ Dict!Prefix(node, Word))
    BY <1>1, <1>2, <1>3 DEF Reached
  <2>2. Dict!Prefix(node, Word) /\ Len(node) = pos + 1 => node = Child
    BY <1>2, SameLength
  <2>3. Dict!Prefix(node, Word) /\ Len(node) = 0 => node = root
    BY <1>2, SameLength
  <2>. QED  BY <1>2, <1>5, <2>1, <2>2, <2>3 DEF Reached
<1>7. ASSUME NEW node \in Words PROVE Passed(node)' <=> Passed(node) \/ node = Current
  <2>1. Passed(node)' <=> Len(node) < pos + 1 /\ Dict!Prefix(node, Word)
    BY <1>1, <1>2, <1>3 DEF Passed
  <2>2. Dict!Prefix(node, Word) /\ Len(node) = pos => node = Current
    BY <1>2, SameLength
  <2>. QED  BY <1>2, <1>5, <2>1, <2>2 DEF Passed
<1>8. TakenInv'
  BY <1>1 DEF TakenInv
<1>9. EndsInv'
  <2> SUFFICES ASSUME NEW k \in 1..max_id, Dict!Prefix(candidates[k], Word)
               PROVE  pos + 1 <= Len(candidates[k])
    BY <1>1, <1>3 DEF EndsInv
  <2>1. candidates[k] \in Words /\ Len(candidates[k]) \in Nat
    BY <1>1, TypeFacts, WordFacts
  <2>2. candidates[k] # Current
    BY <1>1, NoEndHere
  <2>3. Len(candidates[k]) # pos
    BY <1>2, <2>1, <2>2, SameLength
  <2>4. pos > 0 => pos <= Len(candidates[k])
    BY <1>1 DEF EndsInv
  <2>. QED  BY <1>2, <2>1, <2>3, <2>4
<1>10. pos' > 0 /\ pos' \in Nat /\ pos' <= Len(Word) /\ max_id < Len(candidates)
  BY <1>1, <1>2 DEF AtCharacter, Inserting
<1>. QED  BY <1>1, <1>3, <1>4, <1>6, <1>7, <1>8, <1>9, <1>10

\* The node that is left behind: a second candidate goes through it.
LEMMA MarkedFacts ==
  ASSUME IInv, Further
  PROVE  /\ DOMAIN Marked = DOMAIN ids /\ Marked[root] = ambiguous
         /\ \A node \in DOMAIN ids : node # Current => Marked[node] = ids[node]
         /\ Current # root =>
              Marked[Current] = IF Abbreviated(Current) = {} THEN max_id ELSE ambiguous
<1>1. /\ IdsInv /\ Current \in DOMAIN ids /\ ~ Passed(Current) /\ max_id \in Nat
  BY FurtherFacts, CurrentFacts, TypeFacts
<1>2. /\ DOMAIN Marked = DOMAIN ids
      /\ \A node \in DOMAIN ids : node # Current => Marked[node] = ids[node]
      /\ Marked[Current] = IF ids[Current] = max_id THEN max_id ELSE ambiguous
  BY <1>1 DEF Marked
<1>3. Marked[root] = ambiguous
  <2>1. root \in DOMAIN ids
    BY FurtherFacts, WordFacts, CurrentFacts DEF NodesInv, Reached
  <2>. QED  BY <1>1, <1>2, <2>1 DEF IdsInv, ambiguous
<1>4. ASSUME Current # root
      PROVE  Marked[Current] = IF Abbreviated(Current) = {} THEN max_id ELSE ambiguous
  <2>1. HasId(Current)
    BY <1>1, <1>4 DEF IdsInv
  <2>2. Abbreviated(Current) = {} => ids[Current] = max_id
    BY <2>1 DEF HasId
  <2>3. Abbreviated(Current) # {} => ids[Current] # max_id
    <3>1. ASSUME NEW k, Abbreviated(Current) = {k} PROVE ids[Current] # max_id
      <4>1. k \in 1..max_id
        BY <3>1 DEF Abbreviated
      <4>2. ids[Current] = k - 1
        BY <1>1, <2>1, <3>1, <4>1 DEF HasId
      <4>. QED  BY <1>1, <4>1, <4>2
    <3>2. ASSUME Abbreviated(Current) # {}, \A k : Abbreviated(Current) # {k}
          PROVE  ids[Current] # max_id
      <4>1. ids[Current] = ambiguous
        BY <2>1, <3>2 DEF HasId
      <4>. QED  BY <1>1, <4>1 DEF ambiguous
    <3>. QED  BY <3>1, <3>2
  <2>. QED  BY <1>2, <2>2, <2>3
<1>. QED  BY <1>2, <1>3, <1>4

LEMMA FollowStep == 
  ASSUME IInv, Follow
  PROVE  IInv'
<1>1. Further /\ Child \in DOMAIN ids /\ ids' = Marked /\ UNCHANGED created
  BY DEF Follow, Further
<1>2. /\ TypeInv /\ TakenInv /\ NodesInv /\ CreatedInv /\ IdsInv /\ AtCharacter
      /\ Word' = Word /\ Current' = Child
      /\ \A node : Abbreviated(node)' = Abbreviated(node)
      /\ \A node \in Words : Reached(node)' <=> Reached(node) \/ node = Child
      /\ \A node \in Words : Passed(node)' <=> Passed(node) \/ node = Current
      /\ pos' > 0 /\ pos' \in Nat /\ pos' <= Len(Word) /\ max_id < Len(candidates)
      /\ TakenInv' /\ EndsInv'
      /\ UNCHANGED <<candidates, pc, max_id>>
  BY <1>1, FurtherFacts DEF Further
<1>3. /\ Current \in Words /\ Child \in Words /\ Dict!Prefix(Current, Child) /\ ~ Reached(Child)
  BY <1>2, CurrentFacts
<1>4. Abbreviated(Child) # {} /\ Abbreviated(Current) # {}
  BY <1>1, <1>2, <1>3, AbbreviatedFacts DEF NodesInv
<1>5. TypeInv'
  BY <1>1, <1>2 DEF TypeInv, AtCharacter, Inserting
<1>6. CreatedInv'
  BY <1>1, <1>2, <1>4 DEF CreatedInv
<1>7. NodesInv'
  <2>1. DOMAIN ids' = DOMAIN ids
    BY <1>1, MarkedFacts
  <2>. QED  BY <1>1, <1>2, <2>1 DEF NodesInv
<1>8. IdsInv'
  <2>1. /\ DOMAIN ids' = DOMAIN ids /\ ids'[root] = ambiguous
        /\ \A node \in DOMAIN ids : node # Current => ids'[node] = ids[node]
        /\ Current # root => ids'[Current] = ambiguous
    BY <1>1, <1>4, MarkedFacts
  <2>2. ASSUME NEW node \in DOMAIN ids, node # root PROVE HasId(node)'
    <3>1. node \in Words /\ HasId(node)
      BY <1>2, <2>2 DEF NodesInv, IdsInv
    <3>2. CASE node = Current
      <4>1. Passed(node)' /\ ids'[node] = ambiguous /\ Abbreviated(node)' # {}
        BY <1>2, <1>4, <2>1, <2>2, <3>1, <3>2
      <4>. QED  BY <4>1 DEF HasId
    <3>3. CASE node # Current
      <4>1. (Passed(node)' <=> Passed(node)) /\ ids'[node] = ids[node] /\ max_id' = max_id
            /\ Abbreviated(node)' = Abbreviated(node)
        BY <1>2, <2>1, <3>1, <3>3
      <4>. QED  BY <3>1, <4>1 DEF HasId
    <3>. QED  BY <3>2, <3>3
  <2>. QED  BY <2>1, <2>2 DEF IdsInv
<1>. QED  BY <1>2, <1>5, <1>6, <1>7, <1>8 DEF IInv

LEMMA CreateStep == 
  ASSUME IInv, Create
  PROVE  IInv'
<1>1. /\ Further /\ Child \notin DOMAIN ids /\ created' = TRUE
      /\ ids' = [node \in DOMAIN ids \cup {Child} |-> IF node = Child THEN max_id ELSE Marked[node]]
  BY DEF Create, Further
<1>2. /\ TypeInv /\ TakenInv /\ NodesInv /\ CreatedInv /\ IdsInv /\ AtCharacter
      /\ Word' = Word /\ Current' = Child
      /\ \A node : Abbreviated(node)' = Abbreviated(node)
      /\ \A node \in Words : Reached(node)' <=> Reached(node) \/ node = Child
      /\ \A node \in Words : Passed(node)' <=> Passed(node) \/ node = Current
      /\ pos' > 0 /\ pos' \in Nat /\ pos' <= Len(Word) /\ max_id < Len(candidates)
      /\ TakenInv' /\ EndsInv'
      /\ UNCHANGED <<candidates, pc, max_id>>
  BY <1>1, FurtherFacts DEF Further
<1>3. /\ Current \in Words /\ Child \in Words /\ Current # Child /\ Current \in DOMAIN ids
      /\ Child # root /\ ~ Reached(Child) /\ ~ Passed(Child)
  BY <1>2, CurrentFacts, WordFacts DEF Reached, Passed
<1>4. Abbreviated(Child) = {}
  BY <1>1, <1>2, <1>3 DEF NodesInv
<1>5. TypeInv'
  BY <1>1, <1>2 DEF TypeInv, AtCharacter, Inserting
<1>6. CreatedInv'
  BY <1>1, <1>2, <1>4 DEF CreatedInv
<1>7. NodesInv'
  BY <1>1, <1>2, <1>3 DEF NodesInv
<1>8. IdsInv'
  <2>1. /\ DOMAIN ids' = DOMAIN ids \cup {Child} /\ ids'[Child] = max_id
        /\ \A node \in DOMAIN ids : ids'[node] = Marked[node]
    BY <1>1
  <2>2. /\ ids'[root] = ambiguous
        /\ \A node \in DOMAIN ids : node # Current => ids'[node] = ids[node]
        /\ Current # root => ids'[Current] = IF Abbreviated(Current) = {} THEN max_id ELSE ambiguous
    <3>1. root \in DOMAIN ids
      BY <1>2, <1>3, WordFacts DEF NodesInv, Reached
    <3>. QED  BY <1>1, <1>3, <2>1, <3>1, MarkedFacts
  <2>3. ASSUME NEW node \in DOMAIN ids, node # root PROVE HasId(node)'
    <3>1. node \in Words /\ HasId(node)
      BY <1>2, <2>3 DEF NodesInv, IdsInv
    <3>2. CASE node = Current
      <4>1. /\ Passed(node)' /\ max_id' = max_id /\ Abbreviated(node)' = Abbreviated(node)
            /\ ids'[node] = IF Abbreviated(node) = {} THEN max_id ELSE ambiguous
        BY <1>2, <2>2, <2>3, <3>1, <3>2
      <4>. QED  BY <4>1 DEF HasId
    <3>3. CASE node # Current
      <4>1. (Passed(node)' <=> Passed(node)) /\ ids'[node] = ids[node] /\ max_id' = max_id
            /\ Abbreviated(node)' = Abbreviated(node)
        BY <1>2, <2>2, <3>1, <3>3
      <4>. QED  BY <3>1, <4>1 DEF HasId
    <3>. QED  BY <3>2, <3>3
  <2>4. ASSUME NEW node, node = Child PROVE HasId(node)'
    <3>1. Abbreviated(node)' = {} /\ ids'[node] = max_id'
      BY <1>2, <1>4, <2>1, <2>4
    <3>. QED  BY <3>1 DEF HasId
  <2>. QED  BY <2>1, <2>2, <2>3, <2>4 DEF IdsInv
<1>. QED  BY <1>2, <1>5, <1>6, <1>7, <1>8 DEF IInv

\* The candidate fits when its last node was created, and then its nodes become those
\* of a candidate that was taken.
LEMMA EndFacts ==
  ASSUME IInv, AtEnd, created
  PROVE  /\ Word \in Words /\ pos = Len(Word) /\ pos > 0 /\ Word # root
         /\ max_id + 1 \in 1..Len(candidates) /\ candidates[max_id + 1] = Word
         /\ Abbreviated(Word) = {}
         /\ \A k \in 1..max_id : ~ Dict!Prefix(candidates[k], Word) /\ ~ Dict!Prefix(Word, candidates[k])
<1>1. /\ TypeInv /\ EndsInv /\ CreatedInv /\ max_id < Len(candidates) /\ pos = Len(Word)
      /\ pos > 0 /\ Abbreviated(Current) = {}
  BY DEF IInv, AtEnd, Inserting, CreatedInv
<1>2. /\ Word \in Words /\ Len(Word) \in Nat /\ max_id \in Nat /\ Len(candidates) \in Nat
      /\ \A k \in 1..max_id : candidates[k] \in Words
  BY <1>1, TypeFacts
<1>3. Current = Word
  BY <1>1, <1>2, SubSeqFull DEF Current, Words
<1>4. Abbreviated(Word) = {} /\ Word # root
  BY <1>1, <1>2, <1>3, WordFacts
<1>5. \A k \in 1..max_id : ~ Dict!Prefix(Word, candidates[k])
  BY <1>4 DEF Abbreviated
<1>6. ASSUME NEW k \in 1..max_id, Dict!Prefix(candidates[k], Word) PROVE FALSE
  <2>1. Len(candidates[k]) = Len(Word)
    <3>1. pos <= Len(candidates[k])
      BY <1>1, <1>6 DEF EndsInv
    <3>2. Len(candidates[k]) <= Len(Word)
      BY <1>6 DEF Dict!Prefix
    <3>3. Len(candidates[k]) \in Nat
      BY <1>2, WordFacts
    <3>. QED  BY <1>1, <1>2, <3>1, <3>2, <3>3
  <2>2. candidates[k] = Word
    BY <1>2, <1>6, <2>1, SameLength, WordFacts
  <2>. QED  BY <1>2, <1>5, <2>2, WordFacts
<1>7. max_id + 1 \in 1..Len(candidates) /\ candidates[max_id + 1] = Word
  BY <1>1, <1>2 DEF Word
<1>. QED  BY <1>1, <1>2, <1>4, <1>5, <1>6, <1>7

LEMMA EndCandidateStep ==
  ASSUME IInv, EndCandidate
  PROVE  IInv'
<1> DEFINE n == max_id + 1
<1>1. /\ TypeInv /\ TakenInv /\ NodesInv /\ IdsInv
      /\ max_id' = n /\ pos' = 0 /\ created' = FALSE /\ UNCHANGED <<candidates, pc, ids>>
      /\ AtEnd /\ created
  BY DEF IInv, EndCandidate
<1>2. /\ Word \in Words /\ pos = Len(Word) /\ pos > 0 /\ Word # root
      /\ n \in 1..Len(candidates) /\ candidates[n] = Word
      /\ Abbreviated(Word) = {}
      /\ \A k \in 1..max_id : ~ Dict!Prefix(candidates[k], Word) /\ ~ Dict!Prefix(Word, candidates[k])
  BY <1>1, EndFacts
<1>3. max_id \in Nat /\ 1..n = 1..max_id \cup {n} /\ n \notin 1..max_id /\ n \in Nat /\ n # max_id
  BY <1>1, TypeFacts
<1>4. TypeInv'
  <2>1. max_id' \in 0..Len(candidates) /\ pos' \in Nat
    BY <1>1, <1>2, <1>3
  <2>2. pc' = "insert" /\ (pos' > 0) = FALSE /\ (pc' = "built") = FALSE
    BY <1>1 DEF AtEnd, Inserting
  <2>3. UNCHANGED candidates /\ candidates \in CandidateLists /\ created' = FALSE
    BY <1>1 DEF TypeInv
  <2>. QED  BY <2>1, <2>2, <2>3 DEF TypeInv
<1> HIDE DEF n
<1>5. TakenInv'
  BY <1>1, <1>2, <1>3 DEF TakenInv
<1>6. EndsInv' /\ CreatedInv'
  BY <1>1 DEF EndsInv, CreatedInv
<1>7. \A node : Abbreviated(node)' = Abbreviated(node) \cup (IF Dict!Prefix(node, Word) THEN {n} ELSE {})
  <2> SUFFICES ASSUME NEW node
               PROVE  Abbreviated(node)' = Abbreviated(node) \cup (IF Dict!Prefix(node, Word) THEN {n} ELSE {})
    OBVIOUS
  <2>1. Abbreviated(node)' = {k \in 1..n : Dict!Prefix(node, candidates[k])}
    BY <1>1 DEF Abbreviated
  <2>. QED  BY <1>2, <1>3, <2>1 DEF Abbreviated
<1>8. \A node \in Words : /\ Len(node) \in Nat
                          /\ Dict!Prefix(node, Word) => Len(node) <= pos
                          /\ Dict!Prefix(root, node)
  BY <1>2, WordFacts DEF Dict!Prefix
<1>9. NodesInv'
  <2>1. \A node : Reached(node)' <=> node = root
    BY <1>1 DEF Reached
  <2>2. ASSUME NEW node \in Words
        PROVE  node \in DOMAIN ids <=> node = root \/ Abbreviated(node)' # {}
    <3>1. node \in DOMAIN ids <=> Reached(node) \/ Abbreviated(node) # {}
      BY <1>1 DEF NodesInv
    <3>2. Reached(node) <=> node = root \/ Dict!Prefix(node, Word)
      BY <1>2, <1>8 DEF Reached
    <3>3. Abbreviated(node)' # {} <=> Abbreviated(node) # {} \/ Dict!Prefix(node, Word)
      BY <1>7
    <3>. QED  BY <3>1, <3>2, <3>3
  <2>. QED  BY <1>1, <2>1, <2>2 DEF NodesInv
<1>10. IdsInv'
  <2> SUFFICES ASSUME NEW node \in DOMAIN ids, node # root PROVE HasId(node)'
    BY <1>1 DEF IdsInv
  <2>1. node \in Words /\ HasId(node) /\ ~ Passed(node)' /\ ids'[node] = ids[node]
    BY <1>1 DEF IdsInv, NodesInv, Passed
  <2>2. \A k \in Abbreviated(node) : k \in 1..max_id
    BY DEF Abbreviated
  <2>3. CASE Dict!Prefix(node, Word)
    <3>1. Abbreviated(node)' = Abbreviated(node) \cup {n}
      BY <1>7, <2>3
    <3>2. CASE Abbreviated(node) = {}
      <4>1. ids'[node] = n - 1 /\ Abbreviated(node)' = {n}
        BY <1>3, <2>1, <3>1, <3>2 DEF HasId, n
      <4>2. \A k : Abbreviated(node)' = {k} => k = n
        BY <4>1
      <4>. QED  BY <2>1, <4>1, <4>2 DEF HasId
    <3>3. CASE Abbreviated(node) # {}
      <4>1. \A k : Abbreviated(node)' # {k}
        BY <1>3, <2>2, <3>1, <3>3
      <4>2. Len(node) < pos
        <5>1. node # Word
          BY <1>2, <3>3
        <5>. QED  BY <1>2, <1>8, <2>1, <2>3, <5>1, SameLength, WordFacts
      <4>3. ids[node] = ambiguous
        BY <1>2, <2>1, <2>3, <3>3, <4>2 DEF HasId, Passed
      <4>. QED  BY <2>1, <3>1, <4>1, <4>3 DEF HasId
    <3>. QED  BY <3>2, <3>3
  <2>4. CASE ~ Dict!Prefix(node, Word)
    <3>1. Abbreviated(node)' = Abbreviated(node) /\ ~ Passed(node)
      BY <1>7, <2>4 DEF Passed
    <3>2. Abbreviated(node) # {}
      BY <1>1, <2>1, <2>4 DEF NodesInv, Reached
    <3>. QED  BY <1>1, <2>1, <2>2, <3>1, <3>2 DEF HasId
  <2>. QED  BY <2>3, <2>4
<1>. QED  BY <1>4, <1>5, <1>6, <1>9, <1>10 DEF IInv

LEMMA NextStep == IInv /\ [Next]_vars => IInv'
<1> SUFFICES ASSUME IInv, [Next]_vars PROVE IInv'
    OBVIOUS
<1>1. ASSUME UNCHANGED <<candidates, max_id, pos, created, ids>>,
             pc' \in {pc, "threw"} \/ (pc' = "built" /\ max_id = Len(candidates))
      PROVE  IInv'
  <2>1. TypeInv'
    BY <1>1 DEF IInv, TypeInv, Word
  <2>2. /\ Word' = Word /\ Current' = Current
        /\ \A node : Abbreviated(node)' = Abbreviated(node)
    BY <1>1 DEF Word, Current, Abbreviated
  <2>3. \A node : (Reached(node)' <=> Reached(node)) /\ (Passed(node)' <=> Passed(node))
    BY <1>1, <2>2 DEF Reached, Passed
  <2>4. \A node : HasId(node) => HasId(node)'
    BY <1>1, <2>2, <2>3 DEF HasId
  <2>5. TakenInv' /\ EndsInv' /\ CreatedInv'
    BY <1>1, <2>2 DEF IInv, TakenInv, EndsInv, CreatedInv
  <2>6. NodesInv'
    BY <1>1, <2>2, <2>3 DEF IInv, NodesInv
  <2>7. IdsInv'
    BY <1>1, <2>4 DEF IInv, IdsInv
  <2>. QED  BY <2>1, <2>5, <2>6, <2>7 DEF IInv
<1>2. CASE InsertThrows \/ EndThrows \/ Built \/ UNCHANGED vars
  BY <1>1, <1>2 DEF InsertThrows, EndThrows, Throw, Built, vars
<1>. QED  BY <1>2, FollowStep, CreateStep, EndCandidateStep DEF Next

LEMMA Inductive == Spec => []IInv
  BY InitStep, NextStep, PTL DEF Spec

-----------------------------------------------------------------------------
(***************************************************************************)
(* What follows from the invariant.                                        *)
(***************************************************************************)

\* Type correctness of the tree: every node is a word, and its id that of a candidate
\* or ambiguous.
THEOREM TypeCorrect == Spec => []TypeOK
<1>1. IInv => TypeOK
  <2> SUFFICES ASSUME IInv PROVE TypeOK
    OBVIOUS
  <2>1. TypeInv /\ NodesInv /\ IdsInv
    BY DEF IInv
  <2>2. /\ candidates \in Seq(Seq(Chars)) /\ max_id \in Nat /\ Len(candidates) \in Nat
        /\ max_id < Len(candidates) => Word \in Words /\ Len(Word) \in Nat
    BY <2>1, TypeFacts DEF Words
  <2>3. /\ pc \in {"insert", "threw", "built"} /\ max_id \in 0..Len(candidates)
        /\ pos \in Nat /\ created \in BOOLEAN
    BY <2>1 DEF TypeInv
  <2>4. pos > 0 => max_id < Len(candidates) /\ pos <= Len(Word)
    BY <2>1 DEF TypeInv
  <2>5. max_id < Len(candidates) => pos \in 0..Len(Word)
    BY <2>2, <2>3, <2>4
  <2>6. root \in DOMAIN ids
    BY <2>1, EmptySeq DEF NodesInv, Reached, Words, root
  <2>7. ASSUME NEW node \in DOMAIN ids
        PROVE  node \in Seq(Chars) /\ (ids[node] = ambiguous \/ ids[node] \in 0..max_id)
    <3>1. node \in Seq(Chars) /\ (node = root \/ HasId(node))
      BY <2>1 DEF NodesInv, IdsInv, Words
    <3>2. \A k \in Abbreviated(node) : k \in 1..max_id
      BY DEF Abbreviated
    <3>3. CASE node = root
      BY <2>1, <3>1, <3>3 DEF IdsInv
    <3>4. CASE node # root /\ Abbreviated(node) = {}
      BY <2>2, <3>1, <3>4 DEF HasId
    <3>5. CASE node # root /\ \E k : Abbreviated(node) = {k} /\ ~ Passed(node)
      <4>1. PICK k : Abbreviated(node) = {k} /\ ~ Passed(node)
        BY <3>5
      <4>2. k \in 1..max_id
        BY <3>2, <4>1
      <4>3. ids[node] = k - 1
        BY <3>1, <3>5, <4>1, <4>2 DEF HasId
      <4>. QED  BY <2>2, <3>1, <4>2, <4>3
    <3>6. CASE node # root /\ Abbreviated(node) # {} /\ (Passed(node) \/ \A k : Abbreviated(node) # {k})
      BY <3>1, <3>6 DEF HasId
    <3>. QED  BY <3>3, <3>4, <3>5, <3>6
  <2>. QED  BY <2>2, <2>3, <2>5, <2>6, <2>7 DEF TypeOK
<1>. QED  BY <1>1, Inductive, PTL

LEMMA MinFacts ==
  ASSUME NEW S \in SUBSET Nat, S # {}
  PROVE  Min(S) \in S
  BY LeastNatural DEF Min

\* A set has at most one element when it has none or one.
LEMMA AtMostOne ==
  ASSUME NEW S, IsFiniteSet(S)
  PROVE  Cardinality(S) <= 1 <=> S = {} \/ \E k : S = {k}
<1>1. Cardinality(S) \in Nat /\ (Cardinality(S) = 0 <=> S = {})
  BY FS_CardinalityType, FS_EmptySet
<1>2. Cardinality(S) = 1 <=> \E k : S = {k}
  BY FS_Singleton
<1>. QED  BY <1>1, <1>2

LEMMA AbbreviatedIsFinite ==
  ASSUME TypeInv, NEW text
  PROVE  IsFiniteSet(Abbreviated(text))
<1>1. max_id \in Nat /\ IsFiniteSet(1..max_id)
  BY TypeFacts, FS_Interval
<1>2. Abbreviated(text) \subseteq 1..max_id
  BY DEF Abbreviated
<1>. QED  BY <1>1, <1>2, FS_Subset

\* Between two insertions a node tells which candidates go through it.
LEMMA NodeAtRest ==
  ASSUME IInv, pos = 0, NEW node \in Words, node # root
  PROVE  /\ node \in DOMAIN ids <=> Abbreviated(node) # {}
         /\ \A k : Abbreviated(node) = {k} => ids[node] = k - 1 /\ ids[node] # ambiguous
         /\ node \in DOMAIN ids /\ (\A k : Abbreviated(node) # {k}) => ids[node] = ambiguous
<1>1. /\ NodesInv /\ IdsInv /\ TypeInv /\ ~ Passed(node) /\ ~ Reached(node)
  BY DEF IInv, Passed, Reached
<1>2. node \in DOMAIN ids <=> Abbreviated(node) # {}
  BY <1>1 DEF NodesInv
<1>3. ASSUME NEW k, Abbreviated(node) = {k} PROVE ids[node] = k - 1 /\ ids[node] # ambiguous
  <2>1. k \in 1..max_id /\ max_id \in Nat
    BY <1>1, <1>3, TypeFacts DEF Abbreviated
  <2>2. ids[node] = k - 1
    BY <1>1, <1>2, <1>3, <2>1 DEF IdsInv, HasId
  <2>. QED  BY <2>1, <2>2 DEF ambiguous
<1>4. node \in DOMAIN ids /\ (\A k : Abbreviated(node) # {k}) => ids[node] = ambiguous
  BY <1>1, <1>2 DEF IdsInv, HasId
<1>. QED  BY <1>2, <1>3, <1>4

LEMMA FindIsUnique ==
  ASSUME IInv, pos = 0, NEW text \in Words
  PROVE  find(text) = Unique(text)
<1> DEFINE Stops == {n \in 1..Len(text) : Cut(text, n) \in DOMAIN ids => ids[Cut(text, n)] # ambiguous}
           Decisive == {n \in 1..Len(text) : Cardinality(Abbreviated(Cut(text, n))) <= 1}
           node == Cut(text, Min(Decisive))
<1>1. Len(text) \in Nat
  BY WordFacts
<1>2. ASSUME NEW n \in 1..Len(text) PROVE Cut(text, n) \in Words /\ Cut(text, n) # root
  BY <1>1, CutFacts, WordFacts
<1>3. ASSUME NEW n \in 1..Len(text)
      PROVE  (Cut(text, n) \in DOMAIN ids => ids[Cut(text, n)] # ambiguous)
               <=> Cardinality(Abbreviated(Cut(text, n))) <= 1
  <2>1. IsFiniteSet(Abbreviated(Cut(text, n)))
    BY AbbreviatedIsFinite DEF IInv
  <2>2. Cardinality(Abbreviated(Cut(text, n))) <= 1
          <=> Abbreviated(Cut(text, n)) = {} \/ \E k : Abbreviated(Cut(text, n)) = {k}
    BY <2>1, AtMostOne
  <2>. QED  BY <1>2, <2>2, NodeAtRest
<1>4. Stops = Decisive
  BY <1>3
<1>5. find(text) = IF Stops = {} \/ Cut(text, Min(Stops)) \notin DOMAIN ids
                   THEN NoMatch ELSE ids[Cut(text, Min(Stops))]
  BY DEF find, Cut
<1>6. Unique(text) = IF Decisive = {} \/ Abbreviated(node) = {}
                     THEN NoMatch ELSE (CHOOSE k \in Abbreviated(node) : TRUE) - 1
  BY DEF Unique, Cut
<1>7. CASE Decisive = {}
  BY <1>4, <1>5, <1>6, <1>7
<1>8. CASE Decisive # {}
  <2>1. Min(Decisive) \in Decisive
    <3>1. Decisive \in SUBSET Nat
      OBVIOUS
    <3> HIDE DEF Decisive
    <3>. QED  BY <1>8, <3>1, MinFacts
  <2>2. node \in Words /\ node # root /\ Cardinality(Abbreviated(node)) <= 1
    BY <1>2, <2>1
  <2>3. IsFiniteSet(Abbreviated(node))
    BY AbbreviatedIsFinite DEF IInv
  <2> HIDE DEF node, Decisive, Stops
  <2>4. Abbreviated(node) = {} \/ \E k : Abbreviated(node) = {k}
    BY <2>2, <2>3, AtMostOne
  <2>5. find(text) = IF node \notin DOMAIN ids THEN NoMatch ELSE ids[node]
    BY <1>4, <1>5, <1>8 DEF node
  <2>6. Unique(text) = IF Abbreviated(node) = {} THEN NoMatch
                       ELSE (CHOOSE k \in Abbreviated(node) : TRUE) - 1
    BY <1>6, <1>8
  <2>7. CASE Abbreviated(node) = {}
    BY <2>2, <2>5, <2>6, <2>7, NodeAtRest
  <2>8. CASE \E k : Abbreviated(node) = {k}
    <3>1. PICK k : Abbreviated(node) = {k}
      BY <2>8
    <3>2. (CHOOSE j \in Abbreviated(node) : TRUE) = k
      BY <3>1
    <3>3. node \in DOMAIN ids /\ ids[node] = k - 1
      BY <2>2, <3>1, NodeAtRest
    <3>. QED  BY <2>5, <2>6, <3>1, <3>2, <3>3
  <2>. QED  BY <2>4, <2>7, <2>8
<1>. QED  BY <1>7, <1>8

\* Between two insertions find answers every text of characters as the reference
\* does: a text is found exactly when it names one candidate, and goes astray neither
\* at an ambiguous node nor behind a decided one.
THEOREM FindsUniquePrefix == Spec => []FindIsUniquePrefix
<1>1. IInv => FindIsUniquePrefix
  <2> SUFFICES ASSUME IInv, pos = 0, NEW text \in Texts
               PROVE  /\ find(text) = Unique(text)
                      /\ \A ch \in Chars : find(Append(text, ch)) = Unique(Append(text, ch))
    BY DEF FindIsUniquePrefix
  <2>1. text \in Words
    <3>1. PICK k \in DOMAIN candidates : \E n \in 0..Len(candidates[k]) : text = SubSeq(candidates[k], 1, n)
      BY DEF Texts
    <3>2. PICK n \in 0..Len(candidates[k]) : text = SubSeq(candidates[k], 1, n)
      BY <3>1
    <3>3. candidates[k] \in Words
      BY TypeFacts DEF IInv
    <3>. QED  BY <3>2, <3>3, CutFacts DEF Cut
  <2>2. ASSUME NEW ch \in Chars PROVE Append(text, ch) \in Words
    BY <2>1 DEF Words
  <2>. QED  BY <2>1, <2>2, FindIsUnique
<1>. QED  BY <1>1, Inductive, PTL

\* Where insert throws, the current candidate clashes with one that was taken.
LEMMA LeafIsClash ==
  ASSUME IInv, InsertThrows
  PROVE  \E k \in 1..max_id : Dict!Prefix(candidates[k], Word)
<1>1. /\ TypeInv /\ NodesInv /\ CreatedInv /\ AtCharacter /\ ~ has_any_child(Current)
      /\ ~ created /\ Current # root
  BY DEF IInv, InsertThrows, AtLeaf
<1>2. /\ Word \in Words /\ pos \in Nat /\ pos > 0
      /\ Current \in Words /\ Len(Current) = pos /\ Dict!Prefix(Current, Word)
  BY <1>1, CurrentFacts
<1>3. PICK k \in 1..max_id : Dict!Prefix(Current, candidates[k])
  BY <1>1, <1>2 DEF CreatedInv, Abbreviated
<1>4. candidates[k] \in Words /\ Len(candidates[k]) \in Nat /\ pos <= Len(candidates[k])
  BY <1>1, <1>2, <1>3, TypeFacts, WordFacts DEF Dict!Prefix
<1>5. Len(candidates[k]) = pos
  <2> SUFFICES ASSUME pos < Len(candidates[k]) PROVE FALSE
    BY <1>2, <1>4
  <2> DEFINE other == Cut(candidates[k], pos + 1)
  <2>1. /\ other \in Words /\ Len(other) = pos + 1 /\ Dict!Prefix(other, candidates[k])
    BY <1>2, <1>4, CutFacts
  <2>2. other \in DOMAIN ids
    BY <1>1, <2>1 DEF NodesInv, Abbreviated
  <2>3. Dict!Prefix(Current, other)
    BY <1>2, <1>3, <1>4, <2>1, PrefixesNest
  <2> HIDE DEF other
  <2>4. Cut(other, Len(Current)) = Current
    BY <1>2, <2>1, <2>3, CutIsPrefix
  <2>. QED  BY <1>1, <1>2, <2>1, <2>2, <2>4 DEF has_any_child, Cut
<1>6. candidates[k] = Current
  BY <1>2, <1>3, <1>4, <1>5, SameLength, WordFacts
<1>. QED  BY <1>2, <1>6

\* Each step of the tree is one of the dictionary, or leaves it as it is.
LEMMA StepIsDictionaryStep ==
  ASSUME IInv, [Next]_vars
  PROVE  [Dict!Next]_(Dict!dvars)
<1>1. /\ TypeInv /\ TakenInv
  BY DEF IInv
<1>2. CASE EndCandidate
  <2>1. /\ pc = "insert" /\ max_id < Len(candidates) /\ max_id' = max_id + 1
        /\ UNCHANGED <<candidates, pc>>
    BY <1>2 DEF EndCandidate, AtEnd, Inserting
  <2>2. Dict!Fits(candidates[max_id + 1])
    BY <1>2, EndFacts DEF EndCandidate, Dict!Fits, Dict!Clash, root
  <2>. QED  BY <2>1, <2>2 DEF Dict!Next, Dict!Take
<1>3. CASE InsertThrows \/ EndThrows
  <2>1. /\ pc = "insert" /\ max_id < Len(candidates) /\ pc' = "threw"
        /\ UNCHANGED <<candidates, max_id>>
    BY <1>3 DEF InsertThrows, EndThrows, Throw, AtCharacter, AtEnd, Inserting
  <2>2. ~ Dict!Fits(Word)
    <3>1. CASE InsertThrows
      BY <3>1, LeafIsClash DEF Dict!Fits, Dict!Clash
    <3>2. CASE EndThrows
      <4>1. /\ pos = Len(Word) /\ ~ created /\ Word \in Words /\ max_id < Len(candidates)
        BY <1>1, <3>2, TypeFacts DEF EndThrows, AtEnd, Inserting
      <4>2. Word = <<>> \/ Abbreviated(Word) # {}
        <5>1. CASE pos > 0
          <6>1. Current = Word
            BY <4>1, SubSeqFull DEF Current, Words
          <6>. QED  BY <4>1, <5>1, <6>1 DEF IInv, CreatedInv
        <5>2. CASE ~ pos > 0
          BY <1>1, <4>1, <5>2, WordFacts DEF TypeInv, root
        <5>. QED  BY <5>1, <5>2
      <4>. QED  BY <4>2 DEF Abbreviated, Dict!Fits, Dict!Clash
    <3>. QED  BY <1>3, <3>1, <3>2
  <2>3. ~ Dict!Fits(candidates[max_id + 1])
    BY <2>2 DEF Word
  <2>. QED  BY <2>1, <2>3 DEF Dict!Next, Dict!Refuse
<1>4. CASE Follow \/ Create \/ Built \/ UNCHANGED vars
  <2>1. UNCHANGED <<candidates, max_id>> /\ (pc' = "threw" <=> pc = "threw")
    BY <1>4 DEF Follow, Create, Built, vars
  <2>. QED  BY <2>1 DEF Dict!dvars
<1>. QED  BY <1>2, <1>3, <1>4 DEF Next

\* The tree refuses exactly the first candidate that is empty or clashes with one
\* before it, and takes all others: the steps of ImplementsDictionary, without its
\* fairness.
THEOREM RefinesDictionary == Spec => Dict!Steps
<1>1. Init => Dict!Init
  BY DEF Init, Dict!Init
<1>. QED  BY <1>1, Inductive, StepIsDictionaryStep, PTL DEF Spec, Dict!Steps

=============================================================================
