-------------------------- MODULE ModuleGraphProofs --------------------------
(***************************************************************************)
(* Theorems about ModuleGraph for any number of ranks and any graphs.      *)
(*                                                                         *)
(* print_graph meets the modules of a configuration in a fixed order: at   *)
(* entry e its module first (c = 0), then child after child (c = 1, ...).  *)
(* The number of a module only depends on that order, so every rank gives  *)
(* the same, and the lines of a rank are those of the places it has passed.*)
(***************************************************************************)
EXTENDS ModuleGraph, Integers, DataFacts

-----------------------------------------------------------------------------
(***************************************************************************)
(* The order in which modules are met, and their numbers.                  *)
(***************************************************************************)
Degree(g, e) == IF g.entries[e].kind = "children" THEN Len(g.entries[e].children) ELSE 0

Met(g, e, c) == IF c = 0 THEN g.entries[e].module ELSE g.entries[e].children[c]

\* Meeting c of entry e is not after meeting d of entry a.
UpTo(e, c, a, d) == e < a \/ (e = a /\ c <= d)

MetBy(g, a, d) ==
  UNION {{Met(g, e, c) : c \in {b \in 0..Degree(g, e) : UpTo(e, b, a, d)}} : e \in DOMAIN g.entries}

AllMet(g) == UNION {{Met(g, e, c) : c \in 0..Degree(g, e)} : e \in DOMAIN g.entries}

\* Module n is met before module m is met for the first time.
Precedes(g, n, m) ==
  \E e \in DOMAIN g.entries : \E c \in 0..Degree(g, e) :
    /\ Met(g, e, c) = n
    /\ \A f \in DOMAIN g.entries : \A d \in 0..Degree(g, f) :
         Met(g, f, d) = m => UpTo(e, c, f, d - 1)

Number(g, m) == Cardinality({n \in AllMet(g) : Precedes(g, n, m)})

\* The map of a rank that has met the modules up to meeting d of entry a.
Numbered(g, known, a, d) ==
  /\ DOMAIN known = MetBy(g, a, d)
  /\ IsFiniteSet(DOMAIN known)
  /\ \A m \in DOMAIN known :
       known[m] = Number(g, m) /\ known[m] \in 0..(Cardinality(DOMAIN known) - 1)
  /\ \A m, n \in DOMAIN known : known[m] = known[n] => m = n

LEMMA GraphFacts ==
  ASSUME NEW g, IsGraph(g)
  PROVE  /\ Len(g.entries) \in Nat /\ DOMAIN g.entries = 1..Len(g.entries)
         /\ \A e \in DOMAIN g.entries :
              /\ Degree(g, e) \in Nat
              /\ g.entries[e].kind \in {"type", "children"}
              /\ g.entries[e].kind = "type" => Degree(g, e) = 0
<1>1. ASSUME NEW e \in DOMAIN g.entries
      PROVE  /\ Degree(g, e) \in Nat
             /\ g.entries[e].kind \in {"type", "children"}
             /\ g.entries[e].kind = "type" => Degree(g, e) = 0
  BY DEF IsGraph, IsList, Degree
<1>. QED  BY <1>1 DEF IsGraph, IsList

LEMMA MetByFacts ==
  ASSUME NEW g, NEW a, NEW d
  PROVE  \A m : m \in MetBy(g, a, d) <=>
                  \E e \in DOMAIN g.entries : \E c \in 0..Degree(g, e) :
                    UpTo(e, c, a, d) /\ m = Met(g, e, c)
BY DEF MetBy

\* What precedes a module that was not met yet is what was met so far.
LEMMA NumberOfNew ==
  ASSUME NEW g, IsGraph(g), NEW e \in DOMAIN g.entries, NEW c \in 0..Degree(g, e),
         Met(g, e, c) \notin MetBy(g, e, c - 1)
  PROVE  Number(g, Met(g, e, c)) = Cardinality(MetBy(g, e, c - 1))
<1> DEFINE m == Met(g, e, c)
           Mets == MetBy(g, e, c - 1)
           Ahead == {n \in AllMet(g) : Precedes(g, n, m)}
<1>1. /\ e \in Nat /\ c \in Nat
      /\ \A f \in DOMAIN g.entries : f \in Nat /\ Degree(g, f) \in Nat
  BY GraphFacts
<1>2. \A n : n \in Mets <=> \E f \in DOMAIN g.entries : \E b \in 0..Degree(g, f) :
                              UpTo(f, b, e, c - 1) /\ n = Met(g, f, b)
  BY MetByFacts
<1>3. ASSUME NEW n \in Ahead PROVE n \in Mets
  <2>1. PICK f \in DOMAIN g.entries : \E b \in 0..Degree(g, f) :
          Met(g, f, b) = n /\ UpTo(f, b, e, c - 1)
    BY <1>3 DEF Precedes
  <2>. QED  BY <1>2, <2>1
<1>4. ASSUME NEW n \in Mets PROVE n \in Ahead
  <2>1. PICK f \in DOMAIN g.entries : \E b \in 0..Degree(g, f) :
          UpTo(f, b, e, c - 1) /\ n = Met(g, f, b)
    BY <1>2, <1>4
  <2>2. PICK b \in 0..Degree(g, f) : UpTo(f, b, e, c - 1) /\ n = Met(g, f, b)
    BY <2>1
  <2>3. \A h \in DOMAIN g.entries : \A d \in 0..Degree(g, h) :
          Met(g, h, d) = m => ~ UpTo(h, d, e, c - 1)
    BY <1>2
  <2>4. \A h \in DOMAIN g.entries : \A d \in 0..Degree(g, h) :
          ~ UpTo(h, d, e, c - 1) => UpTo(f, b, h, d - 1)
    BY <1>1, <2>2 DEF UpTo
  <2>5. Precedes(g, n, m)
    BY <2>3, <2>4, <2>2 DEF Precedes
  <2>6. n \in AllMet(g)
    BY <2>2 DEF AllMet
  <2>. QED  BY <2>5, <2>6
<1>5. Ahead = Mets
  BY <1>3, <1>4
<1>6. Number(g, m) = Cardinality(Ahead)
  BY DEF Number
<1> HIDE DEF Ahead, Mets, m
<1>7. Number(g, m) = Cardinality(Mets)
  BY <1>5, <1>6
<1>. QED  BY <1>7 DEF m, Mets

\* to_id of the next module that is met.
LEMMA Meet ==
  ASSUME NEW g, IsGraph(g), NEW e \in DOMAIN g.entries, NEW c \in 0..Degree(g, e),
         NEW r, NEW known, Numbered(g, known, e, c - 1)
  PROVE  /\ Numbered(g, ToId(r, known, Met(g, e, c)), e, c)
         /\ Met(g, e, c) \in DOMAIN ToId(r, known, Met(g, e, c))
<1> DEFINE m == Met(g, e, c)
           new == ToId(r, known, m)
<1>1. /\ e \in Nat /\ c \in Nat
      /\ \A f \in DOMAIN g.entries : f \in Nat /\ Degree(g, f) \in Nat
  BY GraphFacts
<1>2. MetBy(g, e, c) = MetBy(g, e, c - 1) \cup {m}
  <2>1. \A f \in DOMAIN g.entries : \A b \in 0..Degree(g, f) :
          UpTo(f, b, e, c) <=> UpTo(f, b, e, c - 1) \/ (f = e /\ b = c)
    BY <1>1 DEF UpTo
  <2>2. \A n : n \in MetBy(g, e, c) <=> n \in MetBy(g, e, c - 1) \/ n = m
    BY <2>1, MetByFacts
  <2>. QED  BY <2>2
<1>3. /\ DOMAIN known = MetBy(g, e, c - 1) /\ IsFiniteSet(DOMAIN known)
      /\ \A k \in DOMAIN known :
           known[k] = Number(g, k) /\ known[k] \in 0..(Cardinality(DOMAIN known) - 1)
      /\ \A k, n \in DOMAIN known : known[k] = known[n] => k = n
  BY DEF Numbered
<1> HIDE DEF m
<1>4. CASE m \in DOMAIN known
  <2>1. new = known
    BY <1>4 DEF ToId
  <2>2. MetBy(g, e, c) = DOMAIN known
    BY <1>2, <1>3, <1>4
  <2>. QED  BY <1>3, <1>4, <2>1, <2>2 DEF Numbered, m
<1>5. CASE m \notin DOMAIN known
  <2>1. /\ DOMAIN new = DOMAIN known \cup {m}
        /\ new[m] = Cardinality(DOMAIN known)
        /\ \A k \in DOMAIN known : new[k] = known[k]
    BY <1>5 DEF ToId
  <2>2. /\ IsFiniteSet(DOMAIN known \cup {m})
        /\ Cardinality(DOMAIN known \cup {m}) = Cardinality(DOMAIN known) + 1
        /\ Cardinality(DOMAIN known) \in Nat
    BY <1>3, <1>5, FS_AddElement, FS_CardinalityType
  <2>3. Number(g, m) = Cardinality(DOMAIN known)
    BY <1>3, <1>5, NumberOfNew DEF m
  <2>4. DOMAIN new = MetBy(g, e, c) /\ IsFiniteSet(DOMAIN new) /\ m \in DOMAIN new
    BY <1>2, <1>3, <2>1, <2>2
  <2>5. \A k \in DOMAIN new :
          new[k] = Number(g, k) /\ new[k] \in 0..(Cardinality(DOMAIN new) - 1)
    <3>1. Cardinality(DOMAIN new) = Cardinality(DOMAIN known) + 1
      BY <2>1, <2>2
    <3>. QED  BY <1>3, <2>1, <2>2, <2>3, <3>1
  <2>6. \A k, n \in DOMAIN new : new[k] = new[n] => k = n
    BY <1>3, <2>1, <2>2
  <2> HIDE DEF new
  <2>7. Numbered(g, new, e, c)
    BY <2>4, <2>5, <2>6 DEF Numbered
  <2>. QED  BY <2>4, <2>7 DEF new, m
<1>. QED  BY <1>4, <1>5

\* to_id of the module of the entry again.
LEMMA MeetAgain ==
  ASSUME NEW g, IsGraph(g), NEW e \in DOMAIN g.entries, NEW c \in 0..Degree(g, e),
         NEW r, NEW known, Numbered(g, known, e, c)
  PROVE  /\ ToId(r, known, Met(g, e, 0)) = known
         /\ Met(g, e, 0) \in DOMAIN known
<1>1. Degree(g, e) \in Nat
  BY GraphFacts
<1>2. 0 \in 0..Degree(g, e) /\ UpTo(e, 0, e, c)
  BY <1>1 DEF UpTo
<1>3. Met(g, e, 0) \in MetBy(g, e, c)
  BY <1>2, MetByFacts
<1>. QED  BY <1>3 DEF Numbered, ToId

\* At the end of an entry the next one begins, and before the first nothing was met.
LEMMA Entries ==
  ASSUME NEW g, IsGraph(g)
  PROVE  /\ \A e \in DOMAIN g.entries : MetBy(g, e, Degree(g, e)) = MetBy(g, e + 1, -1)
         /\ MetBy(g, 1, -1) = {}
<1>1. \A f \in DOMAIN g.entries : f \in Nat \ {0} /\ Degree(g, f) \in Nat
  BY GraphFacts
<1>2. ASSUME NEW e \in DOMAIN g.entries PROVE MetBy(g, e, Degree(g, e)) = MetBy(g, e + 1, -1)
  <2>1. \A f \in DOMAIN g.entries : \A b \in 0..Degree(g, f) :
          UpTo(f, b, e, Degree(g, e)) <=> UpTo(f, b, e + 1, -1)
    BY <1>1 DEF UpTo
  <2>2. \A n : n \in MetBy(g, e, Degree(g, e)) <=> n \in MetBy(g, e + 1, -1)
    BY <2>1, MetByFacts
  <2>. QED  BY <2>2
<1>3. MetBy(g, 1, -1) = {}
  <2>1. \A f \in DOMAIN g.entries : \A b \in 0..Degree(g, f) : ~ UpTo(f, b, 1, -1)
    BY <1>1 DEF UpTo
  <2>2. \A n : n \notin MetBy(g, 1, -1)
    BY <2>1, MetByFacts
  <2>. QED  BY <2>2
<1>. QED  BY <1>2, <1>3

\* The maps of two ranks agree, and neither gives a number twice.
LEMMA MapsAgree ==
  ASSUME NEW g, IsGraph(g), NEW k1, NEW k2, NEW a1 \in Nat, NEW d1 \in Int, NEW a2 \in Nat, NEW d2 \in Int,
         Numbered(g, k1, a1, d1), Numbered(g, k2, a2, d2),
         NEW m \in DOMAIN k1, NEW n \in DOMAIN k2
  PROVE  k1[m] = k2[n] <=> m = n
<1>1. \A f \in DOMAIN g.entries : f \in Nat /\ Degree(g, f) \in Nat
  BY GraphFacts
<1>2. MetBy(g, a1, d1) \subseteq MetBy(g, a2, d2) \/ MetBy(g, a2, d2) \subseteq MetBy(g, a1, d1)
  <2>1. CASE a1 < a2 \/ (a1 = a2 /\ d1 <= d2)
    <3>1. \A f \in DOMAIN g.entries : \A b \in 0..Degree(g, f) : UpTo(f, b, a1, d1) => UpTo(f, b, a2, d2)
      BY <1>1, <2>1 DEF UpTo
    <3>2. \A x : x \in MetBy(g, a1, d1) => x \in MetBy(g, a2, d2)
      BY <3>1, MetByFacts
    <3>. QED  BY <3>2
  <2>2. CASE ~ (a1 < a2 \/ (a1 = a2 /\ d1 <= d2))
    <3>1. \A f \in DOMAIN g.entries : \A b \in 0..Degree(g, f) : UpTo(f, b, a2, d2) => UpTo(f, b, a1, d1)
      BY <1>1, <2>2 DEF UpTo
    <3>2. \A x : x \in MetBy(g, a2, d2) => x \in MetBy(g, a1, d1)
      BY <3>1, MetByFacts
    <3>. QED  BY <3>2
  <2>. QED  BY <2>1, <2>2
<1>3. /\ k1[m] = Number(g, m) /\ k2[n] = Number(g, n)
      /\ \A x \in DOMAIN k1 : k1[x] = Number(g, x)
      /\ \A x \in DOMAIN k2 : k2[x] = Number(g, x)
      /\ \A x, y \in DOMAIN k1 : k1[x] = k1[y] => x = y
      /\ \A x, y \in DOMAIN k2 : k2[x] = k2[y] => x = y
      /\ DOMAIN k1 = MetBy(g, a1, d1) /\ DOMAIN k2 = MetBy(g, a2, d2)
  BY DEF Numbered
<1>. QED  BY <1>2, <1>3

-----------------------------------------------------------------------------
(***************************************************************************)
(* The lines of a rank.  A type has one place, and a module with children  *)
(* has one for each child.                                                 *)
(***************************************************************************)
Places(g, e) == IF g.entries[e].kind = "type" THEN {0} ELSE 1..Degree(g, e)

LineAt(g, e, c) ==
  IF g.entries[e].kind = "type"
  THEN [kind |-> "node", id |-> Number(g, Met(g, e, 0)), module |-> Met(g, e, 0),
        described |-> Met(g, e, 0) \in g.described]
  ELSE [kind |-> "edge", from |-> Number(g, Met(g, e, 0)), to |-> Number(g, Met(g, e, c))]

\* lines is a function from the positions in the output that are the rank's to lines.
BodyOf(lines) == {k \in DOMAIN lines : lines[k].kind \in {"node", "edge"}}

\* The body is, each once, the lines of the places up to place d of entry a.
BodyHolds(g, a, d, lines) ==
  /\ \A k \in BodyOf(lines) :
       \E e \in DOMAIN g.entries : \E c \in Places(g, e) :
         UpTo(e, c, a, d) /\ lines[k] = LineAt(g, e, c)
  /\ \A e \in DOMAIN g.entries : \A c \in Places(g, e) :
       UpTo(e, c, a, d) => \E k \in BodyOf(lines) : lines[k] = LineAt(g, e, c)
  /\ \A k, l \in BodyOf(lines) : lines[k] = lines[l] => k = l

\* The line that opens the graph is the first, and the one that closes it the last.
FrameHolds(ends, closed, lines) ==
  /\ \E k \in DOMAIN lines : lines[k].kind = "open"
  /\ \A k \in DOMAIN lines \ BodyOf(lines) :
       \/ lines[k].kind = "open" /\ \A l \in DOMAIN lines : k <= l
       \/ lines[k].kind = "close" /\ ends /\ closed /\ \A l \in DOMAIN lines : l <= k
  /\ ends /\ closed => \E k \in DOMAIN lines : lines[k].kind = "close"

Extend(lines, n, line) == [k \in DOMAIN lines \cup {n} |-> IF k = n THEN line ELSE lines[k]]

LEMMA PlaceFacts ==
  ASSUME NEW g, IsGraph(g), NEW e \in DOMAIN g.entries, NEW c \in Places(g, e)
  PROVE  /\ e \in Nat /\ c \in 0..Degree(g, e) /\ 0 \in 0..Degree(g, e)
         /\ g.entries[e].kind = "type" => c = 0
         /\ g.entries[e].kind # "type" =>
              c \in 1..Degree(g, e) /\ Met(g, e, c) = g.entries[e].children[c]
BY GraphFacts DEF Places, Met

\* No two places have the same line.
LEMMA LinesDiffer ==
  ASSUME NEW g, IsGraph(g), NEW known, NEW a \in Nat, NEW d \in Int, Numbered(g, known, a, d),
         NEW e \in DOMAIN g.entries, NEW c \in Places(g, e), UpTo(e, c, a, d),
         NEW f \in DOMAIN g.entries, NEW b \in Places(g, f), UpTo(f, b, a, d),
         LineAt(g, e, c) = LineAt(g, f, b)
  PROVE  e = f /\ c = b
<1>1. /\ Met(g, e, 0) \in DOMAIN known /\ Met(g, e, c) \in DOMAIN known
      /\ Met(g, f, 0) \in DOMAIN known /\ Met(g, f, b) \in DOMAIN known
  <2>1. /\ c \in 0..Degree(g, e) /\ 0 \in 0..Degree(g, e) /\ UpTo(e, 0, a, d)
        /\ b \in 0..Degree(g, f) /\ 0 \in 0..Degree(g, f) /\ UpTo(f, 0, a, d)
    BY PlaceFacts DEF UpTo
  <2>. QED  BY <2>1, MetByFacts DEF Numbered
<1>2. \A m, n \in DOMAIN known : Number(g, m) = Number(g, n) => m = n
  BY DEF Numbered
<1>3. /\ \A x \in DOMAIN g.entries : g.entries[x].kind \in {"type", "children"}
      /\ \A x, y \in DOMAIN g.entries :
           g.entries[x].module = g.entries[y].module /\ g.entries[x].kind = g.entries[y].kind => x = y
      /\ \A x \in DOMAIN g.entries : g.entries[x].kind = "children" =>
           \A i, j \in 1..Degree(g, x) :
             g.entries[x].children[i] = g.entries[x].children[j] => i = j
  <2>1. \A x \in DOMAIN g.entries : g.entries[x].kind \in {"type", "children"}
    BY GraphFacts
  <2>2. \A x, y \in DOMAIN g.entries :
          g.entries[x].module = g.entries[y].module /\ g.entries[x].kind = g.entries[y].kind => x = y
    BY DEF IsGraph
  <2>3. ASSUME NEW x \in DOMAIN g.entries, g.entries[x].kind = "children",
               NEW i \in 1..Degree(g, x), NEW j \in 1..Degree(g, x),
               g.entries[x].children[i] = g.entries[x].children[j]
        PROVE  i = j
    <3>1. IsList(g.entries[x].children) /\ IsInjective(g.entries[x].children)
      BY <2>3 DEF IsGraph
    <3>2. DOMAIN g.entries[x].children = 1..Degree(g, x)
      BY <2>3, <3>1 DEF IsList, Degree
    <3>. QED  BY <2>3, <3>1, <3>2 DEF IsInjective
  <2>. QED  BY <2>1, <2>2, <2>3
<1>4. (g.entries[e].kind = "type") <=> (g.entries[f].kind = "type")
  <2>1. LineAt(g, e, c).kind = IF g.entries[e].kind = "type" THEN "node" ELSE "edge"
    BY DEF LineAt
  <2>2. LineAt(g, f, b).kind = IF g.entries[f].kind = "type" THEN "node" ELSE "edge"
    BY DEF LineAt
  <2>. QED  BY <2>1, <2>2
<1>5. CASE g.entries[e].kind = "type"
  <2>1. LineAt(g, e, c).module = Met(g, e, 0) /\ LineAt(g, f, b).module = Met(g, f, 0)
    BY <1>4, <1>5 DEF LineAt
  <2>2. e = f
    BY <1>3, <1>4, <1>5, <2>1 DEF Met
  <2>. QED  BY <1>5, <2>2, PlaceFacts
<1>6. CASE g.entries[e].kind # "type"
  <2>1. /\ LineAt(g, e, c).from = Number(g, Met(g, e, 0)) /\ LineAt(g, e, c).to = Number(g, Met(g, e, c))
        /\ LineAt(g, f, b).from = Number(g, Met(g, f, 0)) /\ LineAt(g, f, b).to = Number(g, Met(g, f, b))
    BY <1>4, <1>6 DEF LineAt
  <2>2. Met(g, e, 0) = Met(g, f, 0) /\ Met(g, e, c) = Met(g, f, b)
    BY <1>1, <1>2, <2>1
  <2>3. e = f
    BY <1>3, <1>4, <1>6, <2>2 DEF Met
  <2>4. g.entries[e].children[c] = g.entries[e].children[b] /\ c \in 1..Degree(g, e) /\ b \in 1..Degree(g, e)
    BY <1>6, <2>2, <2>3, PlaceFacts
  <2>. QED  BY <1>3, <1>6, <2>3, <2>4
<1>. QED  BY <1>5, <1>6

LEMMA LineKinds ==
  ASSUME NEW g, NEW e, NEW c
  PROVE  LineAt(g, e, c).kind \in {"node", "edge"}
BY DEF LineAt

\* The line of the next place is added.
LEMMA AddLine ==
  ASSUME NEW g, IsGraph(g), NEW known, NEW e \in DOMAIN g.entries, NEW c \in Places(g, e),
         Numbered(g, known, e, c), NEW a, NEW d, NEW lines, BodyHolds(g, a, d, lines),
         ~ UpTo(e, c, a, d),
         \A f \in DOMAIN g.entries : \A b \in Places(g, f) :
           UpTo(f, b, e, c) <=> UpTo(f, b, a, d) \/ (f = e /\ b = c),
         NEW n, n \notin DOMAIN lines
  PROVE  BodyHolds(g, e, c, Extend(lines, n, LineAt(g, e, c)))
<1> DEFINE line == LineAt(g, e, c)
           new == Extend(lines, n, line)
<1>1. /\ DOMAIN new = DOMAIN lines \cup {n} /\ new[n] = line
      /\ \A k \in DOMAIN lines : new[k] = lines[k]
  BY DEF Extend
<1>2. line.kind \in {"node", "edge"}
  BY LineKinds
<1>3. BodyOf(new) = BodyOf(lines) \cup {n} /\ BodyOf(lines) \subseteq DOMAIN lines
  <2> HIDE DEF new, line
  <2>. QED  BY <1>1, <1>2 DEF BodyOf
<1>4. e \in Nat /\ c \in Int
  BY PlaceFacts
<1>5. ASSUME NEW k \in BodyOf(new)
      PROVE  \E f \in DOMAIN g.entries : \E b \in Places(g, f) :
               UpTo(f, b, e, c) /\ new[k] = LineAt(g, f, b)
  <2>1. CASE k \in BodyOf(lines)
    <3>1. PICK f \in DOMAIN g.entries : \E b \in Places(g, f) : UpTo(f, b, a, d) /\ lines[k] = LineAt(g, f, b)
      BY <2>1 DEF BodyHolds
    <3>. QED  BY <1>1, <1>3, <2>1, <3>1
  <2>2. CASE k = n
    BY <1>1, <1>4, <2>2 DEF UpTo
  <2>. QED  BY <1>3, <1>5, <2>1, <2>2
<1>6. ASSUME NEW f \in DOMAIN g.entries, NEW b \in Places(g, f), UpTo(f, b, e, c)
      PROVE  \E k \in BodyOf(new) : new[k] = LineAt(g, f, b)
  <2>1. CASE UpTo(f, b, a, d)
    <3>1. PICK k \in BodyOf(lines) : lines[k] = LineAt(g, f, b)
      BY <2>1 DEF BodyHolds
    <3>. QED  BY <1>1, <1>3, <3>1
  <2>2. CASE f = e /\ b = c
    BY <1>1, <1>3, <2>2
  <2>. QED  BY <1>6, <2>1, <2>2
<1>7. \A k \in BodyOf(lines) : lines[k] # line
  <2> SUFFICES ASSUME NEW k \in BodyOf(lines), lines[k] = line PROVE FALSE
    OBVIOUS
  <2>1. PICK f \in DOMAIN g.entries : \E b \in Places(g, f) : UpTo(f, b, a, d) /\ lines[k] = LineAt(g, f, b)
    BY DEF BodyHolds
  <2>2. PICK b \in Places(g, f) : UpTo(f, b, a, d) /\ lines[k] = LineAt(g, f, b)
    BY <2>1
  <2>3. UpTo(f, b, e, c) /\ UpTo(e, c, e, c)
    BY <1>4, <2>2 DEF UpTo
  <2>4. LineAt(g, f, b) = LineAt(g, e, c)
    BY <2>2
  <2>5. f = e /\ b = c
    <3> HIDE DEF line
    <3>. QED  BY <1>4, <2>3, <2>4, LinesDiffer
  <2>. QED  BY <2>2, <2>5
<1>8. \A k, l \in BodyOf(new) : new[k] = new[l] => k = l
  <2> HIDE DEF new, line
  <2>. QED  BY <1>1, <1>3, <1>7 DEF BodyHolds
<1> HIDE DEF new
<1>9. BodyHolds(g, e, c, new)
  BY <1>5, <1>6, <1>8 DEF BodyHolds
<1>. QED  BY <1>9 DEF new

\* Nothing is added when the places are the same.
LEMMA SamePlaces ==
  ASSUME NEW g, NEW a, NEW d, NEW e, NEW c, NEW lines, BodyHolds(g, a, d, lines),
         \A f \in DOMAIN g.entries : \A b \in Places(g, f) : UpTo(f, b, e, c) <=> UpTo(f, b, a, d)
  PROVE  BodyHolds(g, e, c, lines)
BY DEF BodyHolds

\* The line that opens the graph, a line of the body, and the line that closes it.
LEMMA Open ==
  ASSUME NEW g, IsGraph(g), NEW ends, NEW lines, DOMAIN lines = {}, NEW n \in Nat, NEW line, line.kind = "open"
  PROVE  FrameHolds(ends, FALSE, Extend(lines, n, line)) /\ BodyHolds(g, 1, -1, Extend(lines, n, line))
<1> DEFINE new == Extend(lines, n, line)
<1>1. DOMAIN new = {n} /\ new[n] = line
  BY DEF Extend
<1> HIDE DEF new
<1>2. BodyOf(new) = {}
  BY <1>1 DEF BodyOf
<1>3. FrameHolds(ends, FALSE, new)
  BY <1>1, <1>2 DEF FrameHolds
<1>4. \A f \in DOMAIN g.entries : \A b \in Places(g, f) : ~ UpTo(f, b, 1, -1)
  BY GraphFacts, PlaceFacts DEF UpTo
<1>5. BodyHolds(g, 1, -1, new)
  BY <1>2, <1>4 DEF BodyHolds
<1>. QED  BY <1>3, <1>5 DEF new

IsBody(line) == line.kind \in {"node", "edge"}

\* Line n is after the others.
Behind(lines, n) == n \in Nat /\ DOMAIN lines \subseteq Nat /\ \A k \in DOMAIN lines : k < n

LEMMA Inside ==
  ASSUME NEW ends, NEW lines, FrameHolds(ends, FALSE, lines), NEW n, Behind(lines, n),
         NEW line, IsBody(line)
  PROVE  FrameHolds(ends, FALSE, Extend(lines, n, line))
<1> DEFINE new == Extend(lines, n, line)
<1>1. /\ n \in Nat /\ DOMAIN lines \subseteq Nat /\ \A k \in DOMAIN lines : k < n
      /\ line.kind \in {"node", "edge"}
  BY DEF Behind, IsBody
<1>2. /\ DOMAIN new = DOMAIN lines \cup {n} /\ new[n] = line
      /\ \A k \in DOMAIN lines : new[k] = lines[k]
  BY <1>1 DEF Extend
<1> HIDE DEF new
<1>3. DOMAIN new \ BodyOf(new) = DOMAIN lines \ BodyOf(lines)
  BY <1>1, <1>2 DEF BodyOf
<1>4. FrameHolds(ends, FALSE, new)
  BY <1>1, <1>2, <1>3 DEF FrameHolds
<1>. QED  BY <1>4 DEF new

LEMMA Shut ==
  ASSUME NEW g, NEW a, NEW d, NEW lines, FrameHolds(TRUE, FALSE, lines), BodyHolds(g, a, d, lines),
         NEW n \in Nat, DOMAIN lines \subseteq Nat, \A k \in DOMAIN lines : k < n,
         NEW line, line.kind = "close"
  PROVE  FrameHolds(TRUE, TRUE, Extend(lines, n, line)) /\ BodyHolds(g, a, d, Extend(lines, n, line))
<1> DEFINE new == Extend(lines, n, line)
<1>1. /\ DOMAIN new = DOMAIN lines \cup {n} /\ new[n] = line
      /\ \A k \in DOMAIN lines : new[k] = lines[k]
  BY DEF Extend
<1> HIDE DEF new
<1>2. BodyOf(new) = BodyOf(lines) /\ BodyOf(lines) \subseteq DOMAIN lines
  BY <1>1 DEF BodyOf
<1>3. DOMAIN new \ BodyOf(new) = (DOMAIN lines \ BodyOf(lines)) \cup {n}
  BY <1>1, <1>2 DEF BodyOf
<1>4. FrameHolds(TRUE, TRUE, new)
  BY <1>1, <1>3 DEF FrameHolds
<1>5. BodyHolds(g, a, d, new)
  BY <1>1, <1>2 DEF BodyHolds
<1>. QED  BY <1>4, <1>5 DEF new

LEMMA NoEnd ==
  ASSUME NEW lines, FrameHolds(FALSE, FALSE, lines)
  PROVE  FrameHolds(FALSE, TRUE, lines)
BY DEF FrameHolds

-----------------------------------------------------------------------------
(***************************************************************************)
(* The inductive invariant: each rank has numbered the modules it has met, *)
(* and printed the lines of the places it has passed.                      *)
(***************************************************************************)
Printed(r) == [k \in Mine(r) |-> out[k].line]

\* The place of the entry that rank r has passed last, -1 before the first.
Passed(r) == IF child[r] = 0 THEN -1 ELSE child[r]

TypeInv ==
  /\ TypeOK
  /\ child \in [Ranks -> Nat]
  /\ DOMAIN ids = Ranks
  /\ IsSequence(out)

RankInv(r) ==
  /\ Numbered(graph, ids[r], at[r], Passed(r))
  /\ pc[r] = "check" => at[r] = 1 /\ child[r] = 0 /\ DOMAIN Printed(r) = {}
  /\ pc[r] \in {"entries", "closed"} =>
       /\ BodyHolds(graph, at[r], Passed(r), Printed(r))
       /\ FrameHolds(format = "graphviz", pc[r] = "closed", Printed(r))
  /\ pc[r] = "closed" => at[r] > Len(graph.entries)

IInv == TypeInv /\ \A r \in Ranks : RankInv(r)

LEMMA TypeFacts ==
  ASSUME TypeInv, NEW r \in Ranks
  PROVE  /\ IsGraph(graph) /\ at[r] \in Nat /\ at[r] \in 1..(Len(graph.entries) + 1)
         /\ child[r] \in Nat /\ Passed(r) \in Int
         /\ child[r] # 0 => /\ pc[r] = "entries" /\ at[r] \in DOMAIN graph.entries
                            /\ graph.entries[at[r]].kind = "children"
                            /\ child[r] \in 1..Degree(graph, at[r])
<1>1. IsGraph(graph)
  BY GraphsAssumption DEF TypeInv, TypeOK
<1>2. at[r] \in 1..(Len(graph.entries) + 1) /\ child[r] \in Nat /\ at[r] \in Nat
  BY <1>1, GraphFacts DEF TypeInv, TypeOK
<1>3. child[r] # 0 => /\ pc[r] = "entries" /\ at[r] \in DOMAIN graph.entries
                      /\ graph.entries[at[r]].kind = "children"
                      /\ child[r] \in 1..Degree(graph, at[r])
  BY <1>1, <1>2, GraphFacts DEF TypeInv, TypeOK, AtEntry, Entry, Degree
<1>. QED  BY <1>1, <1>2, <1>3 DEF Passed

\* Printing a line: it is the last, and only the one rank has printed it.
LEMMA EmitFacts ==
  ASSUME IsSequence(out), NEW q, NEW line, Emit(q, line)
  PROVE  /\ IsSequence(out')
         /\ DOMAIN out' = DOMAIN out \cup {Len(out) + 1}
         /\ out'[Len(out) + 1].rank = q
         /\ \A k \in DOMAIN out : out'[k] = out[k]
         /\ \A r : DOMAIN Printed(r) \subseteq Nat /\ \A k \in DOMAIN Printed(r) : k < Len(out) + 1
         /\ Len(out) + 1 \in Nat
         /\ \A r : Printed(r)' = IF r = q THEN Extend(Printed(r), Len(out) + 1, line) ELSE Printed(r)
<1> DEFINE n == Len(out) + 1
           new == [rank |-> q, line |-> line]
<1>1. out' = Append(out, new)
  BY DEF Emit
<1>2. /\ IsSequence(Append(out, new))
      /\ DOMAIN Append(out, new) = DOMAIN out \cup {n}
      /\ n \notin DOMAIN out
      /\ \A i \in DOMAIN out : Append(out, new)[i] = out[i]
      /\ Append(out, new)[n] = new
  <2> HIDE DEF new
  <2>. QED  BY AppendFacts
<1>3. /\ IsSequence(out') /\ DOMAIN out' = DOMAIN out \cup {n} /\ n \notin DOMAIN out
      /\ \A i \in DOMAIN out : out'[i] = out[i]
      /\ out'[n].rank = q /\ out'[n].line = line
  BY <1>1, <1>2
<1>4. Len(out) \in Nat /\ DOMAIN out = 1..Len(out)
  BY DEF IsSequence
<1>5. \A r : DOMAIN Printed(r) \subseteq DOMAIN out /\ DOMAIN Printed(r) = Mine(r)
  BY DEF Printed, Mine
<1>6. n \in Nat /\ \A r : DOMAIN Printed(r) \subseteq Nat /\ \A k \in DOMAIN Printed(r) : k < n
  BY <1>4, <1>5
<1> HIDE DEF n
<1>7. ASSUME NEW r
      PROVE  Printed(r)' = IF r = q THEN Extend(Printed(r), n, line) ELSE Printed(r)
  <2>1. Mine(r)' = IF r = q THEN Mine(r) \cup {n} ELSE Mine(r)
    BY <1>3 DEF Mine
  <2>2. Mine(r) \subseteq DOMAIN out
    BY DEF Mine
  <2>3. Printed(r)' = [k \in Mine(r)' |-> out'[k].line]
    BY DEF Printed
  <2>4. CASE r # q
    BY <1>3, <2>1, <2>2, <2>3, <2>4 DEF Printed
  <2>5. CASE r = q
    BY <1>3, <2>1, <2>2, <2>3, <2>5 DEF Printed, Extend
  <2>. QED  BY <2>4, <2>5
<1>. QED  BY <1>3, <1>6, <1>7 DEF n

\* A rank that takes no step keeps what it has.
LEMMA OthersKeep ==
  ASSUME NEW r \in Ranks, RankInv(r), UNCHANGED <<graph, format>>,
         pc'[r] = pc[r], at'[r] = at[r], child'[r] = child[r], ids'[r] = ids[r],
         Printed(r)' = Printed(r)
  PROVE  RankInv(r)'
<1>1. Passed(r)' = Passed(r)
  BY DEF Passed
<1>. QED  BY <1>1 DEF RankInv

\* A step of one rank, put together.
LEMMA RankStep ==
  ASSUME IInv, NEW q \in Ranks, UNCHANGED <<graph, format>>,
         \A r \in Ranks : r # q =>
           /\ pc'[r] = pc[r] /\ at'[r] = at[r] /\ child'[r] = child[r] /\ ids'[r] = ids[r]
           /\ Printed(r)' = Printed(r),
         TypeInv', RankInv(q)'
  PROVE  IInv'
<1>1. ASSUME NEW r \in Ranks, r # q PROVE RankInv(r)'
  BY <1>1, OthersKeep DEF IInv
<1>. QED  BY <1>1 DEF IInv


-----------------------------------------------------------------------------
(***************************************************************************)
(* Each action preserves the invariant.                                    *)
(***************************************************************************)
LEMMA OutTypes ==
  ASSUME TypeInv, NEW q \in Ranks, NEW line, Emit(q, line)
  PROVE  \A k \in DOMAIN out' : out'[k].rank \in Ranks
<1>1. /\ DOMAIN out' = DOMAIN out \cup {Len(out) + 1} /\ out'[Len(out) + 1].rank = q
      /\ \A k \in DOMAIN out : out'[k] = out[k]
  BY EmitFacts DEF TypeInv
<1>2. \A k \in DOMAIN out : out[k].rank \in Ranks
  BY DEF TypeInv, TypeOK
<1>. QED  BY <1>1, <1>2

LEMMA StartStep ==
  ASSUME IInv, NEW q \in Ranks, Start(q)
  PROVE  IInv'
<1>1. /\ TypeInv /\ RankInv(q) /\ IsGraph(graph) /\ pc[q] = "check"
      /\ UNCHANGED <<graph, format, named, at, child, ids>>
      /\ pc \in [Ranks -> {"check", "entries", "closed", "exited"}]
  BY TypeFacts DEF IInv, TypeInv, TypeOK, Start
<1>2. at[q] = 1 /\ child[q] = 0 /\ DOMAIN Printed(q) = {} /\ Passed(q) = -1 /\ Passed(q)' = -1
  BY <1>1 DEF RankInv, Passed
<1>3. Numbered(graph, ids[q], 1, -1)
  BY <1>1, <1>2 DEF RankInv
<1>4. CASE pc' = [pc EXCEPT ![q] = "entries"] /\ Emit(q, [kind |-> "open"])
  <2>1. IsSequence(out)
    BY <1>1 DEF TypeInv
  <2>2. /\ IsSequence(out') /\ Len(out) + 1 \in Nat
        /\ \A r : Printed(r)' = IF r = q THEN Extend(Printed(r), Len(out) + 1, [kind |-> "open"]) ELSE Printed(r)
    BY <1>4, <2>1, EmitFacts
  <2>3. \A k \in DOMAIN out' : out'[k].rank \in Ranks
    BY <1>1, <1>4, OutTypes
  <2>4. pc'[q] = "entries" /\ pc' \in [Ranks -> {"check", "entries", "closed", "exited"}]
        /\ \A r \in Ranks : r # q => pc'[r] = pc[r]
    BY <1>1, <1>4
  <2>5. TypeInv'
    <3>1. \A r \in Ranks : child[r] # 0 => r # q
      BY <1>2
    <3>. QED  BY <1>1, <2>2, <2>3, <2>4, <3>1 DEF TypeInv, TypeOK, AtEntry, Entry
  <2> DEFINE line == [kind |-> "open"]
  <2>6. line.kind = "open"
    OBVIOUS
  <2> HIDE DEF line
  <2>7. /\ FrameHolds(format = "graphviz", FALSE, Extend(Printed(q), Len(out) + 1, line))
        /\ BodyHolds(graph, 1, -1, Extend(Printed(q), Len(out) + 1, line))
    BY <1>1, <1>2, <2>2, <2>6, Open
  <2>8. Printed(q)' = Extend(Printed(q), Len(out) + 1, line)
    BY <2>2 DEF line
  <2>9. RankInv(q)'
    <3>1. (pc'[q] = "closed") = FALSE
      BY <2>4
    <3>. QED  BY <1>1, <1>2, <1>3, <2>4, <2>7, <2>8, <3>1 DEF RankInv
  <2>. QED  BY <1>1, <2>2, <2>4, <2>5, <2>9, RankStep
<1>5. CASE pc' = [pc EXCEPT ![q] = "exited"] /\ UNCHANGED out
  <2>1. \A r : Printed(r)' = Printed(r)
    BY <1>5 DEF Printed, Mine
  <2>2. pc'[q] = "exited" /\ pc' \in [Ranks -> {"check", "entries", "closed", "exited"}]
        /\ \A r \in Ranks : r # q => pc'[r] = pc[r]
    BY <1>1, <1>5
  <2>3. TypeInv'
    <3>1. \A r \in Ranks : child[r] # 0 => r # q
      BY <1>2
    <3>. QED  BY <1>1, <1>5, <2>2, <3>1 DEF TypeInv, TypeOK, AtEntry, Entry
  <2>4. RankInv(q)'
    BY <1>1, <1>2, <1>3, <2>2 DEF RankInv
  <2>. QED  BY <1>1, <2>1, <2>2, <2>3, <2>4, RankStep
<1>. QED  BY <1>4, <1>5 DEF Start

LEMMA CloseStep ==
  ASSUME IInv, NEW q \in Ranks, Close(q)
  PROVE  IInv'
<1>1. /\ TypeInv /\ RankInv(q) /\ IsGraph(graph) /\ pc[q] = "entries" /\ at[q] > Len(graph.entries)
      /\ UNCHANGED <<graph, format, named, at, child, ids>>
      /\ pc \in [Ranks -> {"check", "entries", "closed", "exited"}]
      /\ pc' = [pc EXCEPT ![q] = "closed"]
  BY TypeFacts DEF IInv, TypeInv, TypeOK, Close
<1>2. child[q] = 0 /\ Passed(q)' = Passed(q)
  <2>1. at[q] \notin DOMAIN graph.entries
    BY <1>1, GraphFacts, TypeFacts
  <2>. QED  BY <1>1, <2>1, TypeFacts DEF Passed
<1>3. /\ Numbered(graph, ids[q], at[q], Passed(q))
      /\ BodyHolds(graph, at[q], Passed(q), Printed(q))
      /\ FrameHolds(format = "graphviz", FALSE, Printed(q))
  <2>1. (pc[q] = "closed") = FALSE
    BY <1>1
  <2>. QED  BY <1>1, <2>1 DEF RankInv
<1>4. pc'[q] = "closed" /\ pc' \in [Ranks -> {"check", "entries", "closed", "exited"}]
      /\ \A r \in Ranks : r # q => pc'[r] = pc[r]
  BY <1>1
<1>5. (pc'[q] = "closed") = TRUE
  BY <1>4
<1>6. \A r \in Ranks : child[r] # 0 => r # q
  BY <1>2
<1>7. CASE format = "graphviz" /\ Emit(q, [kind |-> "close"])
  <2>1. IsSequence(out) /\ (format = "graphviz") = TRUE
    BY <1>1, <1>7 DEF TypeInv
  <2>2. /\ IsSequence(out') /\ Len(out) + 1 \in Nat
        /\ DOMAIN Printed(q) \subseteq Nat /\ \A k \in DOMAIN Printed(q) : k < Len(out) + 1
        /\ \A r : Printed(r)' = IF r = q THEN Extend(Printed(r), Len(out) + 1, [kind |-> "close"]) ELSE Printed(r)
    BY <1>7, <2>1, EmitFacts
  <2>3. \A k \in DOMAIN out' : out'[k].rank \in Ranks
    BY <1>1, <1>7, OutTypes
  <2>4. TypeInv'
    BY <1>1, <1>4, <1>6, <2>2, <2>3 DEF TypeInv, TypeOK, AtEntry, Entry
  <2> DEFINE line == [kind |-> "close"]
  <2>5. line.kind = "close"
    OBVIOUS
  <2>6. Printed(q)' = Extend(Printed(q), Len(out) + 1, line)
    BY <2>2
  <2> HIDE DEF line
  <2>7. FrameHolds(TRUE, FALSE, Printed(q))
    BY <1>3, <2>1
  <2>8. /\ FrameHolds(TRUE, TRUE, Extend(Printed(q), Len(out) + 1, line))
        /\ BodyHolds(graph, at[q], Passed(q), Extend(Printed(q), Len(out) + 1, line))
    BY <1>3, <2>2, <2>5, <2>7, Shut
  <2>9. RankInv(q)'
    BY <1>1, <1>2, <1>3, <1>4, <1>5, <2>1, <2>6, <2>8 DEF RankInv
  <2>. QED  BY <1>1, <1>4, <2>2, <2>4, <2>9, RankStep
<1>8. CASE format # "graphviz" /\ UNCHANGED out
  <2>1. \A r : Printed(r)' = Printed(r)
    BY <1>8 DEF Printed, Mine
  <2>2. TypeInv'
    BY <1>1, <1>4, <1>6, <1>8 DEF TypeInv, TypeOK, AtEntry, Entry
  <2>3. (format = "graphviz") = FALSE
    BY <1>8
  <2>4. FrameHolds(FALSE, TRUE, Printed(q))
    BY <1>3, <2>3, NoEnd
  <2>5. RankInv(q)'
    BY <1>1, <1>2, <1>3, <1>4, <1>5, <2>1, <2>3, <2>4 DEF RankInv
  <2>. QED  BY <1>1, <1>4, <2>1, <2>2, <2>5, RankStep
<1>. QED  BY <1>7, <1>8 DEF Close


\* The entry that a rank is at.
LEMMA EntryFacts ==
  ASSUME IInv, NEW q \in Ranks, NEW kind, AtEntry(q, kind)
  PROVE  /\ TypeInv /\ RankInv(q) /\ IsGraph(graph) /\ pc[q] = "entries"
         /\ at[q] \in DOMAIN graph.entries /\ at[q] \in Nat /\ child[q] \in Nat
         /\ Entry(q) = graph.entries[at[q]] /\ graph.entries[at[q]].kind = kind
         /\ Entry(q).module = Met(graph, at[q], 0)
         /\ Numbered(graph, ids[q], at[q], Passed(q))
         /\ BodyHolds(graph, at[q], Passed(q), Printed(q))
         /\ FrameHolds(format = "graphviz", FALSE, Printed(q))
         /\ kind = "children" =>
              /\ Degree(graph, at[q]) = Len(Entry(q).children) /\ child[q] \in 0..Degree(graph, at[q])
              /\ \A c \in 1..Degree(graph, at[q]) : Met(graph, at[q], c) = Entry(q).children[c]
         /\ kind = "type" => child[q] = 0 /\ Degree(graph, at[q]) = 0
<1>1. /\ TypeInv /\ RankInv(q) /\ IsGraph(graph) /\ pc[q] = "entries"
      /\ at[q] \in Nat /\ child[q] \in Nat /\ at[q] \in 1..(Len(graph.entries) + 1)
      /\ at[q] <= Len(graph.entries)
      /\ Entry(q) = graph.entries[at[q]] /\ graph.entries[at[q]].kind = kind
  BY TypeFacts DEF IInv, AtEntry, Entry
<1>2. at[q] \in DOMAIN graph.entries /\ Degree(graph, at[q]) \in Nat
  BY <1>1, GraphFacts
<1>3. Entry(q).module = Met(graph, at[q], 0)
  BY <1>1 DEF Met
<1>4. /\ Numbered(graph, ids[q], at[q], Passed(q))
      /\ BodyHolds(graph, at[q], Passed(q), Printed(q))
      /\ FrameHolds(format = "graphviz", FALSE, Printed(q))
  <2>1. (pc[q] = "closed") = FALSE
    BY <1>1
  <2>. QED  BY <1>1, <2>1 DEF RankInv
<1>5. kind = "children" =>
        /\ Degree(graph, at[q]) = Len(Entry(q).children) /\ child[q] \in 0..Degree(graph, at[q])
        /\ \A c \in 1..Degree(graph, at[q]) : Met(graph, at[q], c) = Entry(q).children[c]
  <2> SUFFICES ASSUME kind = "children"
               PROVE  /\ Degree(graph, at[q]) = Len(Entry(q).children)
                      /\ child[q] \in 0..Degree(graph, at[q])
                      /\ \A c \in 1..Degree(graph, at[q]) : Met(graph, at[q], c) = Entry(q).children[c]
    OBVIOUS
  <2>1. Degree(graph, at[q]) = Len(Entry(q).children)
    BY <1>1 DEF Degree
  <2>2. child[q] \in 0..Degree(graph, at[q])
    BY <1>1, <1>2, TypeFacts
  <2>3. \A c \in 1..Degree(graph, at[q]) : Met(graph, at[q], c) = Entry(q).children[c]
    BY <1>1, <1>2 DEF Met
  <2>. QED  BY <2>1, <2>2, <2>3
<1>6. kind = "type" => child[q] = 0 /\ Degree(graph, at[q]) = 0
  BY <1>1, <1>2, GraphFacts, TypeFacts
<1>. QED  BY <1>1, <1>2, <1>3, <1>4, <1>5, <1>6

LEMMA EndOfChildrenStep ==
  ASSUME IInv, NEW q \in Ranks, EndOfChildren(q)
  PROVE  IInv'
<1> DEFINE e == at[q]
           module == Met(graph, e, 0)
           known == ToId(q, ids[q], module)
<1>1. /\ TypeInv /\ RankInv(q) /\ IsGraph(graph) /\ pc[q] = "entries"
      /\ e \in DOMAIN graph.entries /\ e \in Nat /\ child[q] \in Nat
      /\ Entry(q).module = module
      /\ graph.entries[e].kind = "children"
      /\ Numbered(graph, ids[q], e, Passed(q))
      /\ BodyHolds(graph, e, Passed(q), Printed(q))
      /\ FrameHolds(format = "graphviz", FALSE, Printed(q))
      /\ Degree(graph, e) = Len(Entry(q).children)
  BY EntryFacts DEF EndOfChildren
<1>2. /\ child[q] = Degree(graph, e) /\ Degree(graph, e) \in Nat
      /\ UNCHANGED <<graph, format, named, pc, out>>
      /\ ids' = [ids EXCEPT ![q] = known]
      /\ child' = [child EXCEPT ![q] = 0]
      /\ at' = [at EXCEPT ![q] = e + 1]
  BY <1>1, GraphFacts DEF EndOfChildren
<1>3. /\ at \in [Ranks -> 1..(Len(graph.entries) + 1)] /\ child \in [Ranks -> Nat] /\ DOMAIN ids = Ranks
      /\ DOMAIN graph.entries = 1..Len(graph.entries) /\ Len(graph.entries) \in Nat
  BY <1>1, GraphFacts DEF TypeInv, TypeOK
<1> HIDE DEF e, known, module
<1>4. /\ at'[q] = e + 1 /\ child'[q] = 0 /\ ids'[q] = known /\ Passed(q)' = -1
      /\ \A r \in Ranks : r # q => at'[r] = at[r] /\ child'[r] = child[r] /\ ids'[r] = ids[r]
      /\ at' \in [Ranks -> 1..(Len(graph.entries) + 1)] /\ child' \in [Ranks -> Nat] /\ DOMAIN ids' = Ranks
  BY <1>1, <1>2, <1>3 DEF Passed
<1>5. Numbered(graph, known, e + 1, -1)
  <2>1. Numbered(graph, known, e, Degree(graph, e))
    <3>1. CASE Degree(graph, e) = 0
      <4>1. Numbered(graph, ids[q], e, 0 - 1) /\ 0 \in 0..Degree(graph, e)
        BY <1>1, <1>2, <3>1 DEF Passed
      <4>. QED  BY <1>1, <3>1, <4>1, Meet DEF known, module
    <3>2. CASE Degree(graph, e) # 0
      <4>1. Numbered(graph, ids[q], e, Degree(graph, e)) /\ Degree(graph, e) \in 0..Degree(graph, e)
        BY <1>1, <1>2, <3>2 DEF Passed
      <4>. QED  BY <1>1, <4>1, MeetAgain DEF known, module
    <3>. QED  BY <3>1, <3>2
  <2>. QED  BY <1>1, <2>1, Entries DEF Numbered
<1>6. BodyHolds(graph, e + 1, -1, Printed(q))
  <2>1. \A f \in DOMAIN graph.entries : \A b \in Places(graph, f) :
          UpTo(f, b, e + 1, -1) <=> UpTo(f, b, e, Passed(q))
    <3> SUFFICES ASSUME NEW f \in DOMAIN graph.entries, NEW b \in Places(graph, f)
                 PROVE  UpTo(f, b, e + 1, -1) <=> UpTo(f, b, e, Passed(q))
      OBVIOUS
    <3>1. /\ f \in Nat /\ b \in 0..Degree(graph, f) /\ Degree(graph, f) \in Nat
          /\ f = e => b \in 1..Degree(graph, e)
      BY <1>1, PlaceFacts, GraphFacts
    <3>. QED  BY <1>1, <1>2, <3>1 DEF UpTo, Passed
  <2>. QED  BY <1>1, <2>1, SamePlaces
<1>7. \A r : Printed(r)' = Printed(r)
  BY <1>2 DEF Printed, Mine
<1>8. TypeInv'
  BY <1>1, <1>2, <1>3, <1>4 DEF TypeInv, TypeOK, AtEntry, Entry
<1>9. RankInv(q)'
  <2>1. (pc'[q] = "closed") = FALSE /\ pc'[q] = "entries"
    BY <1>1, <1>2
  <2>. QED  BY <1>1, <1>2, <1>4, <1>5, <1>6, <1>7, <2>1 DEF RankInv
<1>. QED  BY <1>2, <1>4, <1>7, <1>8, <1>9, RankStep


LEMMA NodeStep ==
  ASSUME IInv, NEW q \in Ranks, Node(q)
  PROVE  IInv'
<1> DEFINE e == at[q]
           module == Met(graph, e, 0)
           known == ToId(q, ids[q], module)
           n == Len(out) + 1
           line == LineAt(graph, e, 0)
<1>1. /\ TypeInv /\ RankInv(q) /\ IsGraph(graph) /\ pc[q] = "entries"
      /\ e \in DOMAIN graph.entries /\ e \in Nat /\ child[q] = 0 /\ Degree(graph, e) = 0
      /\ Entry(q).module = module
      /\ graph.entries[e].kind = "type"
      /\ Numbered(graph, ids[q], e, Passed(q))
      /\ BodyHolds(graph, e, Passed(q), Printed(q))
      /\ FrameHolds(format = "graphviz", FALSE, Printed(q))
  BY EntryFacts DEF Node
<1>2. /\ UNCHANGED <<graph, format, named, pc, child>>
      /\ ids' = [ids EXCEPT ![q] = known]
      /\ at' = [at EXCEPT ![q] = e + 1]
      /\ Emit(q, [kind |-> "node", id |-> ids'[q][module], module |-> module,
                  described |-> module \in graph.described])
  BY <1>1 DEF Node
<1>3. /\ at \in [Ranks -> 1..(Len(graph.entries) + 1)] /\ child \in [Ranks -> Nat] /\ DOMAIN ids = Ranks
      /\ DOMAIN graph.entries = 1..Len(graph.entries) /\ Len(graph.entries) \in Nat
  BY <1>1, GraphFacts DEF TypeInv, TypeOK
<1> HIDE DEF e, known, module, n, line
<1>4. /\ at'[q] = e + 1 /\ child'[q] = 0 /\ ids'[q] = known /\ Passed(q)' = -1 /\ Passed(q) = -1
      /\ \A r \in Ranks : r # q => at'[r] = at[r] /\ child'[r] = child[r] /\ ids'[r] = ids[r]
      /\ at' \in [Ranks -> 1..(Len(graph.entries) + 1)] /\ child' \in [Ranks -> Nat] /\ DOMAIN ids' = Ranks
  BY <1>1, <1>2, <1>3 DEF Passed
<1>5. Numbered(graph, known, e, 0) /\ module \in DOMAIN known
  <2>1. Numbered(graph, ids[q], e, 0 - 1) /\ 0 \in 0..Degree(graph, e)
    BY <1>1, <1>4
  <2>. QED  BY <1>1, <2>1, Meet DEF known, module
<1>6. Numbered(graph, known, e + 1, -1)
  BY <1>1, <1>5, Entries DEF Numbered
<1>7. Emit(q, line)
  <2>1. known[module] = Number(graph, module)
    BY <1>5 DEF Numbered
  <2>. QED  BY <1>1, <1>2, <1>4, <2>1 DEF line, LineAt, module
<1>8. /\ IsSequence(out') /\ n \in Nat
      /\ DOMAIN Printed(q) \subseteq Nat /\ \A k \in DOMAIN Printed(q) : k < n
      /\ \A r : Printed(r)' = IF r = q THEN Extend(Printed(r), n, line) ELSE Printed(r)
  BY <1>1, <1>7, EmitFacts DEF TypeInv, n
<1>9. \A k \in DOMAIN out' : out'[k].rank \in Ranks
  BY <1>1, <1>7, OutTypes
<1>10. TypeInv'
  BY <1>1, <1>2, <1>3, <1>4, <1>8, <1>9 DEF TypeInv, TypeOK, AtEntry, Entry
<1>11. BodyHolds(graph, e + 1, -1, Extend(Printed(q), n, line))
  <2>1. \A f \in DOMAIN graph.entries : \A b \in Places(graph, f) :
          /\ UpTo(f, b, e, 0) <=> UpTo(f, b, e, -1) \/ (f = e /\ b = 0)
          /\ UpTo(f, b, e + 1, -1) <=> UpTo(f, b, e, 0)
    <3> SUFFICES ASSUME NEW f \in DOMAIN graph.entries, NEW b \in Places(graph, f)
                 PROVE  /\ UpTo(f, b, e, 0) <=> UpTo(f, b, e, -1) \/ (f = e /\ b = 0)
                        /\ UpTo(f, b, e + 1, -1) <=> UpTo(f, b, e, 0)
      OBVIOUS
    <3>1. f \in Nat /\ b \in 0..Degree(graph, f) /\ Degree(graph, f) \in Nat /\ (f = e => b = 0)
      BY <1>1, PlaceFacts, GraphFacts
    <3>. QED  BY <1>1, <3>1 DEF UpTo
  <2>2. 0 \in Places(graph, e) /\ ~ UpTo(e, 0, e, -1)
    BY <1>1 DEF Places, UpTo
  <2>3. BodyHolds(graph, e, -1, Printed(q)) /\ n \notin DOMAIN Printed(q)
    BY <1>1, <1>4, <1>8
  <2>4. BodyHolds(graph, e, 0, Extend(Printed(q), n, line))
    <3>1. \A f \in DOMAIN graph.entries : \A b \in Places(graph, f) :
            UpTo(f, b, e, 0) <=> UpTo(f, b, e, -1) \/ (f = e /\ b = 0)
      BY <2>1
    <3>2. IsGraph(graph) /\ e \in DOMAIN graph.entries /\ Numbered(graph, known, e, 0)
      BY <1>1, <1>5
    <3>. QED  BY <2>2, <2>3, <3>1, <3>2, AddLine DEF line
  <2>. QED  BY <2>1, <2>4, SamePlaces
<1>12. FrameHolds(format = "graphviz", FALSE, Extend(Printed(q), n, line))
  <2>1. line.kind \in {"node", "edge"}
    BY LineKinds DEF line
  <2> DEFINE ends == format = "graphviz"
  <2>2. FrameHolds(ends, FALSE, Printed(q))
    BY <1>1
  <2> HIDE DEF ends
  <2>3. FrameHolds(ends, FALSE, Extend(Printed(q), n, line))
    <3>1. Behind(Printed(q), n) /\ IsBody(line)
      BY <1>8, <2>1 DEF Behind, IsBody
    <3>. QED  BY <2>2, <3>1, Inside
  <2>. QED  BY <2>3 DEF ends
<1>13. RankInv(q)'
  <2>1. (pc'[q] = "closed") = FALSE /\ pc'[q] = "entries"
    BY <1>1, <1>2
  <2>. QED  BY <1>1, <1>2, <1>4, <1>6, <1>8, <1>11, <1>12, <2>1 DEF RankInv
<1>. QED  BY <1>2, <1>4, <1>8, <1>10, <1>13, RankStep

LEMMA EdgeStep ==
  ASSUME IInv, NEW q \in Ranks, Edge(q)
  PROVE  IInv'
<1> DEFINE e == at[q]
           c == child[q] + 1
           from == Met(graph, e, 0)
           to == Met(graph, e, c)
           parent == ToId(q, ids[q], from)
           known == ToId(q, parent, to)
           n == Len(out) + 1
           line == LineAt(graph, e, c)
<1>1. /\ TypeInv /\ RankInv(q) /\ IsGraph(graph) /\ pc[q] = "entries"
      /\ e \in DOMAIN graph.entries /\ e \in Nat /\ child[q] \in Nat
      /\ Entry(q).module = from /\ Entry(q) = graph.entries[e]
      /\ graph.entries[e].kind = "children"
      /\ Numbered(graph, ids[q], e, Passed(q))
      /\ BodyHolds(graph, e, Passed(q), Printed(q))
      /\ FrameHolds(format = "graphviz", FALSE, Printed(q))
      /\ Degree(graph, e) = Len(Entry(q).children)
      /\ \A b \in 1..Degree(graph, e) : Met(graph, e, b) = Entry(q).children[b]
  BY EntryFacts DEF Edge
<1>2. c \in 1..Degree(graph, e) /\ Degree(graph, e) \in Nat /\ Entry(q).children[c] = to
  <2>1. child[q] < Degree(graph, e) /\ Degree(graph, e) \in Nat
    BY <1>1, GraphFacts DEF Edge
  <2>2. c \in 1..Degree(graph, e)
    BY <1>1, <2>1
  <2>. QED  BY <1>1, <2>1, <2>2
<1>3. /\ UNCHANGED <<graph, format, named, pc, at>>
      /\ ids' = [ids EXCEPT ![q] = known]
      /\ child' = [child EXCEPT ![q] = c]
      /\ Emit(q, [kind |-> "edge", from |-> ids'[q][from], to |-> ids'[q][to]])
  BY <1>1, <1>2 DEF Edge
<1>4. /\ at \in [Ranks -> 1..(Len(graph.entries) + 1)] /\ child \in [Ranks -> Nat] /\ DOMAIN ids = Ranks
      /\ c \in Nat \ {0} /\ child[q] = c - 1
  BY <1>1 DEF TypeInv, TypeOK
<1> HIDE DEF e, c, from, to, parent, known, n, line
<1>5. /\ at'[q] = e /\ child'[q] = c /\ ids'[q] = known /\ Passed(q)' = c
      /\ Passed(q) = IF c = 1 THEN -1 ELSE c - 1
      /\ \A r \in Ranks : r # q => at'[r] = at[r] /\ child'[r] = child[r] /\ ids'[r] = ids[r]
      /\ child' \in [Ranks -> Nat] /\ DOMAIN ids' = Ranks
  BY <1>1, <1>3, <1>4 DEF Passed, e
<1>6. Numbered(graph, parent, e, c - 1)
  <2>1. CASE c = 1
    <3>1. Numbered(graph, ids[q], e, 0 - 1) /\ 0 \in 0..Degree(graph, e) /\ c - 1 = 0
      BY <1>1, <1>2, <1>5, <2>1
    <3>2. Numbered(graph, parent, e, 0)
      BY <1>1, <3>1, Meet DEF parent, from
    <3>. QED  BY <3>1, <3>2
  <2>2. CASE c # 1
    <3>1. Numbered(graph, ids[q], e, c - 1) /\ c - 1 \in 0..Degree(graph, e)
      BY <1>1, <1>2, <1>5, <2>2
    <3>. QED  BY <1>1, <3>1, MeetAgain DEF parent, from
  <2>. QED  BY <2>1, <2>2
<1>7. /\ Numbered(graph, known, e, c) /\ to \in DOMAIN known /\ from \in DOMAIN known
  <2>1. c \in 0..Degree(graph, e)
    BY <1>2
  <2>2. Numbered(graph, known, e, c) /\ to \in DOMAIN known
    BY <1>1, <1>6, <2>1, Meet DEF known, to
  <2>3. from \in DOMAIN known
    BY <1>1, <2>1, <2>2, MeetAgain DEF from
  <2>. QED  BY <2>2, <2>3
<1>8. Emit(q, line)
  <2>1. known[from] = Number(graph, from) /\ known[to] = Number(graph, to)
    BY <1>7 DEF Numbered
  <2>. QED  BY <1>1, <1>3, <1>5, <2>1 DEF line, LineAt, from, to
<1>9. /\ IsSequence(out') /\ n \in Nat
      /\ DOMAIN Printed(q) \subseteq Nat /\ \A k \in DOMAIN Printed(q) : k < n
      /\ \A r : Printed(r)' = IF r = q THEN Extend(Printed(r), n, line) ELSE Printed(r)
  BY <1>1, <1>8, EmitFacts DEF TypeInv, n
<1>10. \A k \in DOMAIN out' : out'[k].rank \in Ranks
  BY <1>1, <1>8, OutTypes
<1>11. TypeInv'
  <2>1. Len(graph.entries[e].children) = Degree(graph, e) /\ e <= Len(graph.entries)
    BY <1>1 DEF AtEntry, Edge, e
  <2>. QED  BY <1>1, <1>2, <1>3, <1>4, <1>5, <1>9, <1>10, <2>1 DEF TypeInv, TypeOK, AtEntry, Entry, e
<1>12. BodyHolds(graph, e, c, Extend(Printed(q), n, line))
  <2>1. \A f \in DOMAIN graph.entries : \A b \in Places(graph, f) :
          UpTo(f, b, e, c) <=> UpTo(f, b, e, Passed(q)) \/ (f = e /\ b = c)
    <3> SUFFICES ASSUME NEW f \in DOMAIN graph.entries, NEW b \in Places(graph, f)
                 PROVE  UpTo(f, b, e, c) <=> UpTo(f, b, e, Passed(q)) \/ (f = e /\ b = c)
      OBVIOUS
    <3>1. /\ f \in Nat /\ b \in 0..Degree(graph, f) /\ Degree(graph, f) \in Nat
          /\ f = e => b \in 1..Degree(graph, e)
      BY <1>1, PlaceFacts, GraphFacts
    <3>. QED  BY <1>1, <1>4, <1>5, <3>1 DEF UpTo
  <2>2. c \in Places(graph, e) /\ ~ UpTo(e, c, e, Passed(q))
    BY <1>1, <1>2, <1>4, <1>5 DEF Places, UpTo
  <2>3. n \notin DOMAIN Printed(q)
    BY <1>9
  <2>4. /\ IsGraph(graph) /\ e \in DOMAIN graph.entries /\ Numbered(graph, known, e, c)
        /\ BodyHolds(graph, e, Passed(q), Printed(q))
    BY <1>1, <1>7
  <2>. QED  BY <2>1, <2>2, <2>3, <2>4, AddLine DEF line
<1>13. FrameHolds(format = "graphviz", FALSE, Extend(Printed(q), n, line))
  <2>1. line.kind \in {"node", "edge"}
    BY LineKinds DEF line
  <2> DEFINE ends == format = "graphviz"
  <2>2. FrameHolds(ends, FALSE, Printed(q))
    BY <1>1
  <2> HIDE DEF ends
  <2>3. FrameHolds(ends, FALSE, Extend(Printed(q), n, line))
    <3>1. Behind(Printed(q), n) /\ IsBody(line)
      BY <1>9, <2>1 DEF Behind, IsBody
    <3>. QED  BY <2>2, <3>1, Inside
  <2>. QED  BY <2>3 DEF ends
<1>14. RankInv(q)'
  <2>1. (pc'[q] = "closed") = FALSE /\ pc'[q] = "entries"
    BY <1>1, <1>3
  <2>. QED  BY <1>1, <1>3, <1>5, <1>7, <1>9, <1>12, <1>13, <2>1 DEF RankInv
<1>. QED  BY <1>3, <1>5, <1>9, <1>11, <1>14, RankStep

LEMMA InitStep == Init => IInv
<1> SUFFICES ASSUME Init PROVE IInv
    OBVIOUS
<1>1. IsGraph(graph) /\ Len(graph.entries) \in Nat /\ DOMAIN graph.entries = 1..Len(graph.entries)
  BY GraphsAssumption, GraphFacts DEF Init
<1>2. IsSequence(out) /\ DOMAIN out = {}
  BY DEF Init, IsSequence
<1>3. TypeInv
  <2>1. \A r \in Ranks : child[r] = 0
    BY DEF Init
  <2>2. at \in [Ranks -> 1..(Len(graph.entries) + 1)]
    BY <1>1 DEF Init
  <2>3. TypeOK
    BY <1>2, <2>1, <2>2 DEF Init, TypeOK
  <2>. QED  BY <1>2, <2>3 DEF Init, TypeInv
<1>4. ASSUME NEW r \in Ranks PROVE RankInv(r)
  <2>1. pc[r] = "check" /\ at[r] = 1 /\ child[r] = 0 /\ Passed(r) = -1 /\ DOMAIN ids[r] = {}
    BY DEF Init, Passed
  <2>2. DOMAIN Printed(r) = {}
    BY <1>2 DEF Printed, Mine
  <2>3. IsFiniteSet(DOMAIN ids[r])
    BY <2>1, FS_EmptySet
  <2>4. MetBy(graph, 1, -1) = {}
    BY <1>1, Entries
  <2>5. Numbered(graph, ids[r], 1, -1)
    BY <2>1, <2>3, <2>4 DEF Numbered
  <2>. QED  BY <2>1, <2>2, <2>5 DEF RankInv
<1>. QED  BY <1>3, <1>4 DEF IInv

LEMMA NextStep == IInv /\ [Next]_vars => IInv'
<1> SUFFICES ASSUME IInv, [Next]_vars PROVE IInv'
    OBVIOUS
<1>1. CASE Next
  BY <1>1, StartStep, EdgeStep, EndOfChildrenStep, NodeStep, CloseStep DEF Next
<1>2. CASE UNCHANGED vars
  <2>1. /\ UNCHANGED <<graph, format, named, pc, at, child, ids, out>>
        /\ \A r : Printed(r)' = Printed(r)
    BY <1>2 DEF vars, Printed, Mine
  <2>2. TypeInv'
    BY <2>1 DEF IInv, TypeInv, TypeOK, AtEntry, Entry
  <2>3. ASSUME NEW r \in Ranks PROVE RankInv(r)'
    BY <2>1, OthersKeep DEF IInv
  <2>. QED  BY <2>2, <2>3 DEF IInv
<1>. QED  BY <1>1, <1>2

LEMMA Inductive == Spec => []IInv
  BY InitStep, NextStep, PTL DEF Spec

-----------------------------------------------------------------------------
\* What the graph of print_graph is built from keeps its shape: each rank is at an
\* entry of the configuration or behind the last, and at a child of it only while
\* the entry has children.
THEOREM TypeCorrect == Spec => []TypeOK
<1>1. IInv => TypeOK
  BY DEF IInv, TypeInv
<1>. QED  BY <1>1, Inductive, PTL

\* However the ranks take turns, a number in the output means one module: to_id of
\* every rank gives a module the number that the order of the configuration gives it.
THEOREM NumbersAgree == Spec => []OneNumberPerModule
<1>1. IInv => OneNumberPerModule
  <2> SUFFICES ASSUME IInv, NEW r \in Ranks, NEW s \in Ranks,
                      NEW m \in DOMAIN ids[r], NEW n \in DOMAIN ids[s]
               PROVE  ids[r][m] = ids[s][n] <=> m = n
    BY DEF OneNumberPerModule
  <2>1. /\ Numbered(graph, ids[r], at[r], Passed(r)) /\ Numbered(graph, ids[s], at[s], Passed(s))
    BY DEF IInv, RankInv
  <2>2. /\ IsGraph(graph) /\ at[r] \in Nat /\ at[s] \in Nat /\ Passed(r) \in Int /\ Passed(s) \in Int
    BY TypeFacts DEF IInv
  <2>. QED  BY <2>1, <2>2, MapsAgree
<1>. QED  BY <1>1, Inductive, PTL

\* A line as GraphIsPrinted reads it.
Meaning(g, e, c) ==
  IF g.entries[e].kind = "type"
  THEN [kind |-> "node", of |-> Met(g, e, 0), described |-> Met(g, e, 0) \in g.described]
  ELSE [kind |-> "edge", from |-> Met(g, e, 0), to |-> Met(g, e, c)]

\* The number of a module is read as that module, once all modules are numbered.
LEMMA ReadLine ==
  ASSUME IsGraph(graph), NEW r, NEW a, NEW d, Numbered(graph, ids[r], a, d),
         NEW e \in DOMAIN graph.entries, NEW c \in Places(graph, e), UpTo(e, c, a, d), UpTo(e, 0, a, d)
  PROVE  Read(r, LineAt(graph, e, c)) = Meaning(graph, e, c)
<1> DEFINE Module(id) == CHOOSE m \in DOMAIN ids[r] : ids[r][m] = id
<1>1. Met(graph, e, 0) \in DOMAIN ids[r] /\ Met(graph, e, c) \in DOMAIN ids[r]
  BY PlaceFacts, MetByFacts DEF Numbered
<1>2. ASSUME NEW m \in DOMAIN ids[r] PROVE Module(Number(graph, m)) = m
  <2>1. ids[r][m] = Number(graph, m) /\ \A n \in DOMAIN ids[r] : ids[r][n] = ids[r][m] => n = m
    BY DEF Numbered
  <2>. QED  BY <2>1
<1>3. CASE graph.entries[e].kind = "type"
  <2> DEFINE line == LineAt(graph, e, c)
  <2>1. /\ line.kind = "node" /\ line.id = Number(graph, Met(graph, e, 0))
        /\ line.described = (Met(graph, e, 0) \in graph.described)
    BY <1>3 DEF LineAt
  <2> HIDE DEF line
  <2>2. Read(r, line) = [kind |-> "node", of |-> Module(line.id), described |-> line.described]
    BY <2>1 DEF Read
  <2>3. Module(line.id) = Met(graph, e, 0)
    BY <1>1, <1>2, <2>1
  <2> HIDE DEF Module
  <2>4. Read(r, line) = Meaning(graph, e, c)
    BY <1>3, <2>1, <2>2, <2>3 DEF Meaning
  <2>. QED  BY <2>4 DEF line
<1>4. CASE graph.entries[e].kind # "type"
  <2> DEFINE line == LineAt(graph, e, c)
  <2>1. /\ line.kind = "edge" /\ line.from = Number(graph, Met(graph, e, 0))
        /\ line.to = Number(graph, Met(graph, e, c))
    BY <1>4 DEF LineAt
  <2> HIDE DEF line
  <2>2. Read(r, line) = [kind |-> "edge", from |-> Module(line.from), to |-> Module(line.to)]
    BY <2>1 DEF Read
  <2>3. Module(line.from) = Met(graph, e, 0) /\ Module(line.to) = Met(graph, e, c)
    BY <1>1, <1>2, <2>1
  <2> HIDE DEF Module
  <2>4. Read(r, line) = Meaning(graph, e, c)
    BY <1>4, <2>2, <2>3 DEF Meaning
  <2>. QED  BY <2>4 DEF line
<1>. QED  BY <1>3, <1>4

\* The lines of an entry are those of its places.
LEMMA EntryLines ==
  ASSUME IsGraph(graph), NEW e \in DOMAIN graph.entries
  PROVE  LinesOf(graph.entries[e]) = {Meaning(graph, e, c) : c \in Places(graph, e)}
<1>1. CASE graph.entries[e].kind = "type"
  BY <1>1 DEF LinesOf, Places, Meaning, Met
<1>2. CASE graph.entries[e].kind # "type"
  <2>1. DOMAIN graph.entries[e].children = 1..Degree(graph, e)
    BY <1>2 DEF IsGraph, IsList, Degree
  <2>2. \A c \in 1..Degree(graph, e) :
          Meaning(graph, e, c) =
            [kind |-> "edge", from |-> graph.entries[e].module, to |-> graph.entries[e].children[c]]
    BY <1>2, GraphFacts DEF Meaning, Met
  <2>3. LinesOf(graph.entries[e]) =
          {[kind |-> "edge", from |-> graph.entries[e].module, to |-> graph.entries[e].children[c]] :
             c \in 1..Degree(graph, e)}
    BY <1>2, <2>1 DEF LinesOf
  <2>. QED  BY <1>2, <2>2, <2>3 DEF Places
<1>. QED  BY <1>1, <1>2

\* Two places that read alike have the same line.
LEMMA SameMeaning ==
  ASSUME NEW g, NEW e, NEW c, NEW f, NEW b, Meaning(g, e, c) = Meaning(g, f, b)
  PROVE  LineAt(g, e, c) = LineAt(g, f, b)
<1>1. Meaning(g, e, c).kind = (IF g.entries[e].kind = "type" THEN "node" ELSE "edge")
  BY DEF Meaning
<1>2. Meaning(g, f, b).kind = (IF g.entries[f].kind = "type" THEN "node" ELSE "edge")
  BY DEF Meaning
<1>3. (g.entries[e].kind = "type") <=> (g.entries[f].kind = "type")
  BY <1>1, <1>2
<1>4. CASE g.entries[e].kind = "type"
  <2>1. /\ Meaning(g, e, c).of = Met(g, e, 0) /\ Meaning(g, f, b).of = Met(g, f, 0)
    BY <1>3, <1>4 DEF Meaning
  <2>2. Met(g, e, 0) = Met(g, f, 0)
    BY <2>1
  <2>. QED  BY <1>3, <1>4, <2>2 DEF LineAt
<1>5. CASE g.entries[e].kind # "type"
  <2>1. /\ Meaning(g, e, c).from = Met(g, e, 0) /\ Meaning(g, f, b).from = Met(g, f, 0)
        /\ Meaning(g, e, c).to = Met(g, e, c) /\ Meaning(g, f, b).to = Met(g, f, b)
    BY <1>3, <1>5 DEF Meaning
  <2>2. Met(g, e, 0) = Met(g, f, 0) /\ Met(g, e, c) = Met(g, f, b)
    BY <2>1
  <2>. QED  BY <1>3, <1>5, <2>2 DEF LineAt
<1>. QED  BY <1>4, <1>5

\* When a rank has closed the graph, its lines are the nodes and edges of the whole
\* configuration, each once, inside one frame, whatever other ranks print between them.
THEOREM GraphsAreWhole == Spec => []GraphIsPrinted
<1>1. IInv => GraphIsPrinted
  <2> SUFFICES ASSUME IInv, NEW r \in Ranks, pc[r] = "closed"
               PROVE  /\ {Read(r, out[k].line) : k \in Body(r)} =
                           UNION {LinesOf(graph.entries[e]) : e \in DOMAIN graph.entries}
                      /\ \A k, l \in Body(r) : Read(r, out[k].line) = Read(r, out[l].line) => k = l
                      /\ \E k \in Mine(r) : out[k].line.kind = "open"
                      /\ \A k \in Mine(r) \ Body(r) :
                           \/ out[k].line.kind = "open" /\ \A l \in Mine(r) : k <= l
                           \/ out[k].line.kind = "close" /\ format = "graphviz" /\ \A l \in Mine(r) : l <= k
                      /\ format = "graphviz" => \E k \in Mine(r) : out[k].line.kind = "close"
    BY DEF GraphIsPrinted
  <2> DEFINE lines == Printed(r)
             a == at[r]
             d == Passed(r)
  <2>1. /\ IsGraph(graph) /\ a \in Nat /\ a > Len(graph.entries)
        /\ Numbered(graph, ids[r], a, d)
        /\ BodyHolds(graph, a, d, lines)
    BY TypeFacts DEF IInv, RankInv
  <2>2. FrameHolds(format = "graphviz", TRUE, lines)
    <3>1. (pc[r] = "closed") = TRUE
      OBVIOUS
    <3>2. FrameHolds(format = "graphviz", pc[r] = "closed", lines)
      BY DEF IInv, RankInv
    <3>. QED  BY <3>1, <3>2
  <2>3. /\ Mine(r) = DOMAIN lines /\ Body(r) = BodyOf(lines)
        /\ \A k \in Mine(r) : out[k].line = lines[k]
    BY DEF Printed, BodyOf, Body
  <2> HIDE DEF a, d, lines
  <2>4. \A e \in DOMAIN graph.entries : \A c : UpTo(e, c, a, d)
    <3>1. \A e \in DOMAIN graph.entries : e < a
      BY <2>1, GraphFacts
    <3>. QED  BY <3>1 DEF UpTo
  <2>5. ASSUME NEW e \in DOMAIN graph.entries, NEW c \in Places(graph, e)
        PROVE  Read(r, LineAt(graph, e, c)) = Meaning(graph, e, c)
    BY <2>1, <2>4, ReadLine
  <2>6. ASSUME NEW k \in Body(r)
        PROVE  \E e \in DOMAIN graph.entries : \E c \in Places(graph, e) :
                 /\ out[k].line = LineAt(graph, e, c)
                 /\ lines[k] = LineAt(graph, e, c)
                 /\ Read(r, out[k].line) = Meaning(graph, e, c)
    <3>1. PICK e \in DOMAIN graph.entries : \E c \in Places(graph, e) : lines[k] = LineAt(graph, e, c)
      BY <2>1, <2>3 DEF BodyHolds
    <3>2. PICK c \in Places(graph, e) : lines[k] = LineAt(graph, e, c)
      BY <3>1
    <3>3. out[k].line = lines[k]
      BY <2>3 DEF Body
    <3>. QED  BY <2>5, <3>2, <3>3
  <2>7. {Read(r, out[k].line) : k \in Body(r)} =
          UNION {LinesOf(graph.entries[e]) : e \in DOMAIN graph.entries}
    <3>1. ASSUME NEW k \in Body(r)
          PROVE  Read(r, out[k].line) \in UNION {LinesOf(graph.entries[e]) : e \in DOMAIN graph.entries}
      BY <2>1, <2>6, EntryLines
    <3>2. ASSUME NEW e \in DOMAIN graph.entries, NEW x \in LinesOf(graph.entries[e])
          PROVE  \E k \in Body(r) : x = Read(r, out[k].line)
      <4>1. PICK c \in Places(graph, e) : x = Meaning(graph, e, c)
        BY <2>1, EntryLines
      <4>2. PICK k \in BodyOf(lines) : lines[k] = LineAt(graph, e, c)
        BY <2>1, <2>4 DEF BodyHolds
      <4>3. k \in Body(r) /\ out[k].line = LineAt(graph, e, c)
        BY <2>3, <4>2 DEF Body
      <4>. QED  BY <2>5, <4>1, <4>3
    <3>. QED  BY <3>1, <3>2
  <2>8. ASSUME NEW k \in Body(r), NEW l \in Body(r), Read(r, out[k].line) = Read(r, out[l].line)
        PROVE  k = l
    <3>1. lines[k] = lines[l]
      BY <2>6, <2>8, SameMeaning
    <3>. QED  BY <2>1, <2>3, <3>1 DEF BodyHolds
  <2>9. \E k \in Mine(r) : out[k].line.kind = "open"
    BY <2>2, <2>3 DEF FrameHolds
  <2>10. \A k \in Mine(r) \ Body(r) :
           \/ out[k].line.kind = "open" /\ \A l \in Mine(r) : k <= l
           \/ out[k].line.kind = "close" /\ format = "graphviz" /\ \A l \in Mine(r) : l <= k
    BY <2>2, <2>3 DEF FrameHolds
  <2>11. format = "graphviz" => \E k \in Mine(r) : out[k].line.kind = "close"
    BY <2>2, <2>3 DEF FrameHolds
  <2>. QED  BY <2>7, <2>8, <2>9, <2>10, <2>11
<1>. QED  BY <1>1, Inductive, PTL

=============================================================================
