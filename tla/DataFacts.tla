------------------------------ MODULE DataFacts ------------------------------
(***************************************************************************)
(* Facts about numbers, sets and sequences that the proofs share: least    *)
(* and greatest elements, induction stated of a set instead of a           *)
(* predicate, and sequences whose elements have no simple type.            *)
(***************************************************************************)
EXTENDS Naturals, Sequences, FiniteSets, FiniteSetsExt, Progress,
        FiniteSetTheorems, WellFoundedInduction, TLAPS

\* A set of natural numbers has a least element.
LEMMA LeastNatural ==
  ASSUME NEW S \in SUBSET Nat, S # {}
  PROVE  \E m \in S : \A k \in S : m <= k
<1>1. PICK m \in S : \A k \in S : ~ (<<k, m>> \in OpToRel(<, Nat))
  BY NatLessThanWellFounded, WFMin, Zenon
<1>2. \A k \in S : ~ (k < m)
  BY <1>1 DEF OpToRel
<1>. QED  BY <1>2

\* Induction: a set with 0 and all successors of its elements has all numbers.
LEMMA SetInduction ==
  ASSUME NEW S, 0 \in S, \A n \in Nat : n \in S => n + 1 \in S
  PROVE  Nat \subseteq S
<1> SUFFICES ASSUME Nat \ S # {} PROVE FALSE
  OBVIOUS
<1>1. PICK m \in Nat \ S : \A k \in Nat \ S : m <= k
  BY LeastNatural
<1>2. m - 1 \in Nat /\ m - 1 \notin Nat \ S
  BY <1>1
<1>. QED  BY <1>1, <1>2

\* The elements of a finite set of natural numbers can be counted from the least.
LEMMA RankedElement ==
  ASSUME NEW S \in SUBSET Nat, IsFiniteSet(S), NEW n \in Nat, n < Cardinality(S)
  PROVE  \E k \in S : Cardinality({l \in S : l < k}) = n
<1> DEFINE Below(k) == {l \in S : l < k}
           Ranks == {m \in Nat : m < Cardinality(S) => \E k \in S : Cardinality(Below(k)) = m}
<1>1. Cardinality(S) \in Nat
  BY FS_CardinalityType
<1>2. \A k \in S : IsFiniteSet(Below(k)) /\ Cardinality(Below(k)) \in Nat
  BY FS_Subset, FS_CardinalityType
<1>3. \A k \in S : Cardinality(Below(k) \cup {k}) = Cardinality(Below(k)) + 1
  BY <1>2, FS_AddElement
<1>4. 0 \in Ranks
  <2> SUFFICES ASSUME 0 < Cardinality(S) PROVE \E k \in S : Cardinality(Below(k)) = 0
    OBVIOUS
  <2>1. S # {}
    BY FS_EmptySet
  <2>2. PICK k \in S : \A l \in S : k <= l
    BY <2>1, LeastNatural
  <2>3. Below(k) = {}
    <3>1. \A l \in S : ~ (l < k)
      BY <2>2
    <3>. QED  BY <3>1
  <2>4. Cardinality(Below(k)) = 0
    <3> HIDE DEF Below
    <3>. QED  BY <2>3, FS_EmptySet
  <2>. QED  BY <2>4
<1>5. ASSUME NEW m \in Nat, m \in Ranks PROVE m + 1 \in Ranks
  <2> SUFFICES ASSUME m + 1 < Cardinality(S) PROVE \E k \in S : Cardinality(Below(k)) = m + 1
    OBVIOUS
  <2>1. PICK k \in S : Cardinality(Below(k)) = m
    <3>1. m < Cardinality(S)
      BY <1>1
    <3>. QED  BY <3>1, <1>5
  <2> DEFINE Above == {l \in S : k < l}
             UpTo == Below(k) \cup {k}
  <2>2. UpTo \subseteq S /\ Cardinality(UpTo) = m + 1
    <3>1. Cardinality(UpTo) = m + 1
      <4> HIDE DEF Below
      <4>. QED  BY <1>3, <2>1
    <3>. QED  BY <3>1
  <2>3. Above # {}
    <3>1. PICK l \in S : l \notin UpTo
      <4> HIDE DEF UpTo
      <4>1. UpTo # S
        BY <1>1, <2>2
      <4>. QED  BY <2>2, <4>1
    <3>2. l \in Above
      BY <3>1
    <3>. QED  BY <3>2
  <2>4. PICK h \in Above : \A l \in Above : h <= l
    BY <2>3, LeastNatural
  <2>5. Below(h) = UpTo
    <3>1. \A l \in S : l < h <=> l < k \/ l = k
      <4>1. h \in Nat /\ k \in Nat /\ k < h
        BY <2>4
      <4>2. \A l \in S : k < l => ~ (l < h)
        BY <2>4, <4>1
      <4>. QED  BY <4>1, <4>2
    <3>. QED  BY <3>1
  <2>6. Cardinality(Below(h)) = m + 1
    <3> HIDE DEF Below, UpTo
    <3>. QED  BY <2>2, <2>5
  <2>7. h \in S
    BY <2>4
  <2>. QED  BY <2>6, <2>7
<1>6. Nat \subseteq Ranks
  <2>. HIDE DEF Ranks
  <2>. QED  BY <1>4, <1>5, SetInduction
<1>. QED  BY <1>6

\* A finite set of natural numbers has a greatest element, and Max is it.
LEMMA MaxFacts ==
  ASSUME NEW S \in SUBSET Nat, S # {}, IsFiniteSet(S)
  PROVE  Max(S) \in S /\ \A x \in S : x <= Max(S)
<1>1. PICK n \in Nat : ExistsBijection(1..n, S)
  BY FS_NatBijection
<1>2. PICK f \in Bijection(1..n, S) : TRUE
  BY <1>1 DEF ExistsBijection
<1>3. f \in [1..n -> S] /\ \A x \in S : \E i \in 1..n : f[i] = x
  BY <1>2 DEF Bijection, Injection, Surjection
<1> DEFINE Bounded == {k \in Nat : k <= n => \E b \in Nat : \A i \in 1..k : f[i] <= b}
<1>4. Nat \subseteq Bounded
  <2>1. 0 \in Bounded
    OBVIOUS
  <2>2. ASSUME NEW k \in Nat, k \in Bounded PROVE k + 1 \in Bounded
    <3> SUFFICES ASSUME k + 1 <= n PROVE \E b \in Nat : \A i \in 1..(k + 1) : f[i] <= b
      OBVIOUS
    <3>1. PICK b \in Nat : \A i \in 1..k : f[i] <= b
      BY <2>2
    <3>2. \A i \in 1..(k + 1) : f[i] \in Nat
      <4>1. \A i \in 1..(k + 1) : i \in 1..n
        OBVIOUS
      <4>. QED  BY <1>3, <4>1
    <3>3. PICK c \in Nat : b <= c /\ f[k + 1] <= c
      <4>1. f[k + 1] \in Nat
        BY <3>2
      <4>. QED  BY <4>1
    <3>4. \A i \in 1..(k + 1) : i \in 1..k \/ i = k + 1
      OBVIOUS
    <3>5. \A i \in 1..(k + 1) : f[i] <= c
      BY <3>1, <3>2, <3>3, <3>4
    <3>. QED  BY <3>5
  <2>. HIDE DEF Bounded
  <2>. QED  BY <2>1, <2>2, SetInduction
<1> DEFINE Bounds == {b \in Nat : \A x \in S : x <= b}
<1>5. Bounds # {}
  <2>1. n \in Bounded
    BY <1>4
  <2>2. PICK b \in Nat : \A i \in 1..n : f[i] <= b
    BY <2>1
  <2>3. \A x \in S : x <= b
    BY <1>3, <2>2
  <2>. QED  BY <2>3
<1>6. PICK b \in Bounds : \A c \in Bounds : b <= c
  BY <1>5, LeastNatural
<1>7. b \in S
  <2> SUFFICES ASSUME b \notin S PROVE FALSE
    OBVIOUS
  <2>1. PICK x \in S : TRUE
    OBVIOUS
  <2>2. \A y \in S : y <= b /\ y # b
    BY <1>6
  <2>3. b - 1 \in Bounds
    BY <1>6, <2>1, <2>2
  <2>. QED  BY <1>6, <2>3
<1>8. \E x \in S : \A y \in S : x >= y
  BY <1>6, <1>7
<1>9. Max(S) \in S /\ \A y \in S : Max(S) >= y
  BY <1>8 DEF Max
<1>. QED  BY <1>9

\* A sequence of anything.
IsSequence(s) == s \in Seq({s[i] : i \in DOMAIN s})

\* A sequence over a set is one over the set of its elements.
LEMMA SequenceOfItsElements ==
  ASSUME NEW S, NEW s \in Seq(S)
  PROVE  IsSequence(s)
<1>1. Len(s) \in Nat /\ DOMAIN s = 1..Len(s) /\ s = [i \in 1..Len(s) |-> s[i]]
  OBVIOUS
<1>2. \A i \in 1..Len(s) : s[i] \in {s[j] : j \in DOMAIN s}
  BY <1>1
<1>. QED  BY <1>1, <1>2 DEF IsSequence

\* Appending to such a sequence, in terms of domains and elements.
LEMMA AppendFacts ==
  ASSUME NEW s, IsSequence(s), NEW e
  PROVE  /\ IsSequence(Append(s, e))
         /\ DOMAIN Append(s, e) = DOMAIN s \cup {Len(s) + 1}
         /\ Len(Append(s, e)) = Len(s) + 1
         /\ Len(s) + 1 \notin DOMAIN s
         /\ \A i \in DOMAIN s : Append(s, e)[i] = s[i]
         /\ Append(s, e)[Len(s) + 1] = e
<1> DEFINE S == {s[i] : i \in DOMAIN s} \cup {e}
           t == Append(s, e)
<1>1. s \in Seq(S)
  <2>1. /\ Len(s) \in Nat
        /\ DOMAIN s = 1..Len(s)
    BY DEF IsSequence
  <2>2. \A i \in 1..Len(s) : s[i] \in S
    BY <2>1
  <2>3. s = [i \in 1..Len(s) |-> s[i]]
    BY <2>1 DEF IsSequence
  <2>. QED  BY <2>1, <2>2, <2>3
<1>2. /\ t \in Seq(S)
      /\ Len(s) \in Nat
      /\ DOMAIN s = 1..Len(s)
      /\ Len(t) = Len(s) + 1
      /\ DOMAIN t = 1..Len(t)
      /\ \A i \in 1..Len(s) : t[i] = s[i]
      /\ t[Len(s) + 1] = e
  BY <1>1
<1>3. IsSequence(t)
  BY <1>2, SequenceOfItsElements
<1>. QED  BY <1>2, <1>3

\* A function on the numbers up to n is a sequence of length n.
LEMMA SequenceOfNumbers ==
  ASSUME NEW n \in Nat, NEW s, s = [i \in 1..n |-> s[i]]
  PROVE  IsSequence(s) /\ Len(s) = n /\ DOMAIN s = 1..n
<1>1. DOMAIN s = 1..n
  OBVIOUS
<1>2. \A i \in 1..n : s[i] \in {s[j] : j \in DOMAIN s}
  BY <1>1
<1>3. s \in [1..n -> {s[j] : j \in DOMAIN s}]
  BY <1>2
<1>4. IsSequence(s)
  BY <1>3 DEF IsSequence
<1>5. Len(s) = n
  BY <1>1, <1>4 DEF IsSequence
<1>. QED  BY <1>1, <1>4, <1>5

\* A sequence that is one element longer than another.
LEMMA IsAppend ==
  ASSUME NEW s, IsSequence(s), NEW t, IsSequence(t), NEW e, Len(t) = Len(s) + 1,
         \A i \in 1..Len(s) : t[i] = s[i], t[Len(s) + 1] = e
  PROVE  t = Append(s, e)
<1> DEFINE u == Append(s, e)
<1>1. /\ IsSequence(u) /\ Len(u) = Len(s) + 1 /\ u[Len(s) + 1] = e
      /\ \A i \in DOMAIN s : u[i] = s[i]
  BY AppendFacts
<1>2. /\ Len(s) \in Nat /\ DOMAIN s = 1..Len(s)
      /\ u = [i \in 1..Len(u) |-> u[i]] /\ t = [i \in 1..Len(t) |-> t[i]]
  <2>. HIDE DEF u
  <2>. QED  BY <1>1 DEF IsSequence
<1>. HIDE DEF u
<1>3. \A i \in 1..(Len(s) + 1) : i \in 1..Len(s) \/ i = Len(s) + 1
  BY <1>2
<1>4. \A i \in 1..(Len(s) + 1) : u[i] = t[i]
  BY <1>1, <1>2, <1>3
<1>5. u = t
  BY <1>1, <1>2, <1>4
<1>. QED  BY <1>5 DEF u

\* The first number that differs decides between two positions.
LEMMA LaterAt ==
  ASSUME NEW p, NEW q, NEW n \in DOMAIN p, p[n] < q[n], \A m \in 1..(n - 1) : p[m] = q[m]
  PROVE  Later(p, q)
BY DEF Later

LEMMA LaterPair ==
  ASSUME NEW a1 \in Nat, NEW a2 \in Nat, NEW b1 \in Nat, NEW b2 \in Nat,
         a1 < b1 \/ (a1 = b1 /\ a2 < b2)
  PROVE  Later(<<a1, a2>>, <<b1, b2>>)
<1>1. CASE a1 < b1
  <2>1. 1 \in DOMAIN <<a1, a2>> /\ <<a1, a2>>[1] < <<b1, b2>>[1]
    BY <1>1
  <2>2. 1..(1 - 1) = {}
    OBVIOUS
  <2>. QED  BY <2>1, <2>2 DEF Later
<1>2. CASE a1 = b1 /\ a2 < b2
  <2>1. 2 \in DOMAIN <<a1, a2>> /\ <<a1, a2>>[2] < <<b1, b2>>[2] /\ <<a1, a2>>[1] = <<b1, b2>>[1]
    BY <1>2
  <2>2. 1..(2 - 1) = {1}
    OBVIOUS
  <2>. QED  BY <2>1, <2>2 DEF Later
<1>. QED  BY <1>1, <1>2

LEMMA LaterTriple ==
  ASSUME NEW a1 \in Nat, NEW a2 \in Nat, NEW a3 \in Nat,
         NEW b1 \in Nat, NEW b2 \in Nat, NEW b3 \in Nat,
         a1 < b1 \/ (a1 = b1 /\ (a2 < b2 \/ (a2 = b2 /\ a3 < b3)))
  PROVE  Later(<<a1, a2, a3>>, <<b1, b2, b3>>)
<1> DEFINE p == <<a1, a2, a3>>
           q == <<b1, b2, b3>>
<1>1. /\ DOMAIN p = 1..3
      /\ p[1] = a1 /\ p[2] = a2 /\ p[3] = a3
      /\ q[1] = b1 /\ q[2] = b2 /\ q[3] = b3
  OBVIOUS
<1> HIDE DEF p, q
<1>2. \E n \in 1..3 : p[n] < q[n] /\ \A m \in 1..(n - 1) : p[m] = q[m]
  <2>1. CASE a1 < b1
    <3>. WITNESS 1 \in 1..3
    <3>. QED  BY <1>1, <2>1
  <2>2. CASE a1 = b1 /\ a2 < b2
    <3>. WITNESS 2 \in 1..3
    <3>. QED  BY <1>1, <2>2
  <2>3. CASE a1 = b1 /\ a2 = b2 /\ a3 < b3
    <3>. WITNESS 3 \in 1..3
    <3>. QED  BY <1>1, <2>3
  <2>. QED  BY <2>1, <2>2, <2>3
<1>. QED  BY <1>1, <1>2 DEF Later, p, q

=============================================================================
