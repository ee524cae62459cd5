---------------------------- MODULE SettingsProofs ----------------------------
(***************************************************************************)
(* Theorems about Settings, and about the conversion it calls, for any     *)
(* plugin, any configurations and options of any length.                   *)
(***************************************************************************)
EXTENDS Settings, SequenceTheorems, DataFacts

-----------------------------------------------------------------------------
(***************************************************************************)
(* Numbers of a set, in their order.                                       *)
(***************************************************************************)
UpToOf(S, e) == {f \in S : f <= e}

LEMMA UpToGrows ==
  ASSUME NEW S \in SUBSET Nat, IsFiniteSet(S), NEW a \in S, NEW b \in S, a < b
  PROVE  Cardinality(UpToOf(S, a)) < Cardinality(UpToOf(S, b))
<1>1. /\ IsFiniteSet(UpToOf(S, b)) /\ UpToOf(S, a) \subseteq UpToOf(S, b)
      /\ UpToOf(S, a) # UpToOf(S, b)
  <2>1. UpToOf(S, b) \in SUBSET S
    BY DEF UpToOf
  <2>2. IsFiniteSet(UpToOf(S, b))
    BY <2>1, FS_Subset
  <2>3. b \in UpToOf(S, b) /\ b \notin UpToOf(S, a)
    BY DEF UpToOf
  <2>4. \A f \in S : f <= a => f <= b
    <3>1. \A f \in S : f \in Nat
      OBVIOUS
    <3>. QED  BY <3>1
  <2>5. UpToOf(S, a) \subseteq UpToOf(S, b)
    BY <2>4 DEF UpToOf
  <2>. QED  BY <2>2, <2>3, <2>5
<1>2. /\ IsFiniteSet(UpToOf(S, a)) /\ Cardinality(UpToOf(S, a)) <= Cardinality(UpToOf(S, b))
      /\ Cardinality(UpToOf(S, b)) = Cardinality(UpToOf(S, a)) => UpToOf(S, b) = UpToOf(S, a)
  <2>1. UpToOf(S, a) \in SUBSET UpToOf(S, b)
    BY <1>1
  <2>. QED  BY <1>1, <2>1, FS_Subset, Zenon
<1>3. Cardinality(UpToOf(S, a)) \in Nat /\ Cardinality(UpToOf(S, b)) \in Nat
  BY <1>1, <1>2, FS_CardinalityType
<1>. QED  BY <1>1, <1>2, <1>3

LEMMA RankIsUnique ==
  ASSUME NEW S \in SUBSET Nat, IsFiniteSet(S), NEW a \in S, NEW b \in S,
         Cardinality(UpToOf(S, a)) = Cardinality(UpToOf(S, b))
  PROVE  a = b
<1>1. /\ Cardinality(UpToOf(S, a)) \in Nat /\ Cardinality(UpToOf(S, b)) \in Nat
      /\ a \in Nat /\ b \in Nat
  <2>1. UpToOf(S, a) \in SUBSET S /\ UpToOf(S, b) \in SUBSET S
    BY DEF UpToOf
  <2>. QED  BY <2>1, FS_Subset, FS_CardinalityType
<1>2. ~ (a < b) /\ ~ (b < a)
  BY <1>1, UpToGrows
<1>. QED  BY <1>1, <1>2

LEMMA RankIsNth ==
  ASSUME NEW S \in SUBSET Nat, IsFiniteSet(S), NEW e \in S
  PROVE  /\ Cardinality(UpToOf(S, e)) \in 1..Cardinality(S)
         /\ Nth(S, Cardinality(UpToOf(S, e))) = e
<1>1. Cardinality(UpToOf(S, e)) \in 1..Cardinality(S)
  <2>1. UpToOf(S, e) \in SUBSET S /\ e \in UpToOf(S, e)
    BY DEF UpToOf
  <2>2. /\ IsFiniteSet(UpToOf(S, e)) /\ Cardinality(UpToOf(S, e)) <= Cardinality(S)
        /\ Cardinality(UpToOf(S, e)) \in Nat /\ Cardinality(S) \in Nat
    BY <2>1, FS_Subset, FS_CardinalityType
  <2>3. Cardinality(UpToOf(S, e)) # 0
    BY <2>1, <2>2, FS_EmptySet
  <2>. QED  BY <2>2, <2>3
<1>2. \A f \in S : Cardinality(UpToOf(S, f)) = Cardinality(UpToOf(S, e)) => f = e
  BY RankIsUnique
<1>3. Nth(S, Cardinality(UpToOf(S, e))) =
        CHOOSE f \in S : Cardinality(UpToOf(S, f)) = Cardinality(UpToOf(S, e))
  BY DEF Nth, UpToOf
<1>. QED  BY <1>1, <1>2, <1>3

LEMMA NthFacts ==
  ASSUME NEW S \in SUBSET Nat, IsFiniteSet(S), NEW n \in 1..Cardinality(S)
  PROVE  Nth(S, n) \in S /\ Cardinality(UpToOf(S, Nth(S, n))) = n
<1>1. Cardinality(S) \in Nat
  BY FS_CardinalityType
<1>2. PICK e \in S : Cardinality({l \in S : l < e}) = n - 1
  <2>1. n - 1 \in Nat /\ n - 1 < Cardinality(S)
    BY <1>1
  <2>. QED  BY <2>1, RankedElement
<1>3. Cardinality(UpToOf(S, e)) = n
  <2> DEFINE Below == {l \in S : l < e}
  <2>1. Below \in SUBSET S /\ e \notin Below /\ UpToOf(S, e) = Below \cup {e}
    <3>1. \A f \in S : f \in Nat
      OBVIOUS
    <3>2. e \notin Below /\ \A f \in S : f <= e <=> f \in Below \/ f = e
      BY <3>1
    <3>3. UpToOf(S, e) = Below \cup {e}
      BY <3>2 DEF UpToOf
    <3>. QED  BY <3>2, <3>3
  <2>2. Cardinality(Below) = n - 1
    BY <1>2
  <2>3. IsFiniteSet(Below)
    BY <2>1, FS_Subset
  <2> HIDE DEF Below
  <2>4. Cardinality(Below \cup {e}) = Cardinality(Below) + 1
    BY <2>1, <2>3, FS_AddElement
  <2>. QED  BY <1>1, <2>1, <2>2, <2>4
<1>4. Nth(S, Cardinality(UpToOf(S, e))) = e
  BY RankIsNth
<1>. QED  BY <1>2, <1>3, <1>4

\* Numbers up to a bound are such a set.
LEMMA BoundedNumbers ==
  ASSUME NEW n \in Nat, NEW S \in SUBSET (1..n)
  PROVE  S \in SUBSET Nat /\ IsFiniteSet(S) /\ Cardinality(S) \in Nat
<1>1. IsFiniteSet(1..n)
  BY FS_Interval
<1>2. IsFiniteSet(S)
  BY <1>1, FS_Subset
<1>. QED  BY <1>2, FS_CardinalityType

\* A number above all others is the last.
LEMMA NthAdd ==
  ASSUME NEW n \in Nat, NEW S \in SUBSET (1..n)
  PROVE  /\ Cardinality(S \cup {n + 1}) = Cardinality(S) + 1
         /\ Nth(S \cup {n + 1}, Cardinality(S) + 1) = n + 1
         /\ \A i \in 1..Cardinality(S) : Nth(S \cup {n + 1}, i) = Nth(S, i)
<1> DEFINE T == S \cup {n + 1}
<1>1. /\ S \in SUBSET Nat /\ IsFiniteSet(S) /\ Cardinality(S) \in Nat
      /\ T \in SUBSET Nat /\ IsFiniteSet(T) /\ n + 1 \notin S
  <2>1. T \in SUBSET (1..(n + 1)) /\ n + 1 \in Nat /\ n + 1 \notin S
    <3>1. \A e \in 1..n : e \in 1..(n + 1) /\ e # n + 1
      OBVIOUS
    <3>. QED  BY <3>1
  <2>2. S \in SUBSET Nat /\ IsFiniteSet(S) /\ Cardinality(S) \in Nat
    BY BoundedNumbers
  <2>. HIDE DEF T
  <2>3. T \in SUBSET Nat /\ IsFiniteSet(T)
    BY <2>1, BoundedNumbers
  <2>. QED  BY <2>1, <2>2, <2>3
<1>2. Cardinality(T) = Cardinality(S) + 1
  BY <1>1, FS_AddElement
<1>3. Nth(T, Cardinality(S) + 1) = n + 1
  <2>1. UpToOf(T, n + 1) = T /\ n + 1 \in T
    <3>1. \A f \in T : f <= n + 1
      OBVIOUS
    <3>. QED  BY <3>1 DEF UpToOf
  <2>. HIDE DEF T
  <2>. QED  BY <1>1, <1>2, <2>1, RankIsNth
<1>4. ASSUME NEW i \in 1..Cardinality(S) PROVE Nth(T, i) = Nth(S, i)
  <2>1. PICK e \in S : e = Nth(S, i) /\ Cardinality(UpToOf(S, e)) = i
    BY <1>1, NthFacts
  <2>2. UpToOf(T, e) = UpToOf(S, e) /\ e \in T
    BY DEF UpToOf
  <2>. HIDE DEF T
  <2>. QED  BY <1>1, <2>1, <2>2, RankIsNth
<1>. QED  BY <1>2, <1>3, <1>4

-----------------------------------------------------------------------------
(***************************************************************************)
(* The entries a conversion has come past.                                 *)
(***************************************************************************)
Prefix(m, n) == [e \in 1..n |-> m[e]]

LEMMA PrefixFacts ==
  ASSUME NEW m, NEW n \in Nat, NEW k
  PROVE  /\ EntriesOf(Prefix(m, n), k) = {e \in 1..n : m[e].key = k}
         /\ EntriesOf(Prefix(m, n), k) \in SUBSET (1..n)
         /\ k \in KeysOf(Prefix(m, n)) <=> \E e \in 1..n : m[e].key = k
         /\ k \in KeysOf(Prefix(m, n)) <=> EntriesOf(Prefix(m, n), k) # {}
         /\ m[n + 1].key = k =>
              EntriesOf(Prefix(m, n + 1), k) = EntriesOf(Prefix(m, n), k) \cup {n + 1}
         /\ m[n + 1].key # k => EntriesOf(Prefix(m, n + 1), k) = EntriesOf(Prefix(m, n), k)
         /\ KeysOf(Prefix(m, n + 1)) = KeysOf(Prefix(m, n)) \cup {m[n + 1].key}
<1>1. \A e : e \in 1..(n + 1) <=> e \in 1..n \/ e = n + 1
  OBVIOUS
<1>2. EntriesOf(Prefix(m, n), k) = {e \in 1..n : m[e].key = k}
  BY DEF Prefix, EntriesOf
<1>3. EntriesOf(Prefix(m, n + 1), k) = {e \in 1..(n + 1) : m[e].key = k}
  BY DEF Prefix, EntriesOf
<1>4. KeysOf(Prefix(m, n)) = {m[e].key : e \in 1..n}
  BY DEF Prefix, KeysOf
<1>5. KeysOf(Prefix(m, n + 1)) = {m[e].key : e \in 1..(n + 1)}
  BY DEF Prefix, KeysOf
<1>6. KeysOf(Prefix(m, n + 1)) = KeysOf(Prefix(m, n)) \cup {m[n + 1].key}
  BY <1>1, <1>4, <1>5
<1>7. k \in KeysOf(Prefix(m, n)) <=> \E e \in 1..n : m[e].key = k
  BY <1>4
<1>8. /\ m[n + 1].key = k =>
           EntriesOf(Prefix(m, n + 1), k) = EntriesOf(Prefix(m, n), k) \cup {n + 1}
      /\ m[n + 1].key # k => EntriesOf(Prefix(m, n + 1), k) = EntriesOf(Prefix(m, n), k)
  BY <1>1, <1>2, <1>3
<1>9. EntriesOf(Prefix(m, n), k) \in SUBSET (1..n)
  BY <1>2
<1>10. k \in KeysOf(Prefix(m, n)) <=> EntriesOf(Prefix(m, n), k) # {}
  BY <1>2, <1>7
<1>. QED  BY <1>2, <1>6, <1>7, <1>8, <1>9, <1>10

LEMMA OtherValues ==
  ASSUME NEW m, NEW n \in Nat, NEW k, m[n + 1].key # k
  PROVE  ValuesOf(Prefix(m, n + 1), k) = ValuesOf(Prefix(m, n), k)
<1> DEFINE S == EntriesOf(Prefix(m, n), k)
<1>1. EntriesOf(Prefix(m, n + 1), k) = S /\ S \in SUBSET (1..n)
  BY PrefixFacts
<1>. HIDE DEF S
<1>2. \A i \in 1..Cardinality(S) : Nth(S, i) \in 1..n
  BY <1>1, BoundedNumbers, NthFacts
<1>3. \A e \in 1..n : Prefix(m, n + 1)[e] = Prefix(m, n)[e]
  BY DEF Prefix
<1>4. \A i \in 1..Cardinality(S) :
        Prefix(m, n + 1)[Nth(S, i)].value = Prefix(m, n)[Nth(S, i)].value
  BY <1>2, <1>3
<1>5. /\ ValuesOf(Prefix(m, n), k) = [i \in 1..Cardinality(S) |-> Prefix(m, n)[Nth(S, i)].value]
      /\ ValuesOf(Prefix(m, n + 1), k) =
           [i \in 1..Cardinality(S) |-> Prefix(m, n + 1)[Nth(S, i)].value]
  BY <1>1 DEF ValuesOf, S
<1>. QED  BY <1>4, <1>5

LEMMA MoreValues ==
  ASSUME NEW m, NEW n \in Nat, NEW k, m[n + 1].key = k
  PROVE  /\ ValuesOf(Prefix(m, n + 1), k) = Append(ValuesOf(Prefix(m, n), k), m[n + 1].value)
         /\ k \notin KeysOf(Prefix(m, n)) => ValuesOf(Prefix(m, n + 1), k) = <<m[n + 1].value>>
<1> DEFINE S == EntriesOf(Prefix(m, n), k)
           old == ValuesOf(Prefix(m, n), k)
           new == ValuesOf(Prefix(m, n + 1), k)
           c == Cardinality(S)
<1>1. /\ EntriesOf(Prefix(m, n + 1), k) = S \cup {n + 1} /\ S \in SUBSET (1..n)
      /\ k \in KeysOf(Prefix(m, n)) <=> S # {}
  BY PrefixFacts
<1>2. /\ old = [i \in 1..Cardinality(S) |-> Prefix(m, n)[Nth(S, i)].value]
      /\ new = [i \in 1..Cardinality(S \cup {n + 1}) |-> Prefix(m, n + 1)[Nth(S \cup {n + 1}, i)].value]
  BY <1>1 DEF ValuesOf
<1>. HIDE DEF S, old, new
<1>3. /\ c \in Nat /\ Cardinality(S \cup {n + 1}) = c + 1
      /\ \A i \in 1..c : Nth(S, i) \in 1..n /\ Nth(S \cup {n + 1}, i) = Nth(S, i)
      /\ Nth(S \cup {n + 1}, c + 1) = n + 1
  BY <1>1, BoundedNumbers, NthFacts, NthAdd
<1>. HIDE DEF c
<1>4. old = [i \in 1..c |-> m[Nth(S, i)].value]
  <2>1. \A i \in 1..c : Prefix(m, n)[Nth(S, i)].value = m[Nth(S, i)].value
    BY <1>3 DEF Prefix
  <2>. QED  BY <1>2, <2>1 DEF c
<1>5. /\ DOMAIN new = 1..(c + 1)
      /\ \A i \in 1..c : new[i] = old[i]
      /\ new[c + 1] = m[n + 1].value
  <2>1. new = [i \in 1..(c + 1) |-> Prefix(m, n + 1)[Nth(S \cup {n + 1}, i)].value]
    BY <1>2, <1>3
  <2>2. \A i \in 1..c : Prefix(m, n + 1)[Nth(S, i)].value = m[Nth(S, i)].value
    BY <1>3 DEF Prefix
  <2>3. Prefix(m, n + 1)[n + 1].value = m[n + 1].value
    BY DEF Prefix
  <2>4. \A i \in 1..c : i \in 1..(c + 1)
    BY <1>3
  <2>5. c + 1 \in 1..(c + 1)
    BY <1>3
  <2>. QED  BY <1>3, <1>4, <2>1, <2>2, <2>3, <2>4, <2>5
<1>6. new = Append(old, m[n + 1].value)
  <2>1. IsSequence(old) /\ Len(old) = c /\ IsSequence(new) /\ Len(new) = c + 1
    <3>1. c + 1 \in Nat
      BY <1>3
    <3>2. old = [i \in 1..c |-> old[i]]
      BY <1>4
    <3>3. new = [i \in 1..(c + 1) |-> new[i]]
      BY <1>2, <1>3
    <3>. QED  BY <1>3, <3>1, <3>2, <3>3, SequenceOfNumbers
  <2>. QED  BY <1>5, <2>1, IsAppend
<1>7. S = {} => new = <<m[n + 1].value>>
  <2>1. S = {} => c = 0
    BY FS_EmptySet DEF c
  <2>2. c = 0 => new = [i \in 1..1 |-> m[n + 1].value]
    <3>1. new = [i \in 1..(c + 1) |-> new[i]]
      BY <1>2, <1>3
    <3>2. c = 0 => \A i \in 1..(c + 1) : i = 1
      OBVIOUS
    <3>. QED  BY <1>5, <3>1, <3>2
  <2>3. [i \in 1..1 |-> m[n + 1].value] = <<m[n + 1].value>>
    OBVIOUS
  <2>. QED  BY <2>1, <2>2, <2>3
<1>. QED  BY <1>1, <1>6, <1>7 DEF old, new

-----------------------------------------------------------------------------
(***************************************************************************)
(* A multimap made of the entries a user wrote.                            *)
(***************************************************************************)
Before(entries, f) == {e \in DOMAIN entries : Goes(entries, e, f)}
Place(entries, f) == Cardinality(Before(entries, f)) + 1
Entry(entries, n) == CHOOSE e \in DOMAIN entries : Place(entries, e) = n

LEMMA EntriesFacts ==
  ASSUME NEW entries \in Seq(Entries)
  PROVE  /\ Len(entries) \in Nat /\ DOMAIN entries = 1..Len(entries)
         /\ \A e \in 1..Len(entries) :
              /\ entries[e] \in Entries /\ entries[e].key \in Keys /\ entries[e].key \in Nat
              /\ entries[e].texts \in Seq(Texts) /\ entries[e].texts[1] \in Texts
              /\ TextOf(entries[e]) \in Texts
<1>1. /\ Len(entries) \in Nat /\ DOMAIN entries = 1..Len(entries)
      /\ \A e \in 1..Len(entries) : entries[e] \in Entries
  BY LenProperties, ElementOfSeq
<1>2. ASSUME NEW entry \in Entries
      PROVE  /\ entry.key \in Keys /\ entry.key \in Nat
             /\ entry.texts \in Seq(Texts) /\ entry.texts[1] \in Texts /\ TextOf(entry) \in Texts
  <2>1. /\ entry.key \in Keys /\ entry.texts \in Seq(Texts) /\ entry.texts # <<>>
    BY DEF Entries
  <2>2. entry.texts[1] \in Texts
    BY <2>1
  <2>3. TextOf(entry) \in Texts
    BY <2>2, TextsAssumption DEF TextOf
  <2>. QED  BY <2>1, <2>2, <2>3, KeysAssumption
<1>. QED  BY <1>1, <1>2

LEMMA PlaceFacts ==
  ASSUME NEW entries \in Seq(Entries), NEW f \in 1..Len(entries)
  PROVE  /\ Place(entries, f) \in 1..Len(entries)
         /\ \A g \in 1..Len(entries) :
              /\ f # g => Goes(entries, f, g) \/ Goes(entries, g, f)
              /\ Goes(entries, f, g) => Place(entries, f) < Place(entries, g)
<1> DEFINE N == Len(entries)
           D == 1..N
<1>1. /\ N \in Nat /\ DOMAIN entries = D /\ f \in D
      /\ \A e \in D : entries[e].key \in Nat /\ e \in Nat
  BY EntriesFacts
<1>2. \A g \in D : Before(entries, g) \in SUBSET D /\ g \notin Before(entries, g)
  BY <1>1 DEF Before, Goes
<1>3. \A g \in D : IsFiniteSet(Before(entries, g)) /\ Cardinality(Before(entries, g)) \in Nat
  BY <1>1, <1>2, BoundedNumbers
<1>4. Place(entries, f) \in 1..N
  <2>1. Cardinality(Before(entries, f) \cup {f}) = Cardinality(Before(entries, f)) + 1
    BY <1>1, <1>2, <1>3, FS_AddElement
  <2>2. IsFiniteSet(D) /\ Cardinality(D) = N
    BY <1>1, FS_Interval
  <2>3. Before(entries, f) \cup {f} \in SUBSET D
    BY <1>1, <1>2
  <2>. HIDE DEF D, N
  <2>4. Cardinality(Before(entries, f) \cup {f}) <= N
    BY <2>2, <2>3, FS_Subset
  <2>. QED  BY <1>1, <1>3, <2>1, <2>4 DEF Place
<1>5. ASSUME NEW g \in D, Goes(entries, f, g) PROVE Place(entries, f) < Place(entries, g)
  <2>1. \A e \in D : Goes(entries, e, f) => Goes(entries, e, g)
    BY <1>1, <1>5 DEF Goes
  <2>2. Before(entries, f) \in SUBSET Before(entries, g) /\ f \in Before(entries, g)
    BY <1>1, <1>5, <2>1 DEF Before
  <2>3. Before(entries, f) # Before(entries, g)
    BY <1>1, <1>2, <2>2
  <2>4. /\ Cardinality(Before(entries, f)) <= Cardinality(Before(entries, g))
        /\ Cardinality(Before(entries, g)) # Cardinality(Before(entries, f))
    BY <1>3, <2>2, <2>3, FS_Subset
  <2>5. /\ Cardinality(Before(entries, f)) \in Nat
        /\ Cardinality(Before(entries, g)) \in Nat
    BY <1>1, <1>3
  <2>. QED  BY <2>4, <2>5 DEF Place
<1>6. ASSUME NEW g \in D, f # g PROVE Goes(entries, f, g) \/ Goes(entries, g, f)
  BY <1>1, <1>6 DEF Goes
<1>. QED  BY <1>4, <1>5, <1>6

\* Place and Entry are inverse to each other.
LEMMA EntryFacts ==
  ASSUME NEW entries \in Seq(Entries)
  PROVE  /\ \A e \in 1..Len(entries) : Entry(entries, Place(entries, e)) = e
         /\ \A n \in 1..Len(entries) :
              Entry(entries, n) \in 1..Len(entries) /\ Place(entries, Entry(entries, n)) = n
<1> DEFINE N == Len(entries)
           D == 1..N
           place == [e \in D |-> Place(entries, e)]
<1>1. N \in Nat /\ DOMAIN entries = D /\ IsFiniteSet(D)
  BY EntriesFacts, FS_Interval
<1>2. \A e \in D : Place(entries, e) \in D /\ Place(entries, e) \in Nat
  BY PlaceFacts
<1>3. \A e, f \in D : Place(entries, e) = Place(entries, f) => e = f
  <2> SUFFICES ASSUME NEW e \in D, NEW f \in D, e # f PROVE Place(entries, e) # Place(entries, f)
    OBVIOUS
  <2>1. /\ Goes(entries, e, f) => Place(entries, e) < Place(entries, f)
        /\ Goes(entries, f, e) => Place(entries, f) < Place(entries, e)
        /\ Goes(entries, e, f) \/ Goes(entries, f, e)
    BY PlaceFacts
  <2>. QED  BY <1>2, <2>1
<1>4. place \in Injection(D, D)
  <2>1. place \in [D -> D]
    BY <1>2
  <2>2. \A e, f \in D : place[e] = place[f] => e = f
    BY <1>3
  <2>. HIDE DEF place
  <2>. QED  BY <2>1, <2>2 DEF Injection, IsInjective
<1>5. \A n \in D : \E e \in D : Place(entries, e) = n
  <2>. HIDE DEF D
  <2>1. place \in Surjection(D, D)
    <3>. HIDE DEF place
    <3>. QED  BY <1>1, <1>4, FS_Injection
  <2>. QED  BY <2>1 DEF Surjection
<1>6. ASSUME NEW n \in D PROVE Entry(entries, n) \in D /\ Place(entries, Entry(entries, n)) = n
  BY <1>1, <1>5 DEF Entry
<1>7. ASSUME NEW e \in D PROVE Entry(entries, Place(entries, e)) = e
  BY <1>2, <1>3, <1>6
<1>. QED  BY <1>6, <1>7

LEMMA MultimapFacts ==
  ASSUME NEW entries \in Seq(Entries)
  PROVE  /\ Multimap(entries) =
              [n \in 1..Len(entries) |->
                 [key |-> entries[Entry(entries, n)].key,
                  value |-> TextOf(entries[Entry(entries, n)])]]
         /\ Multimap(entries) \in Seq([key : Keys, value : Texts])
         /\ Len(Multimap(entries)) = Len(entries)
         /\ Ordered(Multimap(entries))
<1> DEFINE N == Len(entries)
           M == Multimap(entries)
<1>1. /\ N \in Nat /\ DOMAIN entries = 1..N
      /\ \A e \in 1..N : /\ entries[e].key \in Keys /\ entries[e].key \in Nat
                         /\ TextOf(entries[e]) \in Texts
  BY EntriesFacts
<1>2. M = [n \in 1..N |-> [key |-> entries[Entry(entries, n)].key,
                           value |-> TextOf(entries[Entry(entries, n)])]]
  BY <1>1 DEF Multimap, Entry, Place, Before
<1>3. \A n \in 1..N : Entry(entries, n) \in 1..N /\ Place(entries, Entry(entries, n)) = n
  BY EntryFacts
<1>. HIDE DEF M
<1>4. \A n \in 1..N : M[n] \in [key : Keys, value : Texts]
  BY <1>1, <1>2, <1>3
<1>5. M \in Seq([key : Keys, value : Texts]) /\ Len(M) = N /\ DOMAIN M = 1..N
  BY <1>1, <1>2, <1>4
<1>6. ASSUME NEW a \in 1..N, NEW b \in 1..N, a < b PROVE M[a].key <= M[b].key
  <2>1. /\ Entry(entries, a) \in 1..N /\ Place(entries, Entry(entries, a)) = a
        /\ Entry(entries, b) \in 1..N /\ Place(entries, Entry(entries, b)) = b
    BY <1>3
  <2>2. Entry(entries, a) # Entry(entries, b)
    BY <1>1, <1>6, <2>1
  <2>3. ~ Goes(entries, Entry(entries, b), Entry(entries, a))
    BY <1>1, <1>6, <2>1, PlaceFacts
  <2>4. Goes(entries, Entry(entries, a), Entry(entries, b))
    BY <2>1, <2>2, <2>3, PlaceFacts
  <2>5. entries[Entry(entries, a)].key <= entries[Entry(entries, b)].key
    BY <1>1, <2>1, <2>4 DEF Goes
  <2>. QED  BY <1>2, <2>5
<1>7. Ordered(M)
  BY <1>5, <1>6 DEF Ordered
<1>. QED  BY <1>2, <1>5, <1>7 DEF M

-----------------------------------------------------------------------------
(***************************************************************************)
(* The inductive invariant of a conversion: the options made so far are    *)
(* those of the entries it has come past, without their last key.          *)
(***************************************************************************)
Passed == Prefix(map, next - 1)

Made(m, key) == [k \in KeysOf(m) \ {key} |-> Option(ValuesOf(m, k))]

ConvertInv ==
  /\ map \in Seq([key : Keys, value : Texts]) /\ Ordered(map)
  /\ next \in 1..(Len(map) + 1)
  /\ values \in Seq(Texts)
  /\ done \in BOOLEAN
  /\ ~ done /\ next = 1 => values = <<>> /\ opt = <<>>
  /\ ~ done /\ next > 1 => values = ValuesOf(Passed, Key) /\ opt = Made(Passed, Key)
  /\ done => opt = FromMultimap(map)

LEMMA MapFacts ==
  ASSUME map \in Seq([key : Keys, value : Texts]), Ordered(map)
  PROVE  /\ Len(map) \in Nat /\ DOMAIN map = 1..Len(map)
         /\ \A e \in 1..Len(map) :
              map[e].key \in Keys /\ map[e].key \in Nat /\ map[e].value \in Texts
         /\ \A a, b \in 1..Len(map) : a < b => map[a].key <= map[b].key
         /\ Prefix(map, Len(map)) = map
<1>1. /\ Len(map) \in Nat /\ DOMAIN map = 1..Len(map)
      /\ \A e \in 1..Len(map) : map[e] \in [key : Keys, value : Texts]
      /\ map = [e \in 1..Len(map) |-> map[e]]
  <2> DEFINE R == [key : Keys, value : Texts]
  <2>1. map \in Seq(R)
    OBVIOUS
  <2>. HIDE DEF R
  <2>2. /\ Len(map) \in Nat /\ DOMAIN map = 1..Len(map)
        /\ \A e \in 1..Len(map) : map[e] \in R
        /\ map = [e \in 1..Len(map) |-> map[e]]
    BY <2>1
  <2>. QED  BY <2>2 DEF R
<1>2. \A e \in 1..Len(map) : map[e].key \in Keys /\ map[e].key \in Nat /\ map[e].value \in Texts
  BY <1>1, KeysAssumption
<1>3. \A a, b \in 1..Len(map) : a < b => map[a].key <= map[b].key
  BY <1>1 DEF Ordered
<1>. QED  BY <1>1, <1>2, <1>3 DEF Prefix

\* An entry was passed, so its key has a value.
LEMMA SomeValues ==
  ASSUME NEW m, NEW n \in Nat \ {0}
  PROVE  ValuesOf(Prefix(m, n), m[n].key) # <<>>
<1> DEFINE S == EntriesOf(Prefix(m, n), m[n].key)
<1>1. S = {e \in 1..n : m[e].key = m[n].key} /\ S \in SUBSET (1..n)
  BY PrefixFacts
<1>2. n \in S
  BY <1>1
<1>3. ValuesOf(Prefix(m, n), m[n].key) =
        [i \in 1..Cardinality(S) |-> Prefix(m, n)[Nth(S, i)].value]
  BY DEF ValuesOf
<1>. HIDE DEF S
<1>4. Cardinality(S) \in Nat /\ Cardinality(S) # 0
  <2>1. n \in Nat /\ S \in SUBSET (1..n) /\ S # {}
    BY <1>1, <1>2
  <2>2. IsFiniteSet(S) /\ Cardinality(S) \in Nat
    BY <2>1, BoundedNumbers
  <2>. QED  BY <2>1, <2>2, FS_EmptySet
<1>5. 1 \in DOMAIN ValuesOf(Prefix(m, n), m[n].key)
  BY <1>3, <1>4
<1>. QED  BY <1>5

LEMMA SameKeyKeeps ==
  ASSUME ConvertInv, SameKey
  PROVE  ConvertInv'
<1>1. PICK n \in Nat : next = n + 1 /\ next' = n + 2 /\ n + 1 <= Len(map)
  BY DEF ConvertInv, SameKey, AtEntry
<1>2. /\ map' = map /\ opt' = opt /\ done' = done /\ ~ done
      /\ values' = Append(values, map[n + 1].value)
      /\ n > 0 => map[n].key = map[n + 1].key
  BY <1>1 DEF SameKey, AtEntry, HasKey, Key
<1>3. /\ Len(map) \in Nat /\ map[n + 1].value \in Texts
      /\ Passed = Prefix(map, n) /\ Passed' = Prefix(map, n + 1)
      /\ Key' = map[n + 1].key /\ (n > 0 => Key = map[n].key)
  <2>1. n + 1 - 1 = n /\ n + 2 - 1 = n + 1 /\ n + 1 \in 1..Len(map)
    BY <1>1, MapFacts DEF ConvertInv
  <2>. QED  BY <1>1, <1>2, <2>1, MapFacts DEF ConvertInv, Passed, Key
<1>4. values' = ValuesOf(Prefix(map, n + 1), Key')
  <2>1. n = 0 => values = ValuesOf(Prefix(map, n), Key')
    <3> SUFFICES ASSUME n = 0 PROVE ValuesOf(Prefix(map, 0), Key') = <<>>
      BY <1>1, <1>2 DEF ConvertInv
    <3>1. EntriesOf(Prefix(map, 0), Key') = {}
      BY PrefixFacts
    <3>. QED  BY <3>1, FS_EmptySet DEF ValuesOf
  <2>2. n > 0 => values = ValuesOf(Prefix(map, n), Key')
    BY <1>1, <1>2, <1>3 DEF ConvertInv
  <2>. QED  BY <1>2, <1>3, <2>1, <2>2, MoreValues
<1>5. opt' = Made(Prefix(map, n + 1), Key')
  <2> DEFINE k0 == map[n + 1].key
  <2>1. KeysOf(Prefix(map, n + 1)) = KeysOf(Prefix(map, n)) \cup {k0}
    BY PrefixFacts
  <2>2. \A k : k # k0 => ValuesOf(Prefix(map, n + 1), k) = ValuesOf(Prefix(map, n), k)
    BY OtherValues
  <2>3. Made(Prefix(map, n + 1), k0) = Made(Prefix(map, n), k0)
    BY <2>1, <2>2 DEF Made
  <2>4. n = 0 => opt = Made(Prefix(map, n), k0)
    <3>1. n = 0 => KeysOf(Prefix(map, n)) = {}
      BY PrefixFacts
    <3>2. n = 0 => opt = <<>>
      BY <1>1, <1>2 DEF ConvertInv
    <3>. QED  BY <3>1, <3>2 DEF Made
  <2>5. n > 0 => opt = Made(Prefix(map, n), k0)
    BY <1>1, <1>2, <1>3 DEF ConvertInv
  <2>. QED  BY <1>2, <1>3, <2>3, <2>4, <2>5
<1>6. values' \in Seq(Texts) /\ next' \in 1..(Len(map) + 1) /\ next' # 1
  BY <1>1, <1>2, <1>3 DEF ConvertInv
<1>. QED  BY <1>2, <1>3, <1>4, <1>5, <1>6 DEF ConvertInv

LEMMA NewKeyKeeps ==
  ASSUME ConvertInv, NewKey
  PROVE  ConvertInv' /\ Key \notin DOMAIN opt
<1>1. PICK n \in Nat \ {0} : next = n + 1 /\ next' = n + 2 /\ n + 1 <= Len(map)
  <2>1. next \in Nat /\ next > 1 /\ next' = next + 1 /\ next <= Len(map)
    BY DEF ConvertInv, NewKey, AtEntry, HasKey
  <2>2. /\ next - 1 \in Nat \ {0} /\ next = (next - 1) + 1 /\ next' = (next - 1) + 2
        /\ (next - 1) + 1 <= Len(map)
    BY <2>1
  <2>. QED  BY <2>2
<1>2. /\ map' = map /\ done' = done /\ ~ done
      /\ values' = <<map[n + 1].value>>
      /\ opt' = Set(opt, Key, Option(values)) /\ Key # map[next].key
  BY <1>1 DEF NewKey, AtEntry
<1>3. /\ Len(map) \in Nat /\ map[n + 1].value \in Texts
      /\ Passed = Prefix(map, n) /\ Passed' = Prefix(map, n + 1)
      /\ Key' = map[n + 1].key /\ Key = map[n].key
  <2>1. n + 1 - 1 = n /\ n + 2 - 1 = n + 1 /\ n + 1 \in 1..Len(map)
    BY <1>1, MapFacts DEF ConvertInv
  <2>. QED  BY <1>1, <1>2, <2>1, MapFacts DEF ConvertInv, Passed, Key
<1>4. map[n + 1].key \notin KeysOf(Prefix(map, n))
  <2> SUFFICES ASSUME NEW e \in 1..n, map[e].key = map[n + 1].key PROVE FALSE
    BY PrefixFacts
  <2>1. e \in 1..Len(map) /\ n \in 1..Len(map) /\ n + 1 \in 1..Len(map)
    BY <1>1, <1>3
  <2>2. map[e].key <= map[n].key /\ map[n].key <= map[n + 1].key
    <3>1. \A a, b \in 1..Len(map) : a < b => map[a].key <= map[b].key
      BY MapFacts DEF ConvertInv
    <3>2. e = n \/ e < n
      OBVIOUS
    <3>3. map[n].key \in Nat
      BY <2>1, MapFacts DEF ConvertInv
    <3>. QED  BY <2>1, <3>1, <3>2, <3>3
  <2>3. map[n].key \in Nat /\ map[n + 1].key \in Nat
    BY <2>1, MapFacts DEF ConvertInv
  <2>. QED  BY <1>1, <1>2, <1>3, <2>2, <2>3
<1>5. values' = ValuesOf(Prefix(map, n + 1), map[n + 1].key)
  BY <1>2, <1>4, MoreValues
<1>6. opt' = Made(Prefix(map, n + 1), map[n + 1].key)
  <2> DEFINE P == Prefix(map, n)
             Q == Prefix(map, n + 1)
             k0 == map[n + 1].key
  <2>1. KeysOf(Q) = KeysOf(P) \cup {k0} /\ Key \in KeysOf(P) /\ k0 \notin KeysOf(P)
    BY <1>3, <1>4, PrefixFacts
  <2>2. \A k : k # k0 => ValuesOf(Q, k) = ValuesOf(P, k)
    BY OtherValues
  <2>3. values = ValuesOf(P, Key) /\ opt = Made(P, Key)
    BY <1>1, <1>2, <1>3 DEF ConvertInv
  <2>. HIDE DEF P, Q, k0
  <2>4. Made(Q, k0) = [k \in KeysOf(P) |-> Option(ValuesOf(P, k))]
    BY <2>1, <2>2 DEF Made
  <2>5. Set(opt, Key, Option(values)) = [k \in KeysOf(P) |-> Option(ValuesOf(P, k))]
    BY <2>1, <2>3 DEF Made, Set
  <2>. QED  BY <1>2, <2>4, <2>5 DEF Q, k0
<1>7. Key \notin DOMAIN opt
  BY <1>1, <1>2 DEF ConvertInv, Made
<1>8. values' \in Seq(Texts) /\ next' \in 1..(Len(map) + 1) /\ next' # 1
  BY <1>1, <1>2, <1>3 DEF ConvertInv
<1>9. ConvertInv'
  BY <1>2, <1>3, <1>5, <1>6, <1>8 DEF ConvertInv
<1>. QED  BY <1>7, <1>9

LEMMA LastKeyKeeps ==
  ASSUME ConvertInv, LastKey
  PROVE  ConvertInv' /\ (values # <<>> => Key \notin DOMAIN opt)
<1>1. PICK n \in Nat : next = n + 1 /\ n = Len(map)
  <2>1. next \in Nat /\ next = Len(map) + 1 /\ Len(map) \in Nat
    BY MapFacts DEF ConvertInv, LastKey
  <2>. QED  BY <2>1
<1>2. /\ map' = map /\ next' = next /\ values' = values /\ ~ done /\ done' = TRUE
      /\ opt' = IF values = <<>> THEN opt ELSE Set(opt, Key, Option(values))
  BY DEF LastKey
<1>3. Passed = map /\ Prefix(map, n) = map /\ n + 1 - 1 = n
  BY <1>1, MapFacts DEF ConvertInv, Passed
<1>4. CASE n = 0
  <2>1. values = <<>> /\ opt = <<>>
    BY <1>1, <1>2, <1>4 DEF ConvertInv
  <2>2. KeysOf(map) = {}
    <3>1. KeysOf(Prefix(map, 0)) = {}
      BY PrefixFacts
    <3>. QED  BY <1>3, <1>4, <3>1
  <2>3. opt = FromMultimap(map)
    BY <2>1, <2>2 DEF FromMultimap
  <2>. QED  BY <1>2, <2>1, <2>3 DEF ConvertInv
<1>5. CASE n > 0
  <2>1. values = ValuesOf(map, Key) /\ opt = Made(map, Key) /\ Key = map[n].key
    BY <1>1, <1>2, <1>3, <1>5 DEF ConvertInv, Key
  <2>2. values # <<>>
    BY <1>3, <1>5, <2>1, SomeValues
  <2>3. Key \in KeysOf(map)
    <3>1. map[n].key \in KeysOf(Prefix(map, n))
      BY <1>5, PrefixFacts
    <3>. QED  BY <1>3, <2>1, <3>1
  <2>4. Set(opt, Key, Option(values)) = FromMultimap(map)
    BY <2>1, <2>3 DEF Made, Set, FromMultimap
  <2>5. Key \notin DOMAIN opt
    BY <2>1 DEF Made
  <2>. QED  BY <1>2, <2>2, <2>4, <2>5 DEF ConvertInv
<1>. QED  BY <1>4, <1>5

LEMMA CallKeeps ==
  ASSUME NEW entries \in Seq(Entries), Call(Multimap(entries))
  PROVE  ConvertInv'
<1> DEFINE M == Multimap(entries)
<1>1. M \in Seq([key : Keys, value : Texts]) /\ Ordered(M) /\ Len(M) \in Nat
  BY MultimapFacts, EntriesFacts
<1>. HIDE DEF M
<1>2. map' = M /\ next' = 1 /\ values' = <<>> /\ opt' = <<>> /\ done' = FALSE
  BY DEF Call, M
<1>3. /\ map' \in Seq([key : Keys, value : Texts]) /\ Ordered(map)'
      /\ next' \in 1..(Len(map') + 1) /\ values' \in Seq(Texts)
  BY <1>1, <1>2 DEF Ordered
<1>4. (next' > 1) = FALSE /\ done' = FALSE
  BY <1>2
<1>. QED  BY <1>2, <1>3, <1>4 DEF ConvertInv

-----------------------------------------------------------------------------
(***************************************************************************)
(* What every step of Settings means to the conversion.                    *)
(***************************************************************************)
ConfigInv ==
  config \in Configs /\ config.early \in Seq(Entries) /\ config.options \in Seq(Entries)

\* No two steps of the system change the conversion at once.
LEMMA ConversionSteps ==
  ASSUME [Next]_vars
  PROVE  /\ config' = config
         /\ \/ SameKey \/ NewKey \/ LastKey
            \/ Call(Multimap(config.early)) \/ Call(Multimap(config.options))
            \/ UNCHANGED convertVars
<1>1. CASE Converting
  BY <1>1 DEF Converting, ConvertNext, clientVars
<1>2. CASE NoPlugin
  BY <1>2 DEF NoPlugin, Fail
<1>3. CASE Convert("convert_early", config.early) \/ Convert("convert_options", config.options)
  BY <1>3 DEF Convert, Proceed
<1>4. CASE SetBack
  BY <1>4 DEF SetBack, Proceed, convertVars
<1>5. CASE SetPath
  BY <1>5 DEF SetPath, Proceed, Fail
<1>6. CASE CheckEarly
  BY <1>6 DEF CheckEarly, Proceed, Fail
<1>7. CASE SetEarly
  BY <1>7 DEF SetEarly, Proceed, Fail
<1>8. CASE Snapshot
  BY <1>8 DEF Snapshot, Proceed, convertVars
<1>9. CASE Assign
  BY <1>9 DEF Assign, Fail
<1>10. CASE Assigned
  BY <1>10 DEF Assigned, Proceed, convertVars
<1>11. CASE Check
  BY <1>11 DEF Check, Proceed, Fail
<1>12. CASE Write
  BY <1>12 DEF Write, Proceed, Fail
<1>13. CASE UNCHANGED vars
  BY <1>13 DEF vars, clientVars
<1>. QED  BY <1>1, <1>2, <1>3, <1>4, <1>5, <1>6, <1>7, <1>8, <1>9, <1>10, <1>11, <1>12, <1>13
          DEF Next, ClientNext

LEMMA ConversionKeeps ==
  ASSUME ConfigInv, ConvertInv, [Next]_vars
  PROVE  ConfigInv' /\ ConvertInv'
<1>1. ConfigInv'
  BY ConversionSteps DEF ConfigInv
<1>2. CASE SameKey
  BY <1>1, <1>2, SameKeyKeeps
<1>3. CASE NewKey
  BY <1>1, <1>3, NewKeyKeeps
<1>4. CASE LastKey
  BY <1>1, <1>4, LastKeyKeeps
<1>5. CASE Call(Multimap(config.early)) \/ Call(Multimap(config.options))
  BY <1>1, <1>5, CallKeeps DEF ConfigInv
<1>6. CASE UNCHANGED convertVars
  BY <1>1, <1>6 DEF convertVars, ConvertInv, Passed, Key
<1>. QED  BY <1>1, <1>2, <1>3, <1>4, <1>5, <1>6, ConversionSteps

LEMMA ConversionStarts ==
  ASSUME Init
  PROVE  ConfigInv /\ ConvertInv
<1>1. ConfigInv
  BY ConfigsAssumption DEF Init, ConfigInv
<1>2. ConvertInv
  <2>1. map = <<>> /\ next = 1 /\ values = <<>> /\ opt = <<>> /\ done = TRUE
    BY DEF Init, NotCalled
  <2>2. DOMAIN map = {} /\ Len(map) = 0 /\ map \in Seq([key : Keys, value : Texts])
    BY <2>1, EmptySeq, LenProperties
  <2>3. opt = FromMultimap(map)
    BY <2>1, <2>2 DEF FromMultimap, KeysOf
  <2>. QED  BY <2>1, <2>2, <2>3 DEF ConvertInv, Ordered
<1>. QED  BY <1>1, <1>2

\* A conversion is always as far as the loop of options_from_multimap has come.
THEOREM Conversion == Spec => [](ConfigInv /\ ConvertInv)
<1>1. Init => ConfigInv /\ ConvertInv
  BY ConversionStarts
<1>2. ConfigInv /\ ConvertInv /\ [Next]_vars => ConfigInv' /\ ConvertInv'
  BY ConversionKeeps
<1>. QED  BY <1>1, <1>2, PTL DEF Spec

\* Every key of the multimap gets all of its values, in their order: the loop of
\* options_from_multimap loses none at the change of keys or at the end.
THEOREM EveryOptionIsComplete == Spec => []OptionsAreComplete
<1>1. ConvertInv => OptionsAreComplete
  BY DEF ConvertInv, OptionsAreComplete
<1>. QED  BY <1>1, Conversion, PTL

\* An option that was made stays as it is until the next call: the loop of
\* options_from_multimap never comes back to a key.
THEOREM MadeOptionsStay == Spec => OptionsAreFinal
<1> DEFINE Stay == ~ done => \A k \in DOMAIN opt : k \in DOMAIN opt' /\ opt'[k] = opt[k]
<1>1. ConvertInv /\ [Next]_vars => [Stay]_convertVars
  <2> SUFFICES ASSUME ConvertInv, [Next]_vars, ~ done, NEW k \in DOMAIN opt
               PROVE  (k \in DOMAIN opt' /\ opt'[k] = opt[k]) \/ UNCHANGED convertVars
    OBVIOUS
  <2>1. CASE SameKey
    BY <2>1 DEF SameKey
  <2>2. CASE NewKey
    BY <2>2, NewKeyKeeps DEF NewKey, Set
  <2>3. CASE LastKey
    BY <2>3, LastKeyKeeps DEF LastKey, Set
  <2>. QED  BY <2>1, <2>2, <2>3, ConversionSteps DEF Call
<1>. QED  BY <1>1, Conversion, PTL DEF Spec, OptionsAreFinal

-----------------------------------------------------------------------------
(***************************************************************************)
(* What the clients read is what was written.                              *)
(***************************************************************************)

\* The entries of a key keep their order in the multimap.
LEMMA PlaceKeepsOrder ==
  ASSUME NEW entries \in Seq(Entries), NEW k
  PROVE  /\ \A e \in EntriesOf(entries, k) : Place(entries, e) \in EntriesOf(Multimap(entries), k)
         /\ \A n \in EntriesOf(Multimap(entries), k) : Entry(entries, n) \in EntriesOf(entries, k)
         /\ \A e, f \in EntriesOf(entries, k) : e <= f <=> Place(entries, e) <= Place(entries, f)
<1> DEFINE N == Len(entries)
           M == Multimap(entries)
<1>1. /\ N \in Nat /\ DOMAIN entries = 1..N
      /\ \A e \in 1..N : entries[e].key \in Nat /\ e \in Nat
  BY EntriesFacts
<1>2. DOMAIN M = 1..N /\ \A n \in 1..N : M[n].key = entries[Entry(entries, n)].key
  BY MultimapFacts
<1>3. /\ \A e \in 1..N : Place(entries, e) \in 1..N /\ Entry(entries, Place(entries, e)) = e
      /\ \A n \in 1..N : Entry(entries, n) \in 1..N
  BY PlaceFacts, EntryFacts
<1>. HIDE DEF M
<1>4. ASSUME NEW e \in EntriesOf(entries, k) PROVE Place(entries, e) \in EntriesOf(M, k)
  BY <1>1, <1>2, <1>3 DEF EntriesOf
<1>5. ASSUME NEW n \in EntriesOf(M, k) PROVE Entry(entries, n) \in EntriesOf(entries, k)
  BY <1>1, <1>2, <1>3 DEF EntriesOf
<1>6. ASSUME NEW e \in EntriesOf(entries, k), NEW f \in EntriesOf(entries, k), e < f
      PROVE  Place(entries, e) < Place(entries, f)
  <2>1. e \in 1..N /\ f \in 1..N /\ Goes(entries, e, f)
    BY <1>1, <1>6 DEF EntriesOf, Goes
  <2>. QED  BY <2>1, PlaceFacts
<1>7. ASSUME NEW e \in EntriesOf(entries, k), NEW f \in EntriesOf(entries, k)
      PROVE  e <= f <=> Place(entries, e) <= Place(entries, f)
  <2>1. e \in 1..N /\ f \in 1..N
    BY <1>1 DEF EntriesOf
  <2>2. Place(entries, e) \in 1..N /\ Place(entries, f) \in 1..N
    BY <1>3, <2>1
  <2>. QED  BY <1>1, <1>6, <2>1, <2>2
<1>. QED  BY <1>4, <1>5, <1>7 DEF M

LEMMA NthPlace ==
  ASSUME NEW entries \in Seq(Entries), NEW k
  PROVE  LET S == EntriesOf(entries, k)
             T == EntriesOf(Multimap(entries), k)
         IN  /\ Cardinality(T) = Cardinality(S)
             /\ \A i \in 1..Cardinality(S) :
                  Nth(S, i) \in S /\ Nth(T, i) = Place(entries, Nth(S, i))
<1> DEFINE S == EntriesOf(entries, k)
           T == EntriesOf(Multimap(entries), k)
           N == Len(entries)
<1>1. /\ N \in Nat /\ S \in SUBSET (1..N) /\ T \in SUBSET (1..N)
  BY EntriesFacts, MultimapFacts DEF EntriesOf
<1>2. /\ S \in SUBSET Nat /\ IsFiniteSet(S) /\ Cardinality(S) \in Nat
      /\ T \in SUBSET Nat /\ IsFiniteSet(T)
  <2>. HIDE DEF S, T
  <2>. QED  BY <1>1, BoundedNumbers
<1>3. /\ \A e \in S : Place(entries, e) \in T /\ Entry(entries, Place(entries, e)) = e
      /\ \A n \in T : Entry(entries, n) \in S /\ Place(entries, Entry(entries, n)) = n
      /\ \A e, f \in S : e <= f <=> Place(entries, e) <= Place(entries, f)
  <2>1. /\ \A e \in S : Place(entries, e) \in T
        /\ \A n \in T : Entry(entries, n) \in S
        /\ \A e, f \in S : e <= f <=> Place(entries, e) <= Place(entries, f)
    BY PlaceKeepsOrder
  <2>2. /\ \A e \in S : Entry(entries, Place(entries, e)) = e
        /\ \A n \in T : Place(entries, Entry(entries, n)) = n
    BY <1>1, EntryFacts
  <2>. QED  BY <2>1, <2>2
<1>. HIDE DEF S, T
<1>4. Cardinality(T) = Cardinality(S)
  <2> DEFINE f == [e \in S |-> Place(entries, e)]
  <2>1. f \in Bijection(S, T)
    <3>1. f \in [S -> T] /\ \A x, y \in S : f[x] = f[y] => x = y
      BY <1>3
    <3>2. \A t \in T : \E s \in S : f[s] = t
      BY <1>3
    <3>. HIDE DEF f
    <3>. QED  BY <3>1, <3>2 DEF Bijection, Injection, Surjection, IsInjective
  <2>2. ExistsBijection(S, T)
    BY <2>1 DEF ExistsBijection
  <2>. QED  BY <1>2, <2>2, FS_Bijection
<1>5. ASSUME NEW i \in 1..Cardinality(S)
      PROVE  Nth(S, i) \in S /\ Nth(T, i) = Place(entries, Nth(S, i))
  <2>1. PICK e \in S : e = Nth(S, i) /\ Cardinality(UpToOf(S, e)) = i
    BY <1>2, NthFacts
  <2> DEFINE p == Place(entries, e)
             U == UpToOf(S, e)
             V == UpToOf(T, p)
             f == [x \in U |-> Place(entries, x)]
  <2>2. p \in T
    BY <1>3
  <2>3. f \in Bijection(U, V)
    <3>1. \A x \in U : x \in S /\ Place(entries, x) \in V
      BY <1>3 DEF UpToOf
    <3>2. \A y \in V : Entry(entries, y) \in U /\ Place(entries, Entry(entries, y)) = y
      BY <1>3 DEF UpToOf
    <3>. HIDE DEF U, V
    <3>3. f \in [U -> V] /\ \A x, y \in U : f[x] = f[y] => x = y
      BY <1>3, <3>1
    <3>4. \A t \in V : \E s \in U : f[s] = t
      BY <3>2
    <3>. HIDE DEF f
    <3>. QED  BY <3>3, <3>4 DEF Bijection, Injection, Surjection, IsInjective
  <2>4. Cardinality(V) = Cardinality(U)
    <3>1. ExistsBijection(U, V)
      BY <2>3 DEF ExistsBijection
    <3>2. IsFiniteSet(U)
      <4>1. U \in SUBSET S
        BY DEF UpToOf
      <4>. QED  BY <1>2, <4>1, FS_Subset
    <3>. HIDE DEF U, V
    <3>. QED  BY <3>1, <3>2, FS_Bijection
  <2>5. Nth(T, i) = p
    <3>. HIDE DEF p
    <3>. QED  BY <1>2, <2>1, <2>2, <2>4, RankIsNth
  <2>. QED  BY <2>1, <2>5
<1>. QED  BY <1>4, <1>5 DEF S, T

\* What ValueIn means for options that went through a multimap.
TextsOf(entries, k) ==
  LET of == EntriesOf(entries, k)
  IN  [n \in 1..Cardinality(of) |-> TextOf(entries[Nth(of, n)])]

LEMMA MultimapValues ==
  ASSUME NEW entries \in Seq(Entries)
  PROVE  /\ KeysOf(Multimap(entries)) = KeysOf(entries)
         /\ \A k : ValuesOf(Multimap(entries), k) = TextsOf(entries, k)
<1> DEFINE M == Multimap(entries)
           N == Len(entries)
<1>1. N \in Nat /\ DOMAIN entries = 1..N /\ DOMAIN M = 1..N
  BY EntriesFacts, MultimapFacts
<1>2. /\ \A e \in 1..N : Place(entries, e) \in 1..N /\ Entry(entries, Place(entries, e)) = e
      /\ \A n \in 1..N : Entry(entries, n) \in 1..N
      /\ \A n \in 1..N : /\ M[n].key = entries[Entry(entries, n)].key
                         /\ M[n].value = TextOf(entries[Entry(entries, n)])
  BY PlaceFacts, EntryFacts, MultimapFacts
<1>. HIDE DEF M
<1>3. KeysOf(M) = KeysOf(entries)
  <2>1. \A n \in 1..N : \E e \in 1..N : M[n].key = entries[e].key
    BY <1>2
  <2>2. \A e \in 1..N : \E n \in 1..N : M[n].key = entries[e].key
    BY <1>2
  <2>3. KeysOf(M) = {M[n].key : n \in 1..N} /\ KeysOf(entries) = {entries[e].key : e \in 1..N}
    BY <1>1 DEF KeysOf
  <2>4. {M[n].key : n \in 1..N} = {entries[e].key : e \in 1..N}
    <3>. HIDE DEF N
    <3>1. \A x \in {M[n].key : n \in 1..N} : x \in {entries[e].key : e \in 1..N}
      BY <2>1
    <3>2. \A x \in {entries[e].key : e \in 1..N} : x \in {M[n].key : n \in 1..N}
      BY <2>2
    <3>. QED  BY <3>1, <3>2
  <2>. QED  BY <2>3, <2>4
<1>4. ASSUME NEW k PROVE ValuesOf(M, k) = TextsOf(entries, k)
  <2> DEFINE S == EntriesOf(entries, k)
             T == EntriesOf(M, k)
  <2>1. /\ Cardinality(T) = Cardinality(S)
        /\ \A i \in 1..Cardinality(S) : Nth(S, i) \in S /\ Nth(T, i) = Place(entries, Nth(S, i))
    BY NthPlace DEF M
  <2>2. \A e \in S : M[Place(entries, e)].value = TextOf(entries[e])
    BY <1>1, <1>2 DEF EntriesOf
  <2>3. /\ ValuesOf(M, k) = [i \in 1..Cardinality(T) |-> M[Nth(T, i)].value]
        /\ TextsOf(entries, k) = [i \in 1..Cardinality(S) |-> TextOf(entries[Nth(S, i)])]
    BY DEF ValuesOf, TextsOf
  <2>. HIDE DEF S, T
  <2>. QED  BY <2>1, <2>2, <2>3
<1>. QED  BY <1>3, <1>4 DEF M

-----------------------------------------------------------------------------
(***************************************************************************)
(* Options of a plugin, with and without a module, and what set_options    *)
(* makes of them.                                                          *)
(***************************************************************************)
Plug(p) ==
  /\ DOMAIN OwnDefaults \subseteq DOMAIN p
  /\ DOMAIN p \subseteq DOMAIN OwnDefaults \cup DOMAIN ChildDefaults
  /\ \A k \in DOMAIN p : p[k].type = TypeOf(k) /\ DOMAIN p[k] = {"type", "values"}

Records(o) == \A k \in DOMAIN o : DOMAIN o[k] = {"type", "values"}

Fits(o, k) == k \in DOMAIN o /\ o[k].type = TypeOf(k)

ModuleKeys(option) == IF option.values[1] \in Modules THEN DOMAIN ChildDefaults ELSE {}

LEMMA DefaultsArePlug ==
  /\ Plug(OwnDefaults)
  /\ \A k \in DOMAIN ChildDefaults :
       /\ k \notin DOMAIN OwnDefaults
       /\ ChildDefaults[k].type = TypeOf(k) /\ DOMAIN ChildDefaults[k] = {"type", "values"}
  /\ Selector \in DOMAIN OwnDefaults
  BY SelectorAssumption, DefaultsAssumption, OptionsAssumption DEF Plug, TypeOf

LEMMA SelectFacts ==
  ASSUME NEW p, Plug(p), NEW value, value # p[Selector],
         value.type = TypeOf(Selector), DOMAIN value = {"type", "values"}
  PROVE  LET s == Select(p, value)
         IN  /\ DOMAIN s = DOMAIN OwnDefaults \cup ModuleKeys(value)
             /\ s[Selector] = value
             /\ \A k \in DOMAIN OwnDefaults : k # Selector => s[k] = p[k]
             /\ \A k \in DOMAIN s \ DOMAIN OwnDefaults : s[k] = ChildDefaults[k]
             /\ Plug(s)
<1> DEFINE own == [Only(p, DOMAIN OwnDefaults) EXCEPT ![Selector] = value]
           s == Select(p, value)
<1>1. s = IF value.values[1] \in Modules THEN Merge(own, ChildDefaults) ELSE own
  BY DEF Select
<1>2. /\ DOMAIN own = DOMAIN OwnDefaults /\ own[Selector] = value
      /\ \A k \in DOMAIN OwnDefaults : k # Selector => own[k] = p[k]
  BY DefaultsArePlug DEF Only, Plug
<1>. HIDE DEF own, s
<1>3. CASE value.values[1] \in Modules
  <2>1. s = Merge(own, ChildDefaults) /\ ModuleKeys(value) = DOMAIN ChildDefaults
    BY <1>1, <1>3 DEF ModuleKeys
  <2>2. /\ DOMAIN s = DOMAIN OwnDefaults \cup ModuleKeys(value)
        /\ \A k \in DOMAIN OwnDefaults : s[k] = own[k]
        /\ \A k \in DOMAIN s \ DOMAIN OwnDefaults : s[k] = ChildDefaults[k]
    BY <1>2, <2>1, DefaultsArePlug DEF Merge
  <2>3. /\ s[Selector] = value
        /\ \A k \in DOMAIN OwnDefaults : k # Selector => s[k] = p[k]
    BY <1>2, <2>2, DefaultsArePlug
  <2>4. Plug(s)
    BY <2>1, <2>2, <2>3, DefaultsArePlug DEF Plug
  <2>. QED  BY <2>2, <2>3, <2>4 DEF s
<1>4. CASE value.values[1] \notin Modules
  <2>1. s = own /\ ModuleKeys(value) = {}
    BY <1>1, <1>4 DEF ModuleKeys
  <2>2. Plug(s)
    BY <1>2, <2>1, DefaultsArePlug DEF Plug
  <2>. QED  BY <1>2, <2>1, <2>2, DefaultsArePlug DEF s
<1>. QED  BY <1>3, <1>4

LEMMA FittingFacts ==
  ASSUME NEW p, Plug(p), NEW o, Records(o)
  PROVE  /\ \A k : k \in DOMAIN Fitting(p, o) <=> k \in DOMAIN p /\ Fits(o, k)
         /\ Refuses(p, o) <=> \E k \in DOMAIN p : Fits(o, k) /\ <<k, o[k].values>> \in Refused
         /\ LET q == Merge(p, Fitting(p, o))
            IN  /\ DOMAIN q = DOMAIN p
                /\ \A k \in DOMAIN q : q[k] = IF Fits(o, k) THEN o[k] ELSE p[k]
                /\ Plug(q)
<1>1. \A k : k \in DOMAIN Fitting(p, o) <=> k \in DOMAIN p /\ Fits(o, k)
  BY DEF Fitting, Only, Fits, Plug
<1>2. \A k \in DOMAIN Fitting(p, o) : Fitting(p, o)[k] = o[k]
  BY DEF Fitting, Only
<1>3. Refuses(p, o) <=> \E k \in DOMAIN p : Fits(o, k) /\ <<k, o[k].values>> \in Refused
  BY <1>1 DEF Refuses
<1> DEFINE q == Merge(p, Fitting(p, o))
<1>4. /\ DOMAIN q = DOMAIN p
      /\ \A k \in DOMAIN q : q[k] = IF Fits(o, k) THEN o[k] ELSE p[k]
  BY <1>1, <1>2 DEF Merge
<1>. HIDE DEF q
<1>5. Plug(q)
  BY <1>4 DEF Plug, Fits, Records
<1>. QED  BY <1>1, <1>3, <1>4, <1>5 DEF q

LEMMA SetOptionsFacts ==
  ASSUME NEW p, Plug(p), NEW o, Records(o)
  PROVE  LET q == SetOptions(p, o)
         IN  /\ Plug(q)
             /\ \A k \in DOMAIN q : Fits(o, k) => q[k] = o[k]
             /\ \A k \in DOMAIN OwnDefaults : ~ Fits(o, k) => q[k] = p[k]
             /\ \A k \in DOMAIN q \ DOMAIN OwnDefaults :
                  ~ Fits(o, k) => (k \in DOMAIN p /\ q[k] = p[k]) \/ q[k] = ChildDefaults[k]
             /\ (Fits(o, Selector) => o[Selector] = p[Selector]) => DOMAIN q = DOMAIN p
             /\ Fits(o, Selector) /\ o[Selector] # p[Selector] =>
                  DOMAIN q = DOMAIN OwnDefaults \cup ModuleKeys(o[Selector])
<1> DEFINE s == IF Selector \in DOMAIN Fitting(p, o) THEN Select(p, o[Selector]) ELSE p
           q == SetOptions(p, o)
<1>1. q = Merge(s, Fitting(s, o))
  BY DEF SetOptions
<1>2. Selector \in DOMAIN Fitting(p, o) <=> Fits(o, Selector)
  BY FittingFacts, DefaultsArePlug DEF Plug
<1>3. CASE Fits(o, Selector) => o[Selector] = p[Selector]
  <2>1. s = p
    BY <1>2, <1>3 DEF Select
  <2>. HIDE DEF s, q
  <2>2. /\ DOMAIN q = DOMAIN p /\ Plug(q)
        /\ \A k \in DOMAIN q : q[k] = IF Fits(o, k) THEN o[k] ELSE p[k]
    BY <1>1, <2>1, FittingFacts
  <2>. QED  BY <1>3, <2>2 DEF Plug, q
<1>4. CASE Fits(o, Selector) /\ o[Selector] # p[Selector]
  <2> DEFINE v == o[Selector]
  <2>1. s = Select(p, v)
    BY <1>2, <1>4
  <2>2. v.type = TypeOf(Selector) /\ DOMAIN v = {"type", "values"} /\ v # p[Selector]
    BY <1>4 DEF Fits, Records
  <2>. HIDE DEF s, q, v
  <2>3. /\ DOMAIN s = DOMAIN OwnDefaults \cup ModuleKeys(v) /\ Plug(s)
        /\ \A k \in DOMAIN OwnDefaults : k # Selector => s[k] = p[k]
        /\ \A k \in DOMAIN s \ DOMAIN OwnDefaults : s[k] = ChildDefaults[k]
    <3>1. LET t == Select(p, v)
          IN  /\ DOMAIN t = DOMAIN OwnDefaults \cup ModuleKeys(v)
              /\ t[Selector] = v
              /\ \A k \in DOMAIN OwnDefaults : k # Selector => t[k] = p[k]
              /\ \A k \in DOMAIN t \ DOMAIN OwnDefaults : t[k] = ChildDefaults[k]
              /\ Plug(t)
      BY <2>2, SelectFacts, Zenon
    <3>. QED  BY <2>1, <3>1
  <2>4. /\ DOMAIN q = DOMAIN s /\ Plug(q)
        /\ \A k \in DOMAIN q : q[k] = IF Fits(o, k) THEN o[k] ELSE s[k]
    BY <1>1, <2>3, FittingFacts
  <2>. QED  BY <1>4, <2>3, <2>4 DEF Plug, q, v
<1>. QED  BY <1>3, <1>4

-----------------------------------------------------------------------------
(***************************************************************************)
(* What the properties say of the user's words, for any configuration c.   *)
(***************************************************************************)
ValueFor(c, entries, k) ==
  IF c.client = "dataset" THEN RawOption(entries[Max(EntriesOf(entries, k))])
                          ELSE Option(TextsOf(entries, k))

EarlyFor(c, k) == ValueFor(c, c.early, k)
GivenFor(c, k) == ValueFor(c, c.options, k)

TakesEarly(c, k) ==
  k \in DOMAIN OwnDefaults \cup DOMAIN ChildDefaults /\ EarlyFor(c, k).type = TypeOf(k)

SelectsFor(c) == c.client \in {"dataset", "pressio", "io"}

AvailableFor(c) ==
  DOMAIN OwnDefaults \cup
    IF SelectsFor(c) /\ Selector \in KeysOf(c.early) /\ TakesEarly(c, Selector)
    THEN ModuleKeys(EarlyFor(c, Selector)) ELSE {}

SettableFor(c, k) == k \in AvailableFor(c) /\ Converts(GivenFor(c, k), TypeOf(k))

BadFor(c) ==
  \/ \E k \in KeysOf(c.options) : <<k, GivenFor(c, k).values>> \in Refused
  \/ c.client = "dataset" /\ \E e \in DOMAIN c.options : <<c.options[e].key, c.options[e].texts>> \in Refused
  \/ \E k \in KeysOf(c.early) : TakesEarly(c, k) /\ <<k, EarlyFor(c, k).values>> \in Refused

LEMMA SameWords ==
  /\ \A k : ValueIn(config.early, k) = EarlyFor(config, k)
  /\ \A k : ValueIn(config.options, k) = GivenFor(config, k)
  /\ \A k : EarlyFits(k) <=> TakesEarly(config, k)
  /\ Available = AvailableFor(config)
  /\ \A k : Settable(k) <=> SettableFor(config, k)
  /\ OutOfRange <=> BadFor(config)
<1>1. /\ \A k : ValueIn(config.early, k) = EarlyFor(config, k)
      /\ \A k : ValueIn(config.options, k) = GivenFor(config, k)
  BY DEF ValueIn, EarlyFor, GivenFor, ValueFor, TextsOf, Client
<1>2. \A k : EarlyFits(k) <=> TakesEarly(config, k)
  BY <1>1 DEF EarlyFits, TakesEarly
<1>3. Available = AvailableFor(config)
  BY <1>1, <1>2 DEF Available, AvailableFor, ModuleKeys, SelectsEarly, SelectsFor, EarlyKeys, Client
<1>4. \A k : Settable(k) <=> SettableFor(config, k)
  BY <1>1, <1>3 DEF Settable, SettableFor
<1>5. OutOfRange <=> BadFor(config)
  BY <1>1, <1>2 DEF OutOfRange, BadFor, GivenKeys, EarlyKeys, Client
<1>. QED  BY <1>1, <1>2, <1>3, <1>4, <1>5

LEMMA KeysFacts ==
  ASSUME NEW entries \in Seq(Entries)
  PROVE  /\ KeysOf(entries) \in SUBSET Nat /\ IsFiniteSet(KeysOf(entries))
         /\ Cardinality(KeysOf(entries)) \in Nat /\ Cardinality(KeysOf(entries)) <= Len(entries)
<1> DEFINE N == Len(entries)
           K == KeysOf(entries)
           f == [e \in 1..N |-> entries[e].key]
<1>1. N \in Nat /\ K = {entries[e].key : e \in 1..N} /\ K \in SUBSET Nat
  BY EntriesFacts DEF KeysOf
<1>2. f \in Surjection(1..N, K)
  <2>1. f \in [1..N -> K] /\ \A k \in K : \E e \in 1..N : f[e] = k
    BY <1>1
  <2>. HIDE DEF f
  <2>. QED  BY <2>1 DEF Surjection
<1>3. IsFiniteSet(1..N) /\ Cardinality(1..N) = N
  <2>. HIDE DEF N
  <2>. QED  BY <1>1, FS_Interval
<1>. HIDE DEF f, K, N
<1>4. IsFiniteSet(K) /\ Cardinality(K) <= Cardinality(1..N)
  BY <1>2, <1>3, FS_Surjection
<1>5. Cardinality(K) \in Nat
  BY <1>4, FS_CardinalityType
<1>. QED  BY <1>1, <1>3, <1>4, <1>5 DEF K, N

\* The last entry of a key.
LEMMA LastEntry ==
  ASSUME NEW entries \in Seq(Entries), NEW k \in KeysOf(entries)
  PROVE  LET e == Max(EntriesOf(entries, k))
         IN  /\ e \in 1..Len(entries) /\ entries[e].key = k
             /\ \A f \in 1..Len(entries) : entries[f].key = k => f <= e
<1> DEFINE S == EntriesOf(entries, k)
<1>1. /\ Len(entries) \in Nat /\ S = {e \in 1..Len(entries) : entries[e].key = k} /\ S # {}
      /\ S \in SUBSET (1..Len(entries))
  BY EntriesFacts DEF EntriesOf, KeysOf
<1>. HIDE DEF S
<1>2. S \in SUBSET Nat /\ IsFiniteSet(S)
  BY <1>1, BoundedNumbers
<1>3. Max(S) \in S /\ \A x \in S : x <= Max(S)
  BY <1>1, <1>2, MaxFacts
<1>. QED  BY <1>1, <1>3 DEF S

\* options_from_multimap has returned the options of some entries.
LEMMA ConvertedFacts ==
  ASSUME ConvertInv, done, Client # "dataset", NEW entries \in Seq(Entries), map = Multimap(entries)
  PROVE  DOMAIN opt = KeysOf(entries) /\ \A k \in DOMAIN opt : opt[k] = ValueFor(config, entries, k)
<1>1. opt = [k \in KeysOf(map) |-> Option(ValuesOf(map, k))]
  BY DEF ConvertInv, FromMultimap
<1>2. KeysOf(map) = KeysOf(entries) /\ \A k : ValuesOf(map, k) = TextsOf(entries, k)
  BY MultimapValues
<1>. QED  BY <1>1, <1>2 DEF ValueFor, Client

LEMMA EarlyOptionsFacts ==
  ASSUME ConfigInv, ConvertInv, done, Client # "dataset" => map = Multimap(config.early)
  PROVE  /\ \A k : k \in DOMAIN EarlyOptions <=> k \in KeysOf(config.early)
         /\ \A k \in DOMAIN EarlyOptions : EarlyOptions[k] = EarlyFor(config, k)
         /\ Records(EarlyOptions)
<1>1. config.early \in Seq(Entries)
  BY DEF ConfigInv
<1>2. CASE Client = "dataset"
  BY <1>1, <1>2 DEF EarlyOptions, Raw, EarlyFor, ValueFor, Client, Records, RawOption
<1>3. CASE Client # "dataset"
  <2>1. DOMAIN opt = KeysOf(config.early) /\ \A k \in DOMAIN opt : opt[k] = EarlyFor(config, k)
    BY <1>1, <1>3, ConvertedFacts DEF EarlyFor
  <2>. QED  BY <1>3, <2>1 DEF EarlyOptions, Records, EarlyFor, ValueFor, Option, Client
<1>. QED  BY <1>2, <1>3

LEMMA AssignmentFacts ==
  ASSUME ConfigInv, ConvertInv, done, Client # "dataset" => map = Multimap(config.options)
  PROVE  /\ Len(Assignments) \in Nat /\ Len(Assignments) <= Len(config.options)
         /\ Client # "dataset" => DOMAIN opt = KeysOf(config.options)
         /\ \A i \in 1..Len(Assignments) :
              /\ Assignments[i].key \in KeysOf(config.options)
              /\ BadFor(config) \/ <<Assignments[i].key, Assignments[i].option.values>> \notin Refused
              /\ Client # "dataset" =>
                   Assignments[i].option = GivenFor(config, Assignments[i].key)
         /\ \A k \in KeysOf(config.options) : \E i \in 1..Len(Assignments) :
              /\ Assignments[i].key = k /\ Assignments[i].option = GivenFor(config, k)
              /\ \A j \in (i + 1)..Len(Assignments) : Assignments[j].key # k
<1> DEFINE entries == config.options
           N == Len(entries)
<1>1. /\ entries \in Seq(Entries) /\ N \in Nat /\ DOMAIN entries = 1..N
  BY EntriesFacts DEF ConfigInv
<1>2. CASE Client = "dataset"
  <2>1. Assignments = [e \in 1..N |-> [key |-> entries[e].key, option |-> RawOption(entries[e])]]
    BY <1>1, <1>2 DEF Assignments
  <2>2. Len(Assignments) = N
    BY <1>1, <2>1
  <2>3. ASSUME NEW i \in 1..N
        PROVE  /\ Assignments[i].key \in KeysOf(entries)
               /\ BadFor(config) \/ <<Assignments[i].key, Assignments[i].option.values>> \notin Refused
    <3>1. Assignments[i].key = entries[i].key /\ Assignments[i].option.values = entries[i].texts
      BY <2>1 DEF RawOption
    <3>. QED  BY <1>1, <1>2, <3>1 DEF BadFor, KeysOf, Client
  <2>4. ASSUME NEW k \in KeysOf(entries)
        PROVE  \E i \in 1..N :
                 /\ Assignments[i].key = k /\ Assignments[i].option = GivenFor(config, k)
                 /\ \A j \in (i + 1)..N : Assignments[j].key # k
    <3> DEFINE i == Max(EntriesOf(entries, k))
    <3>1. /\ i \in 1..N /\ entries[i].key = k
          /\ \A f \in 1..N : entries[f].key = k => f <= i
      BY <1>1, LastEntry
    <3>2. GivenFor(config, k) = RawOption(entries[i])
      BY <1>2 DEF GivenFor, ValueFor, Client
    <3>. HIDE DEF i, entries, N
    <3>3. \A j \in (i + 1)..N : j \in 1..N /\ ~ (j <= i)
      BY <1>1, <3>1
    <3>4. \A j \in (i + 1)..N : Assignments[j].key # k
      BY <2>1, <3>1, <3>3
    <3>. QED  BY <2>1, <3>1, <3>2, <3>4
  <2>. QED  BY <1>1, <1>2, <2>2, <2>3, <2>4
<1>3. CASE Client # "dataset"
  <2> DEFINE K == KeysOf(entries)
             n == Cardinality(K)
  <2>1. DOMAIN opt = K /\ \A k \in K : opt[k] = GivenFor(config, k)
    BY <1>1, <1>3, ConvertedFacts DEF GivenFor
  <2>2. K \in SUBSET Nat /\ IsFiniteSet(K) /\ n \in Nat /\ n <= N
    BY <1>1, KeysFacts
  <2>. HIDE DEF K, entries, N
  <2>3. Assignments = [i \in 1..n |-> [key |-> Nth(K, i), option |-> opt[Nth(K, i)]]]
    BY <1>3, <2>1 DEF Assignments
  <2>. HIDE DEF n
  <2>4. Len(Assignments) = n
    BY <2>2, <2>3
  <2>5. \A i \in 1..n : /\ Assignments[i].key = Nth(K, i) /\ Nth(K, i) \in K
                        /\ Assignments[i].option = GivenFor(config, Nth(K, i))
    <3>1. \A i \in 1..n : Nth(K, i) \in K
      BY <2>2, NthFacts DEF n
    <3>. QED  BY <2>1, <2>3, <3>1
  <2>6. ASSUME NEW i \in 1..n
        PROVE  BadFor(config) \/ <<Assignments[i].key, Assignments[i].option.values>> \notin Refused
    BY <2>5 DEF BadFor, K, entries
  <2>7. ASSUME NEW k \in K
        PROVE  \E i \in 1..n :
                 /\ Assignments[i].key = k /\ Assignments[i].option = GivenFor(config, k)
                 /\ \A j \in (i + 1)..n : Assignments[j].key # k
    <3> DEFINE i == Cardinality(UpToOf(K, k))
    <3>1. i \in 1..n /\ Nth(K, i) = k
      BY <2>2, RankIsNth DEF n
    <3>2. \A j \in 1..n : Nth(K, j) = k => j = i
      BY <2>2, NthFacts DEF n
    <3>. HIDE DEF i
    <3>3. \A j \in (i + 1)..n : j \in 1..n /\ j # i
      BY <2>2, <3>1
    <3>. QED  BY <2>5, <3>1, <3>2, <3>3
  <2>8. \A i \in 1..n :
          /\ Assignments[i].key \in K
          /\ BadFor(config) \/ <<Assignments[i].key, Assignments[i].option.values>> \notin Refused
          /\ Assignments[i].option = GivenFor(config, Assignments[i].key)
    <3>1. \A i \in 1..n : /\ Assignments[i].key \in K
                          /\ Assignments[i].option = GivenFor(config, Assignments[i].key)
      BY <2>5
    <3>. QED  BY <2>6, <3>1
  <2>. QED  BY <1>3, <2>1, <2>2, <2>4, <2>7, <2>8 DEF K, entries, N
<1>. QED  BY <1>2, <1>3

-----------------------------------------------------------------------------
(***************************************************************************)
(* The loop over the options: o are the options after n assignments of as  *)
(* to the options b that were read.                                        *)
(***************************************************************************)

\* What AssignmentFacts says.
AssignmentsOf(c, as) ==
  /\ Len(as) \in Nat
  /\ \A i \in 1..Len(as) :
       /\ as[i].key \in KeysOf(c.options)
       /\ BadFor(c) \/ <<as[i].key, as[i].option.values>> \notin Refused
       /\ c.client # "dataset" => as[i].option = GivenFor(c, as[i].key)
  /\ \A k \in KeysOf(c.options) : \E i \in 1..Len(as) :
       /\ as[i].key = k /\ as[i].option = GivenFor(c, k)
       /\ \A j \in (i + 1)..Len(as) : as[j].key # k

Assigns(as, i, k) == as[i].key = k /\ Converts(as[i].option, TypeOf(k))

Loop(c, o, b, as, n) ==
  /\ DOMAIN o = DOMAIN b /\ Plug(o)
  /\ \A k \in DOMAIN o :
       \/ o[k] = b[k]
       \/ \E i \in 1..n : Assigns(as, i, k) /\ o[k].values = as[i].option.values
  /\ \A i \in 1..n : \A k \in DOMAIN o :
       Assigns(as, i, k) /\ (\A j \in (i + 1)..n : as[j].key # k) => o[k].values = as[i].option.values
  /\ c.client # "dataset" => \A i \in 1..n : as[i].key \in DOMAIN o /\ Assigns(as, i, as[i].key)

LEMMA AssignmentsAre ==
  ASSUME ConfigInv, ConvertInv, done, Client # "dataset" => map = Multimap(config.options)
  PROVE  AssignmentsOf(config, Assignments)
  BY AssignmentFacts DEF AssignmentsOf, Client

LEMMA LoopStarts ==
  ASSUME NEW c, NEW o, NEW b, Plug(o), DOMAIN o = DOMAIN b, \A k \in DOMAIN o : o[k] = b[k], NEW as
  PROVE  Loop(c, o, b, as, 0)
  BY DEF Loop

LEMMA LoopGoesOn ==
  ASSUME NEW c, NEW o, NEW b, NEW as, NEW n \in Nat, Loop(c, o, b, as, n),
         CastStatus(o, as[n + 1].key, as[n + 1].option) = "set" \/ c.client = "dataset"
  PROVE  Loop(c, CastSet(o, as[n + 1].key, as[n + 1].option), b, as, n + 1)
<1> DEFINE k0 == as[n + 1].key
           a == as[n + 1].option
           p == CastSet(o, k0, a)
<1>1. \A i : i \in 1..(n + 1) <=> i \in 1..n \/ i = n + 1
  OBVIOUS
<1>2. \A i \in 1..n : n + 1 \in (i + 1)..(n + 1) /\ \A j \in (i + 1)..n : j \in (i + 1)..(n + 1)
  OBVIOUS
<1>3. /\ DOMAIN o = DOMAIN b /\ Plug(o)
      /\ \A k \in DOMAIN o : o[k].type = TypeOf(k) /\ DOMAIN o[k] = {"type", "values"}
  BY DEF Loop, Plug
<1>4. CastStatus(o, k0, a) = "set" <=> k0 \in DOMAIN o /\ Assigns(as, n + 1, k0)
  BY <1>3 DEF CastStatus, Assigns
<1>5. CASE CastStatus(o, k0, a) = "set"
  <2>1. p = [o EXCEPT ![k0].values = a.values]
    BY <1>5 DEF CastSet
  <2>2. /\ k0 \in DOMAIN o /\ DOMAIN p = DOMAIN o
        /\ \A k \in DOMAIN o : k # k0 => p[k] = o[k]
        /\ p[k0].values = a.values /\ p[k0].type = o[k0].type /\ DOMAIN p[k0] = {"type", "values"}
    <3>1. k0 \in DOMAIN o /\ p[k0] = [o[k0] EXCEPT !.values = a.values]
      BY <1>4, <1>5, <2>1
    <3>2. DOMAIN o[k0] = {"type", "values"}
      BY <1>3, <3>1
    <3>. QED  BY <2>1, <3>1, <3>2
  <2>. HIDE DEF k0, a, p
  <2>3. Plug(p)
    BY <1>3, <2>2 DEF Plug
  <2>4. ASSUME NEW k \in DOMAIN p
        PROVE  \/ p[k] = b[k]
               \/ \E i \in 1..(n + 1) : Assigns(as, i, k) /\ p[k].values = as[i].option.values
    <3>1. CASE k = k0
      BY <1>1, <1>4, <1>5, <2>2, <3>1 DEF a
    <3>2. CASE k # k0
      <4>1. \/ o[k] = b[k]
            \/ \E i \in 1..n : Assigns(as, i, k) /\ o[k].values = as[i].option.values
        BY <2>2 DEF Loop
      <4>2. p[k] = o[k]
        BY <2>2, <3>2
      <4>. QED  BY <1>1, <4>1, <4>2
    <3>. QED  BY <3>1, <3>2
  <2>5. ASSUME NEW i \in 1..(n + 1), NEW k \in DOMAIN p, Assigns(as, i, k),
               \A j \in (i + 1)..(n + 1) : as[j].key # k
        PROVE  p[k].values = as[i].option.values
    <3>1. CASE i = n + 1
      <4>1. k = k0
        BY <2>5, <3>1 DEF Assigns, k0
      <4>. QED  BY <2>2, <3>1, <4>1 DEF a
    <3>2. CASE i \in 1..n
      <4>1. k # k0 /\ \A j \in (i + 1)..n : as[j].key # k
        BY <1>2, <2>5, <3>2 DEF k0
      <4>2. o[k].values = as[i].option.values
        BY <2>2, <2>5, <3>2, <4>1 DEF Loop
      <4>. QED  BY <2>2, <4>1, <4>2
    <3>. QED  BY <1>1, <3>1, <3>2
  <2>6. ASSUME c.client # "dataset", NEW i \in 1..(n + 1)
        PROVE  as[i].key \in DOMAIN p /\ Assigns(as, i, as[i].key)
    BY <1>1, <1>4, <1>5, <2>2, <2>6 DEF Loop, k0
  <2>7. Loop(c, p, b, as, n + 1)
    BY <1>3, <2>2, <2>3, <2>4, <2>5, <2>6 DEF Loop
  <2>. QED  BY <2>7 DEF p, k0, a
<1>6. CASE CastStatus(o, k0, a) # "set"
  <2>1. p = o /\ c.client = "dataset"
    BY <1>6 DEF CastSet
  <2>2. \A k \in DOMAIN o : ~ Assigns(as, n + 1, k)
    BY <1>4, <1>6 DEF Assigns
  <2>. HIDE DEF k0, a, p
  <2>3. ASSUME NEW k \in DOMAIN o
        PROVE  \/ o[k] = b[k]
               \/ \E i \in 1..(n + 1) : Assigns(as, i, k) /\ o[k].values = as[i].option.values
    BY <1>1 DEF Loop
  <2>4. ASSUME NEW i \in 1..(n + 1), NEW k \in DOMAIN o, Assigns(as, i, k),
               \A j \in (i + 1)..(n + 1) : as[j].key # k
        PROVE  o[k].values = as[i].option.values
    <3>1. i \in 1..n
      BY <1>1, <2>2, <2>4
    <3>2. \A j \in (i + 1)..n : as[j].key # k
      BY <1>2, <2>4, <3>1
    <3>. QED  BY <2>4, <3>1, <3>2 DEF Loop
  <2>5. Loop(c, o, b, as, n + 1)
    BY <1>3, <2>1, <2>3, <2>4 DEF Loop
  <2>. QED  BY <2>1, <2>5 DEF p, k0, a
<1>. QED  BY <1>5, <1>6

\* After the loop an option is as it was read or as it was given.
LEMMA LoopEnds ==
  ASSUME NEW c, NEW o, NEW b, NEW as, AssignmentsOf(c, as), Loop(c, o, b, as, Len(as))
  PROVE  /\ DOMAIN o = DOMAIN b /\ Plug(o)
         /\ \A k \in DOMAIN o : k \notin KeysOf(c.options) => o[k] = b[k]
         /\ \A k \in DOMAIN o : o[k] = b[k] \/ BadFor(c) \/ <<k, o[k].values>> \notin Refused
         /\ \A k \in KeysOf(c.options) \cap DOMAIN o :
              Converts(GivenFor(c, k), TypeOf(k)) => o[k].values = GivenFor(c, k).values
         /\ c.client # "dataset" =>
              \A k \in KeysOf(c.options) : k \in DOMAIN o /\ Converts(GivenFor(c, k), TypeOf(k))
<1> DEFINE n == Len(as)
<1>1. /\ DOMAIN o = DOMAIN b /\ Plug(o)
      /\ \A k \in DOMAIN o :
           \/ o[k] = b[k]
           \/ \E i \in 1..n : Assigns(as, i, k) /\ o[k].values = as[i].option.values
      /\ \A i \in 1..n : \A k \in DOMAIN o :
           Assigns(as, i, k) /\ (\A j \in (i + 1)..n : as[j].key # k) => o[k].values = as[i].option.values
      /\ c.client # "dataset" => \A i \in 1..n : as[i].key \in DOMAIN o /\ Assigns(as, i, as[i].key)
  BY DEF Loop
<1>2. /\ \A i \in 1..n : as[i].key \in KeysOf(c.options)
      /\ \A i \in 1..n : BadFor(c) \/ <<as[i].key, as[i].option.values>> \notin Refused
      /\ \A k \in KeysOf(c.options) : \E i \in 1..n :
           /\ as[i].key = k /\ as[i].option = GivenFor(c, k)
           /\ \A j \in (i + 1)..n : as[j].key # k
  BY DEF AssignmentsOf
<1>. HIDE DEF n
<1>3. ASSUME NEW k \in DOMAIN o
      PROVE  /\ k \notin KeysOf(c.options) => o[k] = b[k]
             /\ o[k] = b[k] \/ BadFor(c) \/ <<k, o[k].values>> \notin Refused
  <2> SUFFICES ASSUME NEW i \in 1..n, as[i].key = k, o[k].values = as[i].option.values
               PROVE  k \in KeysOf(c.options) /\ (BadFor(c) \/ <<k, o[k].values>> \notin Refused)
    BY <1>1 DEF Assigns
  <2>. QED  BY <1>2
<1>4. ASSUME NEW k \in KeysOf(c.options)
      PROVE  /\ k \in DOMAIN o /\ Converts(GivenFor(c, k), TypeOf(k)) =>
                  o[k].values = GivenFor(c, k).values
             /\ c.client # "dataset" => k \in DOMAIN o /\ Converts(GivenFor(c, k), TypeOf(k))
  <2>1. PICK i \in 1..n : /\ as[i].key = k /\ as[i].option = GivenFor(c, k)
                          /\ \A j \in (i + 1)..n : as[j].key # k
    BY <1>2
  <2>2. Converts(GivenFor(c, k), TypeOf(k)) <=> Assigns(as, i, k)
    BY <2>1 DEF Assigns
  <2>. QED  BY <1>1, <2>1, <2>2
<1>. QED  BY <1>1, <1>3, <1>4

-----------------------------------------------------------------------------
(***************************************************************************)
(* A plugin before and after its early options, and after all of them.     *)
(***************************************************************************)
InRange(p) == \A k \in DOMAIN p : <<k, p[k].values>> \notin Refused

\* Before the early options only io has set anything: a path.
Fresh(c, p) ==
  /\ DOMAIN p = DOMAIN OwnDefaults
  /\ \A k \in DOMAIN p :
       \/ p[k] = OwnDefaults[k]
       \/ c.client = "io" /\ k = PathKey /\ <<k, p[k].values>> \notin Refused

WithEarly(c, p) ==
  /\ DOMAIN p \subseteq AvailableFor(c)
  /\ ~ BadFor(c) =>
       /\ DOMAIN p = AvailableFor(c)
       /\ InRange(p)
       /\ \A k \in KeysOf(c.early) \cap DOMAIN OwnDefaults :
            TakesEarly(c, k) => p[k] = EarlyFor(c, k)

LEMMA FreshInRange ==
  ASSUME NEW c, NEW p, Fresh(c, p)
  PROVE  InRange(p) /\ p[Selector] = OwnDefaults[Selector]
  BY AcceptedAssumption, PathAssumption, DefaultsArePlug DEF Fresh, InRange

\* The early options are set.
LEMMA EarlyEnds ==
  ASSUME NEW c, SelectsFor(c), NEW p, Plug(p), Fresh(c, p), NEW o, Records(o),
         \A k : k \in DOMAIN o <=> k \in KeysOf(c.early),
         \A k \in DOMAIN o : o[k] = EarlyFor(c, k)
  PROVE  IF Refuses(p, o) THEN BadFor(c) /\ WithEarly(c, p)
         ELSE Plug(SetOptions(p, o)) /\ WithEarly(c, SetOptions(p, o))
<1> DEFINE q == SetOptions(p, o)
<1>1. /\ DOMAIN p = DOMAIN OwnDefaults /\ InRange(p)
      /\ p[Selector] = OwnDefaults[Selector] /\ Selector \in DOMAIN OwnDefaults
  BY FreshInRange, DefaultsArePlug DEF Fresh
<1>2. \A k \in DOMAIN OwnDefaults \cup DOMAIN ChildDefaults :
        Fits(o, k) <=> k \in KeysOf(c.early) /\ TakesEarly(c, k)
  BY DEF Fits, TakesEarly
<1>3. \A k \in DOMAIN OwnDefaults \cup DOMAIN ChildDefaults :
        Fits(o, k) => o[k] = EarlyFor(c, k) /\ (BadFor(c) \/ <<k, o[k].values>> \notin Refused)
  BY <1>2 DEF Fits, BadFor
<1>4. CASE Refuses(p, o)
  <2>1. PICK k \in DOMAIN p : Fits(o, k) /\ <<k, o[k].values>> \in Refused
    BY <1>4, FittingFacts
  <2>2. BadFor(c)
    BY <1>1, <1>3, <2>1
  <2>. QED  BY <1>1, <1>4, <2>2 DEF WithEarly, AvailableFor
<1>5. CASE ~ Refuses(p, o)
  <2>1. /\ Plug(q)
        /\ \A k \in DOMAIN q : Fits(o, k) => q[k] = o[k]
        /\ \A k \in DOMAIN OwnDefaults : ~ Fits(o, k) => q[k] = p[k]
        /\ \A k \in DOMAIN q \ DOMAIN OwnDefaults :
             ~ Fits(o, k) => (k \in DOMAIN p /\ q[k] = p[k]) \/ q[k] = ChildDefaults[k]
        /\ (Fits(o, Selector) => o[Selector] = p[Selector]) => DOMAIN q = DOMAIN p
        /\ Fits(o, Selector) /\ o[Selector] # p[Selector] =>
             DOMAIN q = DOMAIN OwnDefaults \cup ModuleKeys(o[Selector])
    BY SetOptionsFacts, Zenon
  <2>. HIDE DEF q
  <2>2. DOMAIN q = AvailableFor(c)
    <3>1. Fits(o, Selector) <=> Selector \in KeysOf(c.early) /\ TakesEarly(c, Selector)
      BY <1>1, <1>2
    <3>2. ModuleKeys(OwnDefaults[Selector]) = {}
      BY ModulesAssumption DEF ModuleKeys
    <3>3. CASE ~ Fits(o, Selector)
      BY <1>1, <2>1, <3>1, <3>3 DEF AvailableFor
    <3>4. CASE Fits(o, Selector)
      <4>1. AvailableFor(c) = DOMAIN OwnDefaults \cup ModuleKeys(EarlyFor(c, Selector))
        BY <3>1, <3>4 DEF AvailableFor
      <4>2. o[Selector] = EarlyFor(c, Selector)
        BY <1>1, <1>3, <3>4
      <4>. QED  BY <1>1, <2>1, <3>2, <3>4, <4>1, <4>2
    <3>. QED  BY <3>3, <3>4
  <2>3. ASSUME ~ BadFor(c), NEW k \in DOMAIN q PROVE <<k, q[k].values>> \notin Refused
    <3>1. k \in DOMAIN OwnDefaults \cup DOMAIN ChildDefaults
      BY <2>1 DEF Plug
    <3>2. CASE Fits(o, k)
      BY <1>3, <2>1, <2>3, <3>1, <3>2
    <3>3. CASE ~ Fits(o, k) /\ k \in DOMAIN OwnDefaults
      BY <1>1, <2>1, <3>3 DEF InRange
    <3>4. CASE ~ Fits(o, k) /\ k \notin DOMAIN OwnDefaults
      <4>1. q[k] = ChildDefaults[k] /\ k \in DOMAIN ChildDefaults
        BY <1>1, <2>1, <3>1, <3>4
      <4>. QED  BY <4>1, AcceptedAssumption
    <3>. QED  BY <3>2, <3>3, <3>4
  <2>4. ASSUME NEW k \in KeysOf(c.early) \cap DOMAIN OwnDefaults, TakesEarly(c, k)
        PROVE  q[k] = EarlyFor(c, k)
    <3>1. Fits(o, k)
      BY <1>2, <2>4
    <3>2. k \in DOMAIN q
      BY <2>1 DEF Plug
    <3>. QED  BY <1>3, <2>1, <3>1, <3>2
  <2>5. WithEarly(c, q)
    BY <2>2, <2>3, <2>4 DEF WithEarly, InRange
  <2>. QED  BY <1>5, <2>1, <2>5 DEF q
<1>. QED  BY <1>4, <1>5

-----------------------------------------------------------------------------
(***************************************************************************)
(* The properties, of any configuration and plugin.                        *)
(***************************************************************************)
GivenHeld(c, p) ==
  ~ BadFor(c) =>
    \A k \in KeysOf(c.options) :
      IF k \in DOMAIN p
      THEN SettableFor(c, k) => p[k].values = GivenFor(c, k).values
      ELSE c.client = "dataset" \/ Selector \in KeysOf(c.options)

EarlyHeld(c, p) ==
  ~ BadFor(c) =>
    \A k \in (KeysOf(c.early) \cap DOMAIN OwnDefaults) \ KeysOf(c.options) :
      TakesEarly(c, k) => p[k] = IF SelectsFor(c) THEN EarlyFor(c, k) ELSE OwnDefaults[k]

AllSettable(c) == c.client # "dataset" => \A k \in KeysOf(c.options) : SettableFor(c, k)

NoneRefused(c) ==
  c.client \in {"compressor", "pressio"} =>
    \A k \in KeysOf(c.options) : <<k, GivenFor(c, k).values>> \notin Refused

Reason(c) ==
  \/ \E k \in KeysOf(c.options) : ~ SettableFor(c, k)
  \/ BadFor(c)
  \/ c.client = "io" /\ Cardinality(EntriesOf(c.options, PathKey)) > 1

\* The options that were read.
Base(c, p) == IF c.client = "metrics" THEN OwnDefaults ELSE p

\* The plugin when the options were read, and until they are written.
Ready(c, p) ==
  /\ Plug(p)
  /\ c.client = "compressor" => Fresh(c, p)
  /\ SelectsFor(c) => WithEarly(c, p)

WrittenFor(c, o) == IF c.client \in {"pressio", "io"} THEN Only(o, KeysOf(c.options)) ELSE o

LEMMA BaseFacts ==
  ASSUME NEW c, c.client \in Clients, NEW p, Ready(c, p)
  PROVE  /\ Plug(Base(c, p)) /\ DOMAIN Base(c, p) \subseteq AvailableFor(c)
         /\ ~ BadFor(c) => DOMAIN Base(c, p) = AvailableFor(c) /\ InRange(Base(c, p))
<1>1. CASE c.client = "metrics"
  <2>1. Base(c, p) = OwnDefaults /\ AvailableFor(c) = DOMAIN OwnDefaults
    BY <1>1 DEF Base, AvailableFor, SelectsFor
  <2>. QED  BY <2>1, DefaultsArePlug, AcceptedAssumption DEF InRange
<1>2. CASE c.client = "compressor"
  <2>1. Base(c, p) = p /\ AvailableFor(c) = DOMAIN OwnDefaults /\ Fresh(c, p)
    BY <1>2 DEF Base, AvailableFor, SelectsFor, Ready
  <2>. QED  BY <2>1, FreshInRange DEF Ready, Fresh
<1>3. CASE SelectsFor(c)
  BY <1>3 DEF Base, SelectsFor, Ready, WithEarly
<1>. QED  BY <1>1, <1>2, <1>3 DEF Clients, SelectsFor

\* All options were assigned, and are written.
LEMMA WritingEnds ==
  ASSUME NEW c, c.client \in Clients, NEW p, Ready(c, p), NEW as, AssignmentsOf(c, as),
         NEW o, Loop(c, o, Base(c, p), as, Len(as))
  PROVE  LET w == WrittenFor(c, o)
             q == SetOptions(p, w)
         IN  /\ AllSettable(c)
             /\ Refuses(p, w) => BadFor(c)
             /\ ~ Refuses(p, w) => Plug(q) /\ GivenHeld(c, q) /\ EarlyHeld(c, q) /\ NoneRefused(c)
<1> DEFINE b == Base(c, p)
           w == WrittenFor(c, o)
           q == SetOptions(p, w)
           Partly == c.client \in {"pressio", "io"}
<1>1. /\ DOMAIN o = DOMAIN b /\ Plug(o)
      /\ \A k \in DOMAIN o : k \notin KeysOf(c.options) => o[k] = b[k]
      /\ \A k \in DOMAIN o : o[k] = b[k] \/ BadFor(c) \/ <<k, o[k].values>> \notin Refused
      /\ \A k \in KeysOf(c.options) \cap DOMAIN o :
           Converts(GivenFor(c, k), TypeOf(k)) => o[k].values = GivenFor(c, k).values
      /\ c.client # "dataset" =>
           \A k \in KeysOf(c.options) : k \in DOMAIN o /\ Converts(GivenFor(c, k), TypeOf(k))
  BY LoopEnds
<1>2. /\ DOMAIN b \subseteq AvailableFor(c)
      /\ ~ BadFor(c) => DOMAIN b = AvailableFor(c) /\ InRange(b)
  BY BaseFacts
<1>3. Plug(p) /\ DOMAIN OwnDefaults \subseteq DOMAIN p /\ Selector \in DOMAIN OwnDefaults
  BY DefaultsArePlug DEF Ready, Plug
<1>4. /\ Records(w) /\ \A k \in DOMAIN w : w[k] = o[k]
      /\ \A k : Fits(w, k) <=> k \in DOMAIN o /\ (Partly => k \in KeysOf(c.options))
  BY <1>1 DEF WrittenFor, Only, Fits, Records, Plug
<1>. HIDE DEF b, w
<1>5. AllSettable(c)
  BY <1>1, <1>2 DEF AllSettable, SettableFor
<1>6. ASSUME Refuses(p, w) PROVE BadFor(c)
  <2>1. PICK k \in DOMAIN p : Fits(w, k) /\ <<k, w[k].values>> \in Refused
    BY <1>3, <1>4, <1>6, FittingFacts
  <2>2. k \in DOMAIN o /\ w[k] = o[k]
    BY <1>4, <2>1 DEF Fits
  <2>. QED  BY <1>1, <1>2, <2>1, <2>2 DEF InRange
<1>7. /\ Plug(q)
      /\ \A k \in DOMAIN q : Fits(w, k) => q[k] = w[k]
      /\ \A k \in DOMAIN OwnDefaults : ~ Fits(w, k) => q[k] = p[k]
      /\ (Fits(w, Selector) => w[Selector] = p[Selector]) => DOMAIN q = DOMAIN p
  <2>1. /\ Plug(q)
        /\ \A k \in DOMAIN q : Fits(w, k) => q[k] = w[k]
        /\ \A k \in DOMAIN OwnDefaults : ~ Fits(w, k) => q[k] = p[k]
        /\ \A k \in DOMAIN q \ DOMAIN OwnDefaults :
             ~ Fits(w, k) => (k \in DOMAIN p /\ q[k] = p[k]) \/ q[k] = ChildDefaults[k]
        /\ (Fits(w, Selector) => w[Selector] = p[Selector]) => DOMAIN q = DOMAIN p
        /\ Fits(w, Selector) /\ w[Selector] # p[Selector] =>
             DOMAIN q = DOMAIN OwnDefaults \cup ModuleKeys(w[Selector])
    BY <1>3, <1>4, SetOptionsFacts, Zenon
  <2>. QED  BY <2>1
<1>. HIDE DEF q
<1>8. GivenHeld(c, q)
  <2> SUFFICES ASSUME ~ BadFor(c), NEW k \in KeysOf(c.options)
               PROVE  IF k \in DOMAIN q
                      THEN SettableFor(c, k) => q[k].values = GivenFor(c, k).values
                      ELSE c.client = "dataset" \/ Selector \in KeysOf(c.options)
    BY DEF GivenHeld
  <2>1. CASE k \in DOMAIN q
    <3> SUFFICES ASSUME k \in AvailableFor(c), Converts(GivenFor(c, k), TypeOf(k))
                 PROVE  q[k].values = GivenFor(c, k).values
      BY <2>1 DEF SettableFor
    <3>1. k \in DOMAIN o /\ o[k].values = GivenFor(c, k).values
      BY <1>1, <1>2
    <3>2. Fits(w, k) /\ w[k] = o[k]
      BY <1>4, <3>1 DEF Fits
    <3>. QED  BY <1>7, <2>1, <3>1, <3>2
  <2>2. CASE k \notin DOMAIN q
    <3> SUFFICES ASSUME c.client # "dataset", Selector \notin KeysOf(c.options) PROVE FALSE
      BY <2>2
    <3>1. k \in DOMAIN b
      BY <1>1
    <3>2. CASE c.client = "metrics"
      BY <1>7, <2>2, <3>1, <3>2 DEF b, Base, Plug
    <3>3. CASE c.client # "metrics"
      <4>1. b = p
        BY <3>3 DEF b, Base
      <4>2. Fits(w, Selector) => w[Selector] = p[Selector]
        BY <1>1, <1>4, <4>1 DEF Fits
      <4>. QED  BY <1>7, <2>2, <3>1, <4>1, <4>2
    <3>. QED  BY <3>2, <3>3
  <2>. QED  BY <2>1, <2>2
<1>9. EarlyHeld(c, q)
  <2> SUFFICES ASSUME ~ BadFor(c), NEW k \in DOMAIN OwnDefaults, k \in KeysOf(c.early),
                      k \notin KeysOf(c.options), TakesEarly(c, k)
               PROVE  q[k] = IF SelectsFor(c) THEN EarlyFor(c, k) ELSE OwnDefaults[k]
    BY DEF EarlyHeld
  <2>1. k \in DOMAIN q /\ k \in DOMAIN o /\ o[k] = b[k]
    BY <1>1, <1>7 DEF Plug
  <2>2. Fits(w, k) => q[k] = b[k]
    BY <1>4, <1>7, <2>1 DEF Fits
  <2>3. ~ Fits(w, k) => Partly /\ q[k] = p[k]
    BY <1>4, <1>7, <2>1
  <2>4. CASE SelectsFor(c)
    <3>1. b = p
      BY <2>4 DEF b, Base, SelectsFor
    <3>2. p[k] = EarlyFor(c, k)
      BY <2>4 DEF Ready, WithEarly
    <3>. QED  BY <2>2, <2>3, <2>4, <3>1, <3>2
  <2>5. CASE ~ SelectsFor(c)
    <3>1. b[k] = OwnDefaults[k] /\ ~ Partly
      BY <2>5, <1>3 DEF b, Base, SelectsFor, Ready, Clients, Fresh
    <3>. QED  BY <2>2, <2>3, <2>5, <3>1
  <2>. QED  BY <2>4, <2>5
<1>10. ASSUME ~ Refuses(p, w) PROVE NoneRefused(c)
  <2> SUFFICES ASSUME c.client \in {"compressor", "pressio"}, NEW k \in KeysOf(c.options)
               PROVE  <<k, GivenFor(c, k).values>> \notin Refused
    BY DEF NoneRefused
  <2>1. k \in DOMAIN o /\ o[k].values = GivenFor(c, k).values
    BY <1>1
  <2>2. k \in DOMAIN p
    BY <1>1, <2>1 DEF b, Base
  <2>3. Fits(w, k) /\ w[k] = o[k]
    BY <1>4, <2>1 DEF Fits
  <2>4. \A l \in DOMAIN p : Fits(w, l) => <<l, w[l].values>> \notin Refused
    BY <1>3, <1>4, <1>10, FittingFacts
  <2>. QED  BY <2>1, <2>2, <2>3, <2>4
<1>. QED  BY <1>5, <1>6, <1>7, <1>8, <1>9, <1>10 DEF w, q

-----------------------------------------------------------------------------
(***************************************************************************)
(* The inductive invariant.  How far a client has come is told by the      *)
(* number of steps it has left.                                            *)
(***************************************************************************)
Left == Len(todo)

StepNames ==
  {"set_back", "set_path", "convert_early", "check_early", "set_early", "snapshot",
   "convert_options", "assign", "check", "write"}

TodoInv ==
  /\ todo \in Seq(StepNames)
  /\ Left <= Len(Steps(Client))
  /\ \A j \in 1..Left : todo[j] = Steps(Client)[Len(Steps(Client)) - Left + j]

HasEarlyMap ==
  \/ Client = "metrics" /\ Left = 4
  \/ Client = "pressio" /\ Left \in {5, 6}
  \/ Client = "io" /\ Left = 5

HasOptionsMap ==
  \/ Client = "compressor" /\ Left <= 3
  \/ Client \in {"metrics", "pressio", "io"} /\ Left <= 2

AtAssign == Left = IF Client = "compressor" THEN 3 ELSE 2
AfterAssign == Left <= IF Client = "compressor" THEN 2 ELSE 1

BeforeEarly ==
  \/ Client = "compressor" /\ Left >= 1
  \/ Client \in {"metrics", "dataset"} /\ Left >= 4
  \/ Client \in {"pressio", "io"} /\ Left >= 5

AfterEarly == Left >= 1 /\ SelectsEarly /\ ~ BeforeEarly

HasOptions ==
  /\ Left >= 1
  /\ \/ Client = "compressor" /\ Left <= 4
     \/ Client = "metrics" /\ Left <= 5
     \/ Client = "dataset" /\ Left <= 2
     \/ Client \in {"pressio", "io"} /\ Left <= 3

\* The multimap that was converted last.
MapInv ==
  /\ HasEarlyMap => map = Multimap(config.early)
  /\ HasOptionsMap => map = Multimap(config.options)

AtInv ==
  /\ at \in 0..Len(config.options)
  /\ at > 0 => done /\ (AtAssign \/ AfterAssign)
  /\ at > 0 /\ AtAssign => at <= Len(Assignments)
  /\ AfterAssign => done /\ at = Len(Assignments)

PluginInv ==
  /\ Plug(plugin)
  /\ BeforeEarly => Fresh(config, plugin)
  /\ AfterEarly => WithEarly(config, plugin)

OptionsInv ==
  /\ DOMAIN options = {} \/ Plug(options)
  /\ HasOptions => Loop(config, options, Base(config, plugin), Assignments, at)

EndInv ==
  /\ outcome \in {"running", "loaded", "threw", "exited", "crashed"}
  /\ Left = 0 <=> outcome = "loaded"
  /\ outcome = "loaded" =>
       /\ config.state = "complete"
       /\ GivenHeld(config, plugin) /\ EarlyHeld(config, plugin)
       /\ AllSettable(config) /\ NoneRefused(config)
  /\ outcome \in {"threw", "exited"} /\ config.state = "complete" => Reason(config)

Converted == ConfigInv /\ ConvertInv
Loading == TodoInv /\ MapInv /\ AtInv /\ PluginInv /\ OptionsInv /\ EndInv
IInv == Converted /\ Loading

LEMMA ClientFacts ==
  ASSUME ConfigInv
  PROVE  /\ Client \in Clients /\ config.client \in Clients
         /\ config.early \in Seq(Entries) /\ config.options \in Seq(Entries)
         /\ Len(config.options) \in Nat
  BY ConfigsAssumption, EntriesFacts DEF ConfigInv, Client

LEMMA StepsFacts ==
  ASSUME NEW client \in Clients
  PROVE  /\ Steps(client) \in Seq(StepNames)
         /\ Len(Steps(client)) \in Nat /\ Len(Steps(client)) <= 7
         /\ client = "compressor" =>
              /\ Len(Steps(client)) = 6
              /\ Steps(client)[1] = "set_back" /\ Steps(client)[2] = "snapshot"
              /\ Steps(client)[3] = "convert_options" /\ Steps(client)[4] = "assign"
              /\ Steps(client)[5] = "check" /\ Steps(client)[6] = "write"
         /\ client = "metrics" =>
              /\ Len(Steps(client)) = 6
              /\ Steps(client)[1] = "snapshot" /\ Steps(client)[2] = "convert_early"
              /\ Steps(client)[3] = "set_early" /\ Steps(client)[4] = "convert_options"
              /\ Steps(client)[5] = "assign" /\ Steps(client)[6] = "write"
         /\ client = "dataset" =>
              /\ Len(Steps(client)) = 4
              /\ Steps(client)[1] = "set_early" /\ Steps(client)[2] = "snapshot"
              /\ Steps(client)[3] = "assign" /\ Steps(client)[4] = "write"
         /\ client = "pressio" =>
              /\ Len(Steps(client)) = 7
              /\ Steps(client)[1] = "convert_early" /\ Steps(client)[2] = "check_early"
              /\ Steps(client)[3] = "set_early" /\ Steps(client)[4] = "snapshot"
              /\ Steps(client)[5] = "convert_options" /\ Steps(client)[6] = "assign"
              /\ Steps(client)[7] = "write"
         /\ client = "io" =>
              /\ Len(Steps(client)) = 7
              /\ Steps(client)[1] = "set_path" /\ Steps(client)[2] = "convert_early"
              /\ Steps(client)[3] = "set_early" /\ Steps(client)[4] = "snapshot"
              /\ Steps(client)[5] = "convert_options" /\ Steps(client)[6] = "assign"
              /\ Steps(client)[7] = "write"
<1>1. CASE client = "compressor"
  BY <1>1 DEF Steps, CompressorLoad, StepNames
<1>2. CASE client = "metrics"
  BY <1>2 DEF Steps, MetricsLoad, StepNames
<1>3. CASE client = "dataset"
  BY <1>3 DEF Steps, DatasetLoad, StepNames
<1>4. CASE client = "pressio"
  BY <1>4 DEF Steps, PressioSetup, StepNames
<1>5. CASE client = "io"
  BY <1>5 DEF Steps, MakeIo, StepNames
<1>. QED  BY <1>1, <1>2, <1>3, <1>4, <1>5 DEF Clients

\* The step of a client that has n steps left.
StepAt(client, n, step) ==
  /\ client = "compressor" =>
       \/ n = 1 /\ step = "write"
       \/ n = 2 /\ step = "check"
       \/ n = 3 /\ step = "assign"
       \/ n = 4 /\ step = "convert_options"
       \/ n = 5 /\ step = "snapshot"
       \/ n = 6 /\ step = "set_back"
  /\ client = "metrics" =>
       \/ n = 1 /\ step = "write"
       \/ n = 2 /\ step = "assign"
       \/ n = 3 /\ step = "convert_options"
       \/ n = 4 /\ step = "set_early"
       \/ n = 5 /\ step = "convert_early"
       \/ n = 6 /\ step = "snapshot"
  /\ client = "dataset" =>
       \/ n = 1 /\ step = "write"
       \/ n = 2 /\ step = "assign"
       \/ n = 3 /\ step = "snapshot"
       \/ n = 4 /\ step = "set_early"
  /\ client = "pressio" =>
       \/ n = 1 /\ step = "write"
       \/ n = 2 /\ step = "assign"
       \/ n = 3 /\ step = "convert_options"
       \/ n = 4 /\ step = "snapshot"
       \/ n = 5 /\ step = "set_early"
       \/ n = 6 /\ step = "check_early"
       \/ n = 7 /\ step = "convert_early"
  /\ client = "io" =>
       \/ n = 1 /\ step = "write"
       \/ n = 2 /\ step = "assign"
       \/ n = 3 /\ step = "convert_options"
       \/ n = 4 /\ step = "snapshot"
       \/ n = 5 /\ step = "set_early"
       \/ n = 6 /\ step = "convert_early"
       \/ n = 7 /\ step = "set_path"

LEMMA StepsLeft ==
  ASSUME NEW client \in Clients, NEW N \in Nat, N = Len(Steps(client)), NEW n \in 1..N
  PROVE  StepAt(client, n, Steps(client)[N - n + 1])
<1> DEFINE S == Steps(client)
           m == N - n + 1
<1>1. CASE client = "compressor"
  <2>1. N = 6
    BY <1>1, StepsFacts
  <2>2. /\ S[1] = "set_back" /\ S[2] = "snapshot"
        /\ S[3] = "convert_options" /\ S[4] = "assign"
        /\ S[5] = "check" /\ S[6] = "write"
    BY <1>1, StepsFacts
  <2>. HIDE DEF S
  <2>3. \/ (n = 1 /\ m = 6) \/ (n = 2 /\ m = 5) \/ (n = 3 /\ m = 4) \/ (n = 4 /\ m = 3)
        \/ (n = 5 /\ m = 2) \/ (n = 6 /\ m = 1)
    BY <2>1
  <2>. HIDE DEF m
  <2>4. StepAt(client, n, S[m])
    BY <1>1, <2>2, <2>3 DEF StepAt
  <2>. QED  BY <2>4 DEF m, S
<1>2. CASE client = "metrics"
  <2>1. N = 6
    BY <1>2, StepsFacts
  <2>2. /\ S[1] = "snapshot" /\ S[2] = "convert_early"
        /\ S[3] = "set_early" /\ S[4] = "convert_options"
        /\ S[5] = "assign" /\ S[6] = "write"
    BY <1>2, StepsFacts
  <2>. HIDE DEF S
  <2>3. \/ (n = 1 /\ m = 6) \/ (n = 2 /\ m = 5) \/ (n = 3 /\ m = 4) \/ (n = 4 /\ m = 3)
        \/ (n = 5 /\ m = 2) \/ (n = 6 /\ m = 1)
    BY <2>1
  <2>. HIDE DEF m
  <2>4. StepAt(client, n, S[m])
    BY <1>2, <2>2, <2>3 DEF StepAt
  <2>. QED  BY <2>4 DEF m, S
<1>3. CASE client = "dataset"
  <2>1. N = 4
    BY <1>3, StepsFacts
  <2>2. /\ S[1] = "set_early" /\ S[2] = "snapshot"
        /\ S[3] = "assign" /\ S[4] = "write"
    BY <1>3, StepsFacts
  <2>. HIDE DEF S
  <2>3. \/ (n = 1 /\ m = 4) \/ (n = 2 /\ m = 3) \/ (n = 3 /\ m = 2) \/ (n = 4 /\ m = 1)
    BY <2>1
  <2>. HIDE DEF m
  <2>4. StepAt(client, n, S[m])
    BY <1>3, <2>2, <2>3 DEF StepAt
  <2>. QED  BY <2>4 DEF m, S
<1>4. CASE client = "pressio"
  <2>1. N = 7
    BY <1>4, StepsFacts
  <2>2. /\ S[1] = "convert_early" /\ S[2] = "check_early"
        /\ S[3] = "set_early" /\ S[4] = "snapshot"
        /\ S[5] = "convert_options" /\ S[6] = "assign"
        /\ S[7] = "write"
    BY <1>4, StepsFacts
  <2>. HIDE DEF S
  <2>3. \/ (n = 1 /\ m = 7) \/ (n = 2 /\ m = 6) \/ (n = 3 /\ m = 5) \/ (n = 4 /\ m = 4)
        \/ (n = 5 /\ m = 3) \/ (n = 6 /\ m = 2) \/ (n = 7 /\ m = 1)
    BY <2>1
  <2>. HIDE DEF m
  <2>4. StepAt(client, n, S[m])
    BY <1>4, <2>2, <2>3 DEF StepAt
  <2>. QED  BY <2>4 DEF m, S
<1>5. CASE client = "io"
  <2>1. N = 7
    BY <1>5, StepsFacts
  <2>2. /\ S[1] = "set_path" /\ S[2] = "convert_early"
        /\ S[3] = "set_early" /\ S[4] = "snapshot"
        /\ S[5] = "convert_options" /\ S[6] = "assign"
        /\ S[7] = "write"
    BY <1>5, StepsFacts
  <2>. HIDE DEF S
  <2>3. \/ (n = 1 /\ m = 7) \/ (n = 2 /\ m = 6) \/ (n = 3 /\ m = 5) \/ (n = 4 /\ m = 4)
        \/ (n = 5 /\ m = 3) \/ (n = 6 /\ m = 2) \/ (n = 7 /\ m = 1)
    BY <2>1
  <2>. HIDE DEF m
  <2>4. StepAt(client, n, S[m])
    BY <1>5, <2>2, <2>3 DEF StepAt
  <2>. QED  BY <2>4 DEF m, S
<1>. QED  BY <1>1, <1>2, <1>3, <1>4, <1>5 DEF Clients

\* Where a client is when it takes a step.
LEMMA PhaseFacts ==
  ASSUME ConfigInv, TodoInv, NEW step, At(step)
  PROVE  Left \in 1..7 /\ Client \in Clients /\ StepAt(Client, Left, step)
<1>1. /\ Left \in Nat /\ Left # 0 /\ Head(todo) = todo[1]
  <2>1. todo \in Seq(StepNames) /\ todo # <<>>
    BY DEF TodoInv, At
  <2>. QED  BY <2>1 DEF Left
<1> DEFINE N == Len(Steps(Client))
<1>2. Client \in Clients /\ N \in Nat /\ N <= 7 /\ Left <= N
  BY ClientFacts, StepsFacts DEF TodoInv
<1>. HIDE DEF N
<1>3. Left \in 1..7 /\ Left \in 1..N
  BY <1>1, <1>2
<1>4. step = Steps(Client)[N - Left + 1]
  <2>1. 1 \in 1..Left
    BY <1>1
  <2>2. todo[1] = Steps(Client)[N - Left + 1]
    BY <2>1 DEF TodoInv, N
  <2>. QED  BY <1>1, <2>2 DEF At
<1>5. StepAt(Client, Left, Steps(Client)[N - Left + 1])
  BY <1>2, <1>3, StepsLeft DEF N
<1>. QED  BY <1>2, <1>3, <1>4, <1>5

LEMMA ProceedFacts ==
  ASSUME ConfigInv, TodoInv, NEW step, At(step), Proceed
  PROVE  /\ TodoInv' /\ Left' = Left - 1 /\ config' = config /\ Client' = Client
         /\ config.state = "complete"
         /\ outcome' = IF Left = 1 THEN "loaded" ELSE "running"
<1>1. todo \in Seq(StepNames) /\ todo # <<>> /\ todo' = Tail(todo)
  BY DEF TodoInv, At, Proceed
<1>2. /\ Left \in Nat /\ Left # 0 /\ Left' = Left - 1 /\ todo' \in Seq(StepNames)
      /\ \A j \in 1..(Left - 1) : todo'[j] = todo[j + 1]
  BY <1>1 DEF Left
<1>3. config' = config /\ Client' = Client
  BY DEF Proceed, Client
<1>4. Len(Steps(Client)) \in Nat /\ Left <= Len(Steps(Client))
  BY ClientFacts, StepsFacts DEF TodoInv
<1>5. ASSUME NEW j \in 1..(Left - 1)
      PROVE  todo'[j] = Steps(Client)[Len(Steps(Client)) - (Left - 1) + j]
  <2>1. j + 1 \in 1..Left
    BY <1>2
  <2>2. Len(Steps(Client)) - (Left - 1) + j = Len(Steps(Client)) - Left + (j + 1)
    BY <1>2, <1>4
  <2>. QED  BY <1>2, <2>1, <2>2 DEF TodoInv
<1>6. TodoInv'
  BY <1>2, <1>3, <1>4, <1>5 DEF TodoInv
<1>. QED  BY <1>2, <1>3, <1>6 DEF At, Proceed, Left

-----------------------------------------------------------------------------
(***************************************************************************)
(* Every step keeps the inductive invariant.                               *)
(***************************************************************************)
LEMMA SameAssignments ==
  ASSUME config' = config, opt' = opt
  PROVE  Assignments' = Assignments /\ Client' = Client
  BY DEF Assignments, Client

LEMMA FailKeeps ==
  ASSUME Loading, outcome = "running", NEW how \in {"threw", "exited", "crashed"},
         Fail(how), UNCHANGED convertVars,
         how \in {"threw", "exited"} /\ config.state = "complete" => Reason(config)
  PROVE  Loading'
<1>1. /\ UNCHANGED <<config, todo, plugin, options, at, map, opt, done>>
      /\ outcome' = how
  BY DEF Fail, convertVars
<1>2. Client' = Client /\ Left' = Left /\ Assignments' = Assignments
  BY <1>1, SameAssignments DEF Left
<1>3. TodoInv' /\ MapInv'
  BY <1>1, <1>2 DEF Loading, TodoInv, MapInv, HasEarlyMap, HasOptionsMap
<1>4. AtInv'
  BY <1>1, <1>2 DEF Loading, AtInv, AtAssign, AfterAssign
<1>5. PluginInv' /\ OptionsInv'
  BY <1>1, <1>2
     DEF Loading, PluginInv, OptionsInv, BeforeEarly, AfterEarly, HasOptions, SelectsEarly
<1>6. EndInv'
  BY <1>1, <1>2 DEF Loading, EndInv
<1>. QED  BY <1>3, <1>4, <1>5, <1>6 DEF Loading

LEMMA ProceedKeeps ==
  ASSUME ConfigInv, Loading, NEW step, At(step), Proceed, Left # 1
  PROVE  TodoInv' /\ EndInv'
<1>1. /\ TodoInv' /\ Left' = Left - 1 /\ Left \in 1..7 /\ outcome' = "running"
  BY ProceedFacts, PhaseFacts DEF Loading
<1>2. Left' # 0
  BY <1>1
<1>. QED  BY <1>1, <1>2 DEF EndInv

\* Before the loop over the options it does not matter what it will assign.
LEMMA NothingAssigned ==
  ASSUME NEW c, NEW o, NEW b, NEW as, Loop(c, o, b, as, 0), NEW bs
  PROVE  Loop(c, o, b, bs, 0)
  BY DEF Loop

LEMMA ConvertingKeeps ==
  ASSUME IInv, Converting
  PROVE  Loading'
<1>1. /\ ~ done /\ map' = map
      /\ UNCHANGED <<config, todo, plugin, options, at, outcome>>
  BY DEF Converting, ConvertNext, SameKey, NewKey, LastKey, AtEntry, clientVars
<1>2. Client' = Client /\ Left' = Left
  BY <1>1 DEF Left, Client
<1>3. at = 0 /\ ~ AfterAssign /\ at \in 0..Len(config.options)
  BY <1>1, ClientFacts DEF IInv, Loading, AtInv, Converted
<1>4. TodoInv' /\ MapInv'
  BY <1>1, <1>2 DEF IInv, Loading, TodoInv, MapInv, HasEarlyMap, HasOptionsMap
<1>5. AtInv'
  BY <1>1, <1>2, <1>3 DEF AtInv, AfterAssign
<1>6. PluginInv'
  BY <1>1, <1>2 DEF IInv, Loading, PluginInv, BeforeEarly, AfterEarly, SelectsEarly
<1>7. OptionsInv'
  <2>1. HasOptions' => Loop(config, options, Base(config, plugin), Assignments', 0)
    BY <1>2, <1>3, NothingAssigned DEF IInv, Loading, OptionsInv, HasOptions
  <2>. QED  BY <1>1, <1>3, <2>1 DEF IInv, Loading, OptionsInv
<1>8. EndInv'
  BY <1>1, <1>2 DEF IInv, Loading, EndInv
<1>. QED  BY <1>4, <1>5, <1>6, <1>7, <1>8 DEF Loading

LEMMA NoPluginKeeps ==
  ASSUME IInv, NoPlugin
  PROVE  Loading'
<1> DEFINE how == CASE config.state = "incomplete" -> "threw"
                    [] config.state = "unknown" ->
                         IF Client \in {"compressor", "metrics"} THEN "crashed" ELSE Failure
<1>1. config.state \in {"incomplete", "unknown"}
  BY ConfigsAssumption DEF IInv, Converted, ConfigInv, NoPlugin
<1>2. how \in {"threw", "exited", "crashed"}
  BY <1>1 DEF Failure
<1>3. Fail(how) /\ outcome = "running" /\ UNCHANGED convertVars /\ config.state # "complete"
  BY DEF NoPlugin
<1>. HIDE DEF how
<1>. QED  BY <1>2, <1>3, FailKeeps DEF IInv

LEMMA Opened ==
  ASSUME IInv, NEW step, At(step)
  PROVE  /\ ConfigInv /\ ConvertInv /\ Loading
         /\ TodoInv /\ MapInv /\ AtInv /\ PluginInv /\ OptionsInv /\ EndInv
         /\ Left \in 1..7 /\ Client \in Clients /\ StepAt(Client, Left, step)
         /\ done /\ outcome = "running" /\ config.state = "complete"
<1>1. /\ ConfigInv /\ ConvertInv /\ Loading
      /\ TodoInv /\ MapInv /\ AtInv /\ PluginInv /\ OptionsInv /\ EndInv
  BY DEF IInv, Converted, Loading
<1>2. Left \in 1..7 /\ Client \in Clients /\ StepAt(Client, Left, step)
  BY <1>1, PhaseFacts
<1>. QED  BY <1>1, <1>2 DEF At

LEMMA ConvertEarlyKeeps ==
  ASSUME IInv, Convert("convert_early", config.early)
  PROVE  Loading'
<1>1. /\ At("convert_early") /\ Proceed /\ map' = Multimap(config.early) /\ done' = FALSE
      /\ UNCHANGED <<plugin, options, at>>
  BY DEF Convert, Call
<1>2. /\ ConfigInv /\ Loading /\ TodoInv /\ AtInv /\ PluginInv /\ OptionsInv
      /\ Left \in 1..7 /\ Client \in Clients /\ StepAt(Client, Left, "convert_early")
  BY <1>1, Opened
<1>3. \/ Client = "metrics" /\ Left = 5
      \/ Client = "pressio" /\ Left = 7
      \/ Client = "io" /\ Left = 6
  BY <1>2 DEF StepAt, Clients
<1>4. TodoInv' /\ EndInv'
  <2>1. Left # 1
    BY <1>3
  <2>. QED  BY <1>1, <1>2, <2>1, ProceedKeeps, Zenon
<1>5. Left' = Left - 1 /\ config' = config /\ Client' = Client
  BY <1>1, <1>2, ProceedFacts
<1>6. MapInv'
  <2>1. ~ HasOptionsMap'
    BY <1>2, <1>3, <1>5 DEF HasOptionsMap
  <2>. QED  BY <1>1, <1>5, <2>1 DEF MapInv
<1>7. at = 0 /\ at \in 0..Len(config.options)
  <2>1. ~ AtAssign
    BY <1>2, <1>3 DEF AtAssign
  <2>2. ~ AfterAssign
    BY <1>2, <1>3 DEF AfterAssign
  <2>3. at \in 0..Len(config.options)
    BY <1>2 DEF AtInv
  <2>4. at \in Nat
    BY <2>3
  <2>5. ~ (at > 0)
    BY <1>2, <2>1, <2>2 DEF AtInv
  <2>. QED  BY <2>3, <2>4, <2>5
<1>8. AtInv'
  BY <1>1, <1>3, <1>5, <1>7 DEF AtInv, AfterAssign
<1>9. PluginInv'
  BY <1>1, <1>2, <1>3, <1>5 DEF PluginInv, BeforeEarly, AfterEarly, SelectsEarly
<1>10. OptionsInv'
  <2>1. HasOptions' => Loop(config, options, Base(config, plugin), Assignments', 0)
    BY <1>2, <1>3, <1>5, <1>7, NothingAssigned DEF OptionsInv, HasOptions
  <2>. QED  BY <1>1, <1>2, <1>5, <1>7, <2>1 DEF OptionsInv
<1>. QED  BY <1>4, <1>6, <1>8, <1>9, <1>10 DEF Loading

LEMMA ConvertOptionsKeeps ==
  ASSUME IInv, Convert("convert_options", config.options)
  PROVE  Loading'
<1>1. /\ At("convert_options") /\ Proceed /\ map' = Multimap(config.options) /\ done' = FALSE
      /\ UNCHANGED <<plugin, options, at>>
  BY DEF Convert, Call
<1>2. /\ ConfigInv /\ Loading /\ TodoInv /\ AtInv /\ PluginInv /\ OptionsInv
      /\ Left \in 1..7 /\ Client \in Clients /\ StepAt(Client, Left, "convert_options")
  BY <1>1, Opened
<1>3. \/ Client = "compressor" /\ Left = 4
      \/ Client \in {"metrics", "pressio", "io"} /\ Left = 3
  BY <1>2 DEF StepAt, Clients
<1>4. TodoInv' /\ EndInv'
  BY <1>1, <1>2, <1>3, ProceedKeeps
<1>5. Left' = Left - 1 /\ config' = config /\ Client' = Client
  BY <1>1, <1>2, ProceedFacts
<1>6. MapInv'
  BY <1>1, <1>3, <1>5 DEF MapInv, HasEarlyMap
<1>7. at = 0 /\ at \in 0..Len(config.options)
  BY <1>2, <1>3 DEF AtInv, AtAssign, AfterAssign
<1>8. AtInv'
  BY <1>1, <1>3, <1>5, <1>7 DEF AtInv, AfterAssign
<1>9. PluginInv'
  BY <1>1, <1>2, <1>3, <1>5 DEF PluginInv, BeforeEarly, AfterEarly, SelectsEarly
<1>10. OptionsInv'
  <2>1. HasOptions' => Loop(config, options, Base(config, plugin), Assignments', 0)
    BY <1>2, <1>3, <1>5, <1>7, NothingAssigned DEF OptionsInv, HasOptions
  <2>. QED  BY <1>1, <1>2, <1>5, <1>7, <2>1 DEF OptionsInv
<1>. QED  BY <1>4, <1>6, <1>8, <1>9, <1>10 DEF Loading

LEMMA SetBackFacts ==
  ASSUME NEW c, c.client # "io", NEW p, Plug(p), Fresh(c, p)
  PROVE  Plug(SetOptions(p, p)) /\ Fresh(c, SetOptions(p, p))
<1> DEFINE q == SetOptions(p, p)
<1>1. Records(p) /\ \A k \in DOMAIN p : Fits(p, k)
  BY DEF Plug, Records, Fits
<1>2. Plug(q) /\ DOMAIN q = DOMAIN p /\ \A k \in DOMAIN q : q[k] = p[k]
  <2>1. /\ Plug(q)
        /\ \A k \in DOMAIN q : Fits(p, k) => q[k] = p[k]
        /\ \A k \in DOMAIN OwnDefaults : ~ Fits(p, k) => q[k] = p[k]
        /\ \A k \in DOMAIN q \ DOMAIN OwnDefaults :
             ~ Fits(p, k) => (k \in DOMAIN p /\ q[k] = p[k]) \/ q[k] = ChildDefaults[k]
        /\ (Fits(p, Selector) => p[Selector] = p[Selector]) => DOMAIN q = DOMAIN p
        /\ Fits(p, Selector) /\ p[Selector] # p[Selector] =>
             DOMAIN q = DOMAIN OwnDefaults \cup ModuleKeys(p[Selector])
    BY <1>1, SetOptionsFacts, Zenon
  <2>. QED  BY <1>1, <2>1
<1>. HIDE DEF q
<1>3. Fresh(c, q)
  BY <1>2 DEF Fresh
<1>. QED  BY <1>2, <1>3 DEF q

LEMMA SetBackKeeps ==
  ASSUME IInv, SetBack
  PROVE  Loading'
<1>1. /\ At("set_back") /\ Proceed /\ plugin' = SetOptions(plugin, plugin)
      /\ UNCHANGED <<map, opt, done, options, at>>
  BY DEF SetBack, convertVars
<1>2. /\ ConfigInv /\ Loading /\ TodoInv /\ MapInv /\ AtInv /\ PluginInv /\ OptionsInv
      /\ Left \in 1..7 /\ Client \in Clients /\ StepAt(Client, Left, "set_back")
  BY <1>1, Opened
<1>3. Client = "compressor" /\ Left = 6
  BY <1>2 DEF StepAt, Clients
<1>4. TodoInv' /\ EndInv'
  BY <1>1, <1>2, <1>3, ProceedKeeps
<1>5. Left' = Left - 1 /\ config' = config /\ Client' = Client
  BY <1>1, <1>2, ProceedFacts
<1>6. MapInv'
  BY <1>1, <1>3, <1>5 DEF MapInv, HasEarlyMap, HasOptionsMap
<1>7. AtInv'
  BY <1>1, <1>2, <1>3, <1>5 DEF AtInv, AtAssign, AfterAssign
<1>8. PluginInv'
  <2>1. Plug(plugin') /\ Fresh(config, plugin')
    BY <1>1, <1>2, <1>3, SetBackFacts DEF PluginInv, BeforeEarly, Client
  <2>. QED  BY <1>3, <1>5, <2>1 DEF PluginInv, BeforeEarly, AfterEarly, SelectsEarly
<1>9. OptionsInv'
  BY <1>1, <1>2, <1>3, <1>5 DEF OptionsInv, HasOptions
<1>. QED  BY <1>4, <1>6, <1>7, <1>8, <1>9 DEF Loading

LEMMA SetPathFacts ==
  ASSUME NEW c, c.client = "io", NEW p, Plug(p), Fresh(c, p), NEW text,
         ~ Refuses(p, [k \in {PathKey} |-> Option(<<text>>)])
  PROVE  LET q == SetOptions(p, [k \in {PathKey} |-> Option(<<text>>)])
         IN  Plug(q) /\ Fresh(c, q)
<1> DEFINE o == [k \in {PathKey} |-> Option(<<text>>)]
           q == SetOptions(p, o)
<1>1. DOMAIN o = {PathKey} /\ Records(o)
  BY DEF Records, Option
<1>2. ~ Fits(o, Selector)
  BY <1>1, PathAssumption DEF Fits
<1>. HIDE DEF o
<1>3. /\ Plug(q)
      /\ \A k \in DOMAIN q : Fits(o, k) => q[k] = o[k]
      /\ \A k \in DOMAIN OwnDefaults : ~ Fits(o, k) => q[k] = p[k]
      /\ DOMAIN q = DOMAIN p
  <2>1. /\ Plug(q)
        /\ \A k \in DOMAIN q : Fits(o, k) => q[k] = o[k]
        /\ \A k \in DOMAIN OwnDefaults : ~ Fits(o, k) => q[k] = p[k]
        /\ \A k \in DOMAIN q \ DOMAIN OwnDefaults :
             ~ Fits(o, k) => (k \in DOMAIN p /\ q[k] = p[k]) \/ q[k] = ChildDefaults[k]
        /\ (Fits(o, Selector) => o[Selector] = p[Selector]) => DOMAIN q = DOMAIN p
        /\ Fits(o, Selector) /\ o[Selector] # p[Selector] =>
             DOMAIN q = DOMAIN OwnDefaults \cup ModuleKeys(o[Selector])
    BY <1>1, SetOptionsFacts, Zenon
  <2>. QED  BY <1>2, <2>1
<1>4. ~ Refuses(p, o)
  BY DEF o
<1>5. \A k \in DOMAIN p : Fits(o, k) => k = PathKey /\ <<k, o[k].values>> \notin Refused
  BY <1>1, <1>4, FittingFacts DEF Fits
<1>. HIDE DEF q
<1>6. Fresh(c, q)
  BY <1>3, <1>5 DEF Fresh
<1>. QED  BY <1>3, <1>6 DEF o, q

LEMMA SetPathKeeps ==
  ASSUME IInv, SetPath
  PROVE  Loading'
<1> DEFINE paths == EntriesOf(config.options, PathKey)
           text == TextOf(config.options[Nth(paths, 1)])
           path == [k \in {PathKey} |-> Option(<<text>>)]
<1>1. At("set_path") /\ UNCHANGED convertVars
  BY DEF SetPath
<1>2. /\ ConfigInv /\ Loading /\ TodoInv /\ MapInv /\ AtInv /\ PluginInv /\ OptionsInv
      /\ Left \in 1..7 /\ Client \in Clients /\ StepAt(Client, Left, "set_path")
      /\ outcome = "running"
  BY <1>1, Opened
<1>3. Client = "io" /\ Left = 7
  BY <1>2 DEF StepAt, Clients
<1>4. CASE Cardinality(paths) > 1
  <2>1. Fail("exited")
    BY <1>4 DEF SetPath
  <2>2. Reason(config)
    BY <1>3, <1>4 DEF Reason, Client
  <2>. QED  BY <1>1, <1>2, <2>1, <2>2, FailKeeps
<1>5. CASE ~ (Cardinality(paths) > 1)
  <2>1. /\ plugin' = IF paths = {} \/ Refuses(plugin, path) THEN plugin ELSE SetOptions(plugin, path)
        /\ Proceed /\ UNCHANGED <<options, at>>
    BY <1>5 DEF SetPath
  <2>2. TodoInv' /\ EndInv'
    BY <1>1, <1>2, <1>3, <2>1, ProceedKeeps
  <2>3. Left' = Left - 1 /\ config' = config /\ Client' = Client
    BY <1>1, <1>2, <2>1, ProceedFacts
  <2>4. MapInv'
    BY <1>3, <2>3 DEF MapInv, HasEarlyMap, HasOptionsMap
  <2>5. AtInv'
    BY <1>2, <1>3, <2>1, <2>3 DEF AtInv, AtAssign, AfterAssign
  <2>6. PluginInv'
    <3>1. Plug(plugin) /\ Fresh(config, plugin) /\ config.client = "io"
      BY <1>2, <1>3 DEF PluginInv, BeforeEarly, Client
    <3>. HIDE DEF text
    <3>2. ~ Refuses(plugin, path) =>
             Plug(SetOptions(plugin, path)) /\ Fresh(config, SetOptions(plugin, path))
      BY <3>1, SetPathFacts
    <3>. HIDE DEF path
    <3>3. Plug(plugin') /\ Fresh(config, plugin')
      BY <2>1, <3>1, <3>2
    <3>. QED  BY <1>3, <2>3, <3>3 DEF PluginInv, BeforeEarly, AfterEarly
  <2>7. OptionsInv'
    BY <1>2, <1>3, <2>1, <2>3 DEF OptionsInv, HasOptions
  <2>. QED  BY <2>2, <2>4, <2>5, <2>6, <2>7 DEF Loading
<1>. QED  BY <1>4, <1>5

\* The early options, when they are set.
LEMMA EarlyStep ==
  ASSUME IInv, At("check_early") \/ At("set_early")
  PROVE  /\ Records(EarlyOptions)
         /\ Client # "dataset" => EarlyOptions = opt
         /\ SelectsFor(config) =>
              IF Refuses(plugin, EarlyOptions) THEN BadFor(config) /\ WithEarly(config, plugin)
              ELSE /\ Plug(SetOptions(plugin, EarlyOptions))
                   /\ WithEarly(config, SetOptions(plugin, EarlyOptions))
<1>1. /\ ConfigInv /\ ConvertInv /\ MapInv /\ PluginInv /\ Client \in Clients /\ done
      /\ Left \in 1..7 /\ (StepAt(Client, Left, "check_early") \/ StepAt(Client, Left, "set_early"))
  BY Opened
<1>2. \/ Client = "pressio" /\ Left = 6
      \/ Client \in {"metrics", "dataset"} /\ Left = 4
      \/ Client \in {"pressio", "io"} /\ Left = 5
  BY <1>1 DEF StepAt, Clients
<1>3. Client # "dataset" => map = Multimap(config.early)
  BY <1>1, <1>2 DEF MapInv, HasEarlyMap
<1>4. Plug(plugin) /\ Fresh(config, plugin)
  BY <1>1, <1>2 DEF PluginInv, BeforeEarly
<1>5. /\ \A k : k \in DOMAIN EarlyOptions <=> k \in KeysOf(config.early)
      /\ \A k \in DOMAIN EarlyOptions : EarlyOptions[k] = EarlyFor(config, k)
      /\ Records(EarlyOptions)
  BY <1>1, <1>3, EarlyOptionsFacts
<1>6. SelectsFor(config) =>
        IF Refuses(plugin, EarlyOptions) THEN BadFor(config) /\ WithEarly(config, plugin)
        ELSE /\ Plug(SetOptions(plugin, EarlyOptions))
             /\ WithEarly(config, SetOptions(plugin, EarlyOptions))
  BY <1>4, <1>5, EarlyEnds
<1>. QED  BY <1>5, <1>6 DEF EarlyOptions

LEMMA CheckEarlyKeeps ==
  ASSUME IInv, CheckEarly
  PROVE  Loading'
<1>1. At("check_early") /\ UNCHANGED convertVars
  BY DEF CheckEarly
<1>2. /\ ConfigInv /\ Loading /\ TodoInv /\ MapInv /\ AtInv /\ PluginInv /\ OptionsInv
      /\ Left \in 1..7 /\ Client \in Clients /\ StepAt(Client, Left, "check_early")
      /\ outcome = "running"
  BY <1>1, Opened
<1>3. Client = "pressio" /\ Left = 6
  BY <1>2 DEF StepAt, Clients
<1>4. CASE Refuses(plugin, opt)
  <2>1. Fail("exited")
    BY <1>4 DEF CheckEarly
  <2>2. EarlyOptions = opt /\ SelectsFor(config)
    BY <1>1, <1>3, EarlyStep DEF SelectsFor, Client
  <2>3. Reason(config)
    BY <1>1, <1>4, <2>2, EarlyStep DEF Reason
  <2>. QED  BY <1>1, <1>2, <2>1, <2>3, FailKeeps
<1>5. CASE ~ Refuses(plugin, opt)
  <2>1. Proceed /\ UNCHANGED <<plugin, options, at, map, opt, done>>
    BY <1>1, <1>5 DEF CheckEarly, convertVars
  <2>2. TodoInv' /\ EndInv'
    BY <1>1, <1>2, <1>3, <2>1, ProceedKeeps
  <2>3. Left' = Left - 1 /\ config' = config /\ Client' = Client
    BY <1>1, <1>2, <2>1, ProceedFacts
  <2>4. MapInv'
    BY <1>2, <1>3, <2>1, <2>3 DEF MapInv, HasEarlyMap, HasOptionsMap
  <2>5. AtInv'
    BY <1>2, <1>3, <2>1, <2>3 DEF AtInv, AtAssign, AfterAssign
  <2>6. PluginInv'
    BY <1>2, <1>3, <2>1, <2>3 DEF PluginInv, BeforeEarly, AfterEarly
  <2>7. OptionsInv'
    BY <1>2, <1>3, <2>1, <2>3 DEF OptionsInv, HasOptions
  <2>. QED  BY <2>2, <2>4, <2>5, <2>6, <2>7 DEF Loading
<1>. QED  BY <1>4, <1>5

LEMMA SetEarlyKeeps ==
  ASSUME IInv, SetEarly
  PROVE  Loading'
<1>1. At("set_early") /\ UNCHANGED convertVars
  BY DEF SetEarly
<1>2. /\ ConfigInv /\ Loading /\ TodoInv /\ MapInv /\ AtInv /\ PluginInv /\ OptionsInv
      /\ Left \in 1..7 /\ Client \in Clients /\ StepAt(Client, Left, "set_early")
      /\ outcome = "running"
  BY <1>1, Opened
<1>3. \/ Client \in {"metrics", "dataset"} /\ Left = 4
      \/ Client \in {"pressio", "io"} /\ Left = 5
  BY <1>2 DEF StepAt, Clients
<1>4. /\ Records(EarlyOptions)
      /\ SelectsFor(config) =>
           IF Refuses(plugin, EarlyOptions) THEN BadFor(config) /\ WithEarly(config, plugin)
           ELSE /\ Plug(SetOptions(plugin, EarlyOptions))
                /\ WithEarly(config, SetOptions(plugin, EarlyOptions))
  BY <1>1, EarlyStep
<1>5. CASE Refuses(plugin, EarlyOptions) /\ ChecksSet
  <2>1. Fail(Failure)
    BY <1>5 DEF SetEarly
  <2>2. SelectsFor(config) /\ Failure \in {"threw", "exited", "crashed"}
    BY <1>3, <1>5 DEF ChecksSet, SelectsFor, Failure, Client
  <2>3. Reason(config)
    BY <1>4, <1>5, <2>2 DEF Reason
  <2>. QED  BY <1>1, <1>2, <2>1, <2>2, <2>3, FailKeeps
<1>6. CASE ~ (Refuses(plugin, EarlyOptions) /\ ChecksSet)
  <2>1. /\ Proceed /\ UNCHANGED <<options, at, map, opt, done>>
        /\ plugin' = IF Refuses(plugin, EarlyOptions) THEN plugin ELSE SetOptions(plugin, EarlyOptions)
    BY <1>1, <1>6 DEF SetEarly, convertVars
  <2>2. TodoInv' /\ EndInv'
    BY <1>1, <1>2, <1>3, <2>1, ProceedKeeps
  <2>3. /\ Left' = Left - 1 /\ config' = config /\ Client' = Client
        /\ Assignments' = Assignments
    BY <1>1, <1>2, <2>1, ProceedFacts, SameAssignments
  <2>4. MapInv'
    BY <1>2, <1>3, <2>1, <2>3 DEF MapInv, HasEarlyMap, HasOptionsMap
  <2>5. AtInv'
    BY <1>2, <1>3, <2>1, <2>3 DEF AtInv, AtAssign, AfterAssign
  <2>6. PluginInv'
    <3>1. Plug(SetOptions(plugin, EarlyOptions))
      BY <1>2, <1>4, SetOptionsFacts DEF PluginInv
    <3>2. Plug(plugin')
      BY <1>2, <2>1, <3>1 DEF PluginInv
    <3>3. SelectsFor(config) => WithEarly(config, plugin')
      BY <1>4, <2>1
    <3>. QED  BY <1>3, <2>3, <3>2, <3>3
              DEF PluginInv, BeforeEarly, AfterEarly, SelectsEarly, SelectsFor, Client
  <2>7. OptionsInv'
    <3>1. HasOptions' => HasOptions /\ config.client = "metrics"
      BY <1>2, <1>3, <2>3 DEF HasOptions, Client
    <3>2. config.client = "metrics" => Base(config, plugin') = Base(config, plugin)
      BY DEF Base
    <3>. QED  BY <1>2, <2>1, <2>3, <3>1, <3>2 DEF OptionsInv
  <2>. QED  BY <2>2, <2>4, <2>5, <2>6, <2>7 DEF Loading
<1>. QED  BY <1>5, <1>6

LEMMA SnapshotKeeps ==
  ASSUME IInv, Snapshot
  PROVE  Loading'
<1>1. /\ At("snapshot") /\ Proceed /\ options' = plugin
      /\ UNCHANGED <<map, opt, done, plugin, at>>
  BY DEF Snapshot, convertVars
<1>2. /\ ConfigInv /\ Loading /\ TodoInv /\ MapInv /\ AtInv /\ PluginInv /\ OptionsInv
      /\ Left \in 1..7 /\ Client \in Clients /\ StepAt(Client, Left, "snapshot")
  BY <1>1, Opened
<1>3. \/ Client = "compressor" /\ Left = 5
      \/ Client = "metrics" /\ Left = 6
      \/ Client = "dataset" /\ Left = 3
      \/ Client \in {"pressio", "io"} /\ Left = 4
  BY <1>2 DEF StepAt, Clients
<1>4. TodoInv' /\ EndInv'
  BY <1>1, <1>2, <1>3, ProceedKeeps
<1>5. Left' = Left - 1 /\ config' = config /\ Client' = Client
  BY <1>1, <1>2, ProceedFacts
<1>6. MapInv'
  BY <1>1, <1>2, <1>3, <1>5 DEF MapInv, HasEarlyMap, HasOptionsMap
<1>7. at = 0 /\ at \in 0..Len(config.options)
  BY <1>2, <1>3 DEF AtInv, AtAssign, AfterAssign
<1>8. AtInv'
  BY <1>1, <1>3, <1>5, <1>7 DEF AtInv, AfterAssign
<1>9. PluginInv'
  BY <1>1, <1>2, <1>3, <1>5 DEF PluginInv, BeforeEarly, AfterEarly, SelectsEarly
<1>10. OptionsInv'
  <2>1. Plug(plugin)
    BY <1>2 DEF PluginInv
  <2>2. /\ DOMAIN plugin = DOMAIN Base(config, plugin)
        /\ \A k \in DOMAIN plugin : plugin[k] = Base(config, plugin)[k]
    <3>1. CASE config.client = "metrics"
      <4>1. Fresh(config, plugin)
        BY <1>2, <1>3, <3>1 DEF PluginInv, BeforeEarly, Client
      <4>. QED  BY <3>1, <4>1 DEF Fresh, Base
    <3>2. CASE config.client # "metrics"
      BY <3>2 DEF Base
    <3>. QED  BY <3>1, <3>2
  <2>3. Loop(config, plugin, Base(config, plugin), Assignments', 0)
    BY <2>1, <2>2, LoopStarts
  <2>. QED  BY <1>1, <1>5, <1>7, <2>1, <2>3 DEF OptionsInv
<1>. QED  BY <1>4, <1>6, <1>8, <1>9, <1>10 DEF Loading

\* When the loop over the options runs, and until they are written.
LEMMA LoopStep ==
  ASSUME IInv, At("assign") \/ At("check") \/ At("write")
  PROVE  /\ config.client \in Clients /\ AssignmentsOf(config, Assignments)
         /\ Len(Assignments) \in Nat /\ Len(Assignments) <= Len(config.options)
         /\ Client # "dataset" => DOMAIN opt = KeysOf(config.options)
         /\ Ready(config, plugin)
         /\ Loop(config, options, Base(config, plugin), Assignments, at)
         /\ at \in Nat
<1>1. /\ ConfigInv /\ ConvertInv /\ MapInv /\ AtInv /\ PluginInv /\ OptionsInv
      /\ Left \in 1..7 /\ Client \in Clients /\ done
      /\ \/ StepAt(Client, Left, "assign")
         \/ StepAt(Client, Left, "check")
         \/ StepAt(Client, Left, "write")
  BY Opened
<1>2. \/ Client = "compressor" /\ Left \in 1..3
      \/ Client \in {"metrics", "dataset", "pressio", "io"} /\ Left \in 1..2
  BY <1>1 DEF StepAt, Clients
<1>3. Client # "dataset" => map = Multimap(config.options)
  BY <1>1, <1>2 DEF MapInv, HasOptionsMap
<1>4. AssignmentsOf(config, Assignments)
  BY <1>1, <1>3, AssignmentsAre
<1>5. /\ Len(Assignments) \in Nat /\ Len(Assignments) <= Len(config.options)
      /\ Client # "dataset" => DOMAIN opt = KeysOf(config.options)
  BY <1>1, <1>3, AssignmentFacts
<1>6. Ready(config, plugin)
  <2>1. Plug(plugin)
    BY <1>1 DEF PluginInv
  <2>2. config.client = "compressor" => Fresh(config, plugin)
    BY <1>1, <1>2 DEF PluginInv, BeforeEarly, Client
  <2>3. SelectsFor(config) => WithEarly(config, plugin)
    BY <1>1, <1>2 DEF PluginInv, BeforeEarly, AfterEarly, SelectsEarly, SelectsFor, Client
  <2>. QED  BY <2>1, <2>2, <2>3 DEF Ready
<1>7. Loop(config, options, Base(config, plugin), Assignments, at)
  BY <1>1, <1>2 DEF OptionsInv, HasOptions
<1>8. at \in Nat
  <2>1. at \in 0..Len(config.options)
    BY <1>1 DEF AtInv
  <2>. QED  BY <2>1
<1>. QED  BY <1>1, <1>4, <1>5, <1>6, <1>7, <1>8 DEF Client

\* An option that cannot be assigned is a reason to fail.
LEMMA AssignFails ==
  ASSUME NEW c, c.client \in Clients, c.client # "dataset", NEW p, Ready(c, p),
         NEW as, AssignmentsOf(c, as), NEW n \in Nat, n < Len(as),
         NEW o, Loop(c, o, Base(c, p), as, n),
         CastStatus(o, as[n + 1].key, as[n + 1].option) # "set"
  PROVE  Reason(c)
<1> DEFINE k == as[n + 1].key
<1>1. n + 1 \in 1..Len(as)
  <2> DEFINE N == Len(as)
  <2>1. N \in Nat /\ n < N
    BY DEF AssignmentsOf
  <2>. HIDE DEF N
  <2>2. n + 1 \in 1..N
    BY <2>1
  <2>. QED  BY <2>2 DEF N
<1>2. k \in KeysOf(c.options) /\ as[n + 1].option = GivenFor(c, k)
  BY <1>1 DEF AssignmentsOf
<1>3. DOMAIN o = DOMAIN Base(c, p) /\ Plug(o)
  BY DEF Loop
<1>4. ~ BadFor(c) => DOMAIN o = AvailableFor(c)
  BY <1>3, BaseFacts
<1>. HIDE DEF k
<1>5. k \in DOMAIN o => o[k].type = TypeOf(k)
  BY <1>3 DEF Plug
<1>6. ~ (k \in DOMAIN o /\ Converts(GivenFor(c, k), TypeOf(k)))
  BY <1>2, <1>5 DEF CastStatus, k
<1>. QED  BY <1>2, <1>4, <1>6 DEF Reason, SettableFor

LEMMA AssignKeeps ==
  ASSUME IInv, Assign
  PROVE  Loading'
<1> DEFINE k == Assignments[at + 1].key
           option == Assignments[at + 1].option
<1>1. At("assign") /\ UNCHANGED convertVars /\ at < Len(Assignments)
  BY DEF Assign
<1>2. /\ ConfigInv /\ Loading /\ TodoInv /\ MapInv /\ AtInv /\ PluginInv /\ OptionsInv /\ EndInv
      /\ Left \in 1..7 /\ Client \in Clients /\ StepAt(Client, Left, "assign")
      /\ outcome = "running" /\ done
  BY <1>1, Opened
<1>3. \/ Client = "compressor" /\ Left = 3
      \/ Client \in {"metrics", "dataset", "pressio", "io"} /\ Left = 2
  BY <1>2 DEF StepAt, Clients
<1>4. /\ config.client \in Clients /\ AssignmentsOf(config, Assignments)
      /\ Len(Assignments) \in Nat /\ Len(Assignments) <= Len(config.options)
      /\ Ready(config, plugin)
      /\ Loop(config, options, Base(config, plugin), Assignments, at)
      /\ at \in Nat
  BY <1>1, LoopStep
<1>5. CASE CastStatus(options, k, option) # "set" /\ Client # "dataset"
  <2>1. Fail(Failure)
    BY <1>5 DEF Assign
  <2>2. Failure \in {"threw", "exited", "crashed"}
    BY DEF Failure
  <2>3. Reason(config)
    BY <1>1, <1>4, <1>5, AssignFails DEF Client
  <2>. QED  BY <1>1, <1>2, <2>1, <2>2, <2>3, FailKeeps
<1>6. CASE ~ (CastStatus(options, k, option) # "set" /\ Client # "dataset")
  <2>1. /\ options' = CastSet(options, k, option) /\ at' = at + 1
        /\ UNCHANGED <<config, todo, plugin, outcome, map, opt, done>>
    BY <1>1, <1>6 DEF Assign, convertVars
  <2>2. Client' = Client /\ Left' = Left /\ Assignments' = Assignments
    BY <2>1, SameAssignments DEF Left
  <2>3. TodoInv' /\ MapInv' /\ PluginInv' /\ EndInv'
    <3>1. TodoInv'
      BY <1>2, <2>1, <2>2 DEF TodoInv
    <3>2. MapInv'
      BY <1>2, <2>1, <2>2 DEF MapInv, HasEarlyMap, HasOptionsMap
    <3>3. PluginInv'
      BY <1>2, <2>1, <2>2 DEF PluginInv, BeforeEarly, AfterEarly, SelectsEarly
    <3>4. EndInv'
      BY <1>2, <2>1, <2>2 DEF EndInv
    <3>. QED  BY <3>1, <3>2, <3>3, <3>4
  <2>4. AtInv'
    <3>1. at + 1 \in 0..Len(config.options) /\ at + 1 <= Len(Assignments)
      BY <1>1, <1>2, <1>4, ClientFacts
    <3>2. AtAssign' /\ ~ AfterAssign'
      BY <1>3, <2>2 DEF AtAssign, AfterAssign
    <3>. QED  BY <1>2, <2>1, <2>2, <3>1, <3>2 DEF AtInv
  <2>5. OptionsInv'
    <3>1. CastStatus(options, k, option) = "set" \/ config.client = "dataset"
      BY <1>6 DEF Client
    <3>2. Loop(config, CastSet(options, k, option), Base(config, plugin), Assignments, at + 1)
      BY <1>4, <3>1, LoopGoesOn
    <3>3. Plug(options')
      BY <2>1, <3>2 DEF Loop
    <3>. QED  BY <2>1, <2>2, <3>2, <3>3 DEF OptionsInv
  <2>. QED  BY <2>3, <2>4, <2>5 DEF Loading
<1>. QED  BY <1>5, <1>6

LEMMA AssignedKeeps ==
  ASSUME IInv, Assigned
  PROVE  Loading'
<1>1. /\ At("assign") /\ Proceed /\ at = Len(Assignments)
      /\ UNCHANGED <<map, opt, done, plugin, options, at>>
  BY DEF Assigned, convertVars
<1>2. /\ ConfigInv /\ Loading /\ TodoInv /\ MapInv /\ AtInv /\ PluginInv /\ OptionsInv
      /\ Left \in 1..7 /\ Client \in Clients /\ StepAt(Client, Left, "assign") /\ done
  BY <1>1, Opened
<1>3. \/ Client = "compressor" /\ Left = 3
      \/ Client \in {"metrics", "dataset", "pressio", "io"} /\ Left = 2
  BY <1>2 DEF StepAt, Clients
<1>4. TodoInv' /\ EndInv'
  BY <1>1, <1>2, <1>3, ProceedKeeps
<1>5. Left' = Left - 1 /\ config' = config /\ Client' = Client /\ Assignments' = Assignments
  BY <1>1, <1>2, ProceedFacts, SameAssignments
<1>6. MapInv'
  BY <1>1, <1>2, <1>3, <1>5 DEF MapInv, HasEarlyMap, HasOptionsMap
<1>7. AtInv'
  <2>1. AfterAssign' /\ ~ AtAssign'
    BY <1>3, <1>5 DEF AtAssign, AfterAssign
  <2>2. at \in 0..Len(config.options)
    BY <1>2 DEF AtInv
  <2>. QED  BY <1>1, <1>2, <1>5, <2>1, <2>2 DEF AtInv
<1>8. PluginInv'
  BY <1>1, <1>2, <1>3, <1>5 DEF PluginInv, BeforeEarly, AfterEarly, SelectsEarly
<1>9. OptionsInv'
  BY <1>1, <1>2, <1>3, <1>5 DEF OptionsInv, HasOptions
<1>. QED  BY <1>4, <1>6, <1>7, <1>8, <1>9 DEF Loading

LEMMA CheckKeeps ==
  ASSUME IInv, Check
  PROVE  Loading'
<1>1. At("check") /\ UNCHANGED convertVars
  BY DEF Check
<1>2. /\ ConfigInv /\ Loading /\ TodoInv /\ MapInv /\ AtInv /\ PluginInv /\ OptionsInv
      /\ Left \in 1..7 /\ Client \in Clients /\ StepAt(Client, Left, "check")
      /\ outcome = "running"
  BY <1>1, Opened
<1>3. Client = "compressor" /\ Left = 2
  BY <1>2 DEF StepAt, Clients
<1>4. CASE Refuses(plugin, options)
  <2>1. Fail("threw")
    BY <1>4 DEF Check
  <2>2. Reason(config)
    <3>1. /\ config.client \in Clients /\ AssignmentsOf(config, Assignments)
          /\ Ready(config, plugin) /\ at = Len(Assignments)
          /\ Loop(config, options, Base(config, plugin), Assignments, at)
      BY <1>1, <1>2, <1>3, LoopStep DEF AtInv, AfterAssign
    <3>2. WrittenFor(config, options) = options
      BY <1>3 DEF WrittenFor, Client
    <3>3. LET w == WrittenFor(config, options)
              q == SetOptions(plugin, w)
          IN  /\ AllSettable(config)
              /\ Refuses(plugin, w) => BadFor(config)
              /\ ~ Refuses(plugin, w) =>
                   Plug(q) /\ GivenHeld(config, q) /\ EarlyHeld(config, q) /\ NoneRefused(config)
      BY <3>1, WritingEnds
    <3>. QED  BY <1>4, <3>2, <3>3 DEF Reason
  <2>. QED  BY <1>1, <1>2, <2>1, <2>2, FailKeeps
<1>5. CASE ~ Refuses(plugin, options)
  <2>1. Proceed /\ UNCHANGED <<plugin, options, at, map, opt, done>>
    BY <1>1, <1>5 DEF Check, convertVars
  <2>2. TodoInv' /\ EndInv'
    BY <1>1, <1>2, <1>3, <2>1, ProceedKeeps
  <2>3. Left' = Left - 1 /\ config' = config /\ Client' = Client /\ Assignments' = Assignments
    BY <1>1, <1>2, <2>1, ProceedFacts, SameAssignments
  <2>4. MapInv'
    BY <1>2, <1>3, <2>1, <2>3 DEF MapInv, HasEarlyMap, HasOptionsMap
  <2>5. AtInv'
    BY <1>2, <1>3, <2>1, <2>3 DEF AtInv, AtAssign, AfterAssign
  <2>6. PluginInv'
    BY <1>2, <1>3, <2>1, <2>3 DEF PluginInv, BeforeEarly, AfterEarly, SelectsEarly
  <2>7. OptionsInv'
    BY <1>2, <1>3, <2>1, <2>3 DEF OptionsInv, HasOptions
  <2>. QED  BY <2>2, <2>4, <2>5, <2>6, <2>7 DEF Loading
<1>. QED  BY <1>4, <1>5

LEMMA WriteKeeps ==
  ASSUME IInv, Write
  PROVE  Loading'
<1> DEFINE w == WrittenFor(config, options)
           q == SetOptions(plugin, w)
<1>1. At("write") /\ UNCHANGED convertVars
  BY DEF Write
<1>2. /\ ConfigInv /\ Loading /\ TodoInv /\ MapInv /\ AtInv /\ PluginInv /\ OptionsInv
      /\ Left \in 1..7 /\ Client \in Clients /\ StepAt(Client, Left, "write")
      /\ outcome = "running" /\ config.state = "complete"
  BY <1>1, Opened
<1>3. Left = 1
  BY <1>2 DEF StepAt, Clients
<1>4. /\ config.client \in Clients /\ AssignmentsOf(config, Assignments)
      /\ Ready(config, plugin) /\ at = Len(Assignments)
      /\ Loop(config, options, Base(config, plugin), Assignments, at)
      /\ Client # "dataset" => DOMAIN opt = KeysOf(config.options)
  BY <1>1, <1>2, <1>3, LoopStep DEF AtInv, AfterAssign
<1>5. Written = w
  BY <1>4 DEF Written, WrittenFor, Client
<1>6. /\ AllSettable(config)
      /\ Refuses(plugin, w) => BadFor(config)
      /\ ~ Refuses(plugin, w) =>
           Plug(q) /\ GivenHeld(config, q) /\ EarlyHeld(config, q) /\ NoneRefused(config)
  <2>1. Loop(config, options, Base(config, plugin), Assignments, Len(Assignments))
    BY <1>4
  <2>. QED  BY <1>4, <2>1, WritingEnds
<1>. HIDE DEF w, q
<1>7. CASE Refuses(plugin, w) /\ ChecksSet
  <2>1. Fail(Failure)
    BY <1>5, <1>7 DEF Write
  <2>2. Failure \in {"threw", "exited", "crashed"}
    BY DEF Failure
  <2>3. Reason(config)
    BY <1>6, <1>7 DEF Reason
  <2>. QED  BY <1>1, <1>2, <2>1, <2>2, <2>3, FailKeeps
<1>8. CASE ~ (Refuses(plugin, w) /\ ChecksSet)
  <2>1. /\ Proceed /\ UNCHANGED <<options, at, map, opt, done>>
        /\ plugin' = IF Refuses(plugin, w) THEN plugin ELSE q
    BY <1>1, <1>5, <1>8 DEF Write, convertVars, q
  <2>2. /\ TodoInv' /\ Left' = Left - 1 /\ config' = config /\ Client' = Client
        /\ Assignments' = Assignments /\ outcome' = "loaded"
    BY <1>1, <1>2, <1>3, <2>1, ProceedFacts, SameAssignments
  <2>3. Left' = 0
    BY <1>3, <2>2
  <2>4. MapInv'
    BY <1>2, <1>3, <2>1, <2>2, <2>3 DEF MapInv, HasEarlyMap, HasOptionsMap
  <2>5. AtInv'
    <3>1. AfterAssign' /\ ~ AtAssign' /\ AfterAssign
      BY <1>3, <2>3 DEF AtAssign, AfterAssign
    <3>2. at \in 0..Len(config.options)
      BY <1>2 DEF AtInv
    <3>. QED  BY <1>2, <2>1, <2>2, <3>1, <3>2 DEF AtInv
  <2>6. PluginInv'
    <3>1. Plug(plugin')
      BY <1>2, <1>6, <2>1 DEF PluginInv
    <3>2. ~ BeforeEarly' /\ ~ AfterEarly'
      BY <2>3 DEF BeforeEarly, AfterEarly
    <3>. QED  BY <3>1, <3>2 DEF PluginInv
  <2>7. OptionsInv'
    BY <1>2, <2>1, <2>3 DEF OptionsInv, HasOptions
  <2>8. GivenHeld(config, plugin') /\ EarlyHeld(config, plugin') /\ NoneRefused(config)
    <3>1. CASE Refuses(plugin, w)
      <4>1. BadFor(config) /\ config.client \notin {"compressor", "pressio"}
        BY <1>6, <1>8, <3>1 DEF ChecksSet, Client
      <4>. QED  BY <4>1 DEF GivenHeld, EarlyHeld, NoneRefused
    <3>2. CASE ~ Refuses(plugin, w)
      BY <1>6, <2>1, <3>2
    <3>. QED  BY <3>1, <3>2
  <2>9. EndInv'
    BY <1>2, <1>6, <2>2, <2>3, <2>8 DEF EndInv
  <2>. QED  BY <2>2, <2>4, <2>5, <2>6, <2>7, <2>9 DEF Loading
<1>. QED  BY <1>7, <1>8

-----------------------------------------------------------------------------
LEMMA InvariantStarts ==
  ASSUME Init
  PROVE  IInv
<1>1. ConfigInv /\ ConvertInv
  BY ConversionStarts
<1>2. /\ todo = Steps(Client) /\ plugin = OwnDefaults /\ options = <<>> /\ at = 0
      /\ outcome = "running" /\ map = <<>> /\ done = TRUE
  BY DEF Init, NotCalled, Client
<1>3. Client \in Clients /\ Client = config.client /\ Len(config.options) \in Nat
  BY <1>1, ClientFacts DEF Client
<1>4. \/ Client \in {"compressor", "metrics"} /\ Left = 6
      \/ Client = "dataset" /\ Left = 4
      \/ Client \in {"pressio", "io"} /\ Left = 7
  BY <1>2, <1>3, StepsFacts DEF Left, Clients
<1>5. TodoInv
  <2>1. (\A j \in 1..Left : Left - Left + j = j) /\ Left <= Left
    BY <1>4
  <2>2. todo \in Seq(StepNames) /\ Left = Len(Steps(Client))
    BY <1>2, <1>3, StepsFacts DEF Left
  <2>. QED  BY <1>2, <2>1, <2>2 DEF TodoInv
<1>6. MapInv
  BY <1>4 DEF MapInv, HasEarlyMap, HasOptionsMap
<1>7. AtInv
  BY <1>2, <1>3, <1>4 DEF AtInv, AtAssign, AfterAssign
<1>8. PluginInv
  <2>1. Plug(plugin) /\ Fresh(config, plugin)
    BY <1>2, DefaultsArePlug DEF Fresh
  <2>. QED  BY <1>3, <1>4, <2>1 DEF PluginInv, BeforeEarly, AfterEarly, SelectsEarly
<1>9. OptionsInv
  BY <1>2, <1>4 DEF OptionsInv, HasOptions
<1>10. EndInv
  BY <1>2, <1>4 DEF EndInv
<1>. QED  BY <1>1, <1>5, <1>6, <1>7, <1>8, <1>9, <1>10 DEF IInv, Converted, Loading

LEMMA InvariantStays ==
  ASSUME IInv, [Next]_vars
  PROVE  IInv'
<1>1. Converted'
  BY ConversionKeeps DEF IInv, Converted
<1>. SUFFICES Loading'
  BY <1>1 DEF IInv
<1>2. CASE Converting
  BY <1>2, ConvertingKeeps
<1>3. CASE NoPlugin
  BY <1>3, NoPluginKeeps
<1>4. CASE Convert("convert_early", config.early)
  BY <1>4, ConvertEarlyKeeps
<1>5. CASE Convert("convert_options", config.options)
  BY <1>5, ConvertOptionsKeeps
<1>6. CASE SetBack
  BY <1>6, SetBackKeeps
<1>7. CASE SetPath
  BY <1>7, SetPathKeeps
<1>8. CASE CheckEarly
  BY <1>8, CheckEarlyKeeps
<1>9. CASE SetEarly
  BY <1>9, SetEarlyKeeps
<1>10. CASE Snapshot
  BY <1>10, SnapshotKeeps
<1>11. CASE Assign
  BY <1>11, AssignKeeps
<1>12. CASE Assigned
  BY <1>12, AssignedKeeps
<1>13. CASE Check
  BY <1>13, CheckKeeps
<1>14. CASE Write
  BY <1>14, WriteKeeps
<1>15. CASE UNCHANGED vars
  <2>1. UNCHANGED <<config, todo, plugin, options, at, outcome, map, opt, done>>
    BY <1>15 DEF vars, clientVars, convertVars
  <2>2. Client' = Client /\ Left' = Left /\ Assignments' = Assignments
    BY <2>1, SameAssignments DEF Left
  <2>3. TodoInv' /\ MapInv'
    BY <2>1, <2>2 DEF IInv, Loading, TodoInv, MapInv, HasEarlyMap, HasOptionsMap
  <2>4. AtInv'
    BY <2>1, <2>2 DEF IInv, Loading, AtInv, AtAssign, AfterAssign
  <2>5. PluginInv' /\ OptionsInv'
    BY <2>1, <2>2 DEF IInv, Loading, PluginInv, OptionsInv, BeforeEarly, AfterEarly, HasOptions,
                      SelectsEarly
  <2>6. EndInv'
    BY <2>1, <2>2 DEF IInv, Loading, EndInv
  <2>. QED  BY <2>3, <2>4, <2>5, <2>6 DEF Loading
<1>. QED  BY <1>2, <1>3, <1>4, <1>5, <1>6, <1>7, <1>8, <1>9, <1>10, <1>11, <1>12, <1>13, <1>14,
             <1>15 DEF Next, ClientNext

\* The inductive invariant: how far the client is tells which multimap was converted
\* last, whether the plugin has its early options, and what the loop has assigned.
THEOREM Invariant == Spec => []IInv
<1>1. Init => IInv
  BY InvariantStarts
<1>2. IInv /\ [Next]_vars => IInv'
  BY InvariantStays
<1>. QED  BY <1>1, <1>2, PTL DEF Spec

-----------------------------------------------------------------------------
(***************************************************************************)
(* The properties of the runs.                                             *)
(***************************************************************************)

LEMMA OptionKeys ==
  ASSUME ConvertInv
  PROVE  DOMAIN opt \subseteq Keys
<1>1. /\ Len(map) \in Nat /\ DOMAIN map = 1..Len(map)
      /\ \A e \in 1..Len(map) : map[e].key \in Keys
  BY MapFacts DEF ConvertInv
<1>2. next \in Nat /\ next - 1 <= Len(map)
  BY <1>1 DEF ConvertInv
<1>3. CASE done
  BY <1>1, <1>3 DEF ConvertInv, FromMultimap, KeysOf
<1>4. CASE ~ done /\ next = 1
  BY <1>4 DEF ConvertInv
<1>5. CASE ~ done /\ next > 1
  <2>1. DOMAIN opt \subseteq KeysOf(Passed)
    BY <1>5 DEF ConvertInv, Made
  <2>2. DOMAIN Passed = 1..(next - 1) /\ \A e \in 1..(next - 1) : Passed[e] = map[e]
    BY DEF Passed, Prefix
  <2>3. \A e \in 1..(next - 1) : map[e].key \in Keys
    BY <1>1, <1>2
  <2>. QED  BY <2>1, <2>2, <2>3 DEF KeysOf
<1>6. next = 1 \/ next > 1
  BY <1>2 DEF ConvertInv
<1>. QED  BY <1>3, <1>4, <1>5, <1>6 DEF ConvertInv

\* The type invariant: every option of the plugin and of the local copy keeps the
\* type the plugin gave it, and the loop stays within what the user wrote.
THEOREM TypeCorrect == Spec => []TypeOK
<1>1. IInv => TypeOK
  <2> SUFFICES ASSUME IInv PROVE TypeOK
    OBVIOUS
  <2>1. /\ ConfigInv /\ ConvertInv
        /\ TodoInv /\ AtInv /\ PluginInv /\ OptionsInv /\ EndInv
    BY DEF IInv, Converted, Loading
  <2>2. DOMAIN opt \subseteq Keys
    BY <2>1, OptionKeys
  <2>3. ConvertTypeOK
    BY <2>1, <2>2 DEF ConvertTypeOK, ConvertInv
  <2>4. Len(todo) <= 7
    <3> DEFINE N == Len(Steps(Client))
    <3>1. N \in Nat /\ N <= 7 /\ Left <= N /\ Left \in Nat
      BY <2>1, ClientFacts, StepsFacts DEF TodoInv, Left
    <3>. HIDE DEF N
    <3>2. Left <= 7
      BY <3>1
    <3>. QED  BY <3>2 DEF Left
  <2>5. /\ DOMAIN OwnDefaults \subseteq DOMAIN plugin
        /\ \A k \in DOMAIN plugin : plugin[k].type = TypeOf(k)
        /\ \A k \in DOMAIN options : options[k].type = TypeOf(k)
    BY <2>1 DEF PluginInv, OptionsInv, Plug
  <2>. QED  BY <2>1, <2>3, <2>4, <2>5, ClientFacts DEF TypeOK, AtInv, EndInv
<1>. QED  BY <1>1, Invariant, PTL

\* After a load every option that was given, with all of its values, has reached the
\* plugin: none is lost between multimap, local copy and conversion, whichever
\* client loads them.
THEOREM GivenOptionsReachPlugins == Spec => []GivenOptionsHold
<1>1. IInv => GivenOptionsHold
  <2> SUFFICES ASSUME IInv, Loaded, ~ OutOfRange PROVE GivenOptionsHold
    BY DEF GivenOptionsHold
  <2>1. GivenHeld(config, plugin)
    BY DEF IInv, Loading, EndInv, Loaded
  <2>. QED  BY <2>1, SameWords DEF GivenHeld, GivenOptionsHold, GivenKeys, Client
<1>. QED  BY <1>1, Invariant, PTL

\* An early option that the options do not repeat still holds after them, except
\* that metrics.cc undoes it and compressor_configs.cc never sets it.
THEOREM EarlyOptionsStay == Spec => []EarlyOptionsHold
<1>1. IInv => EarlyOptionsHold
  <2> SUFFICES ASSUME IInv, Loaded, ~ OutOfRange PROVE EarlyOptionsHold
    BY DEF EarlyOptionsHold
  <2>1. EarlyHeld(config, plugin)
    BY DEF IInv, Loading, EndInv, Loaded
  <2>2. SelectsEarly <=> SelectsFor(config)
    BY DEF SelectsEarly, SelectsFor, Client
  <2>. QED  BY <2>1, <2>2, SameWords DEF EarlyHeld, EarlyOptionsHold, GivenKeys, EarlyKeys
<1>. QED  BY <1>1, Invariant, PTL

\* Setting options fails only for a reason: an option without a key in the plugin or
\* in the module selected early, a value that does not fit, or two paths.
THEOREM LoadsFailForAReason == Spec => []FailsForAReason
<1>1. IInv => FailsForAReason
  <2> SUFFICES ASSUME IInv, outcome \in {"threw", "exited"}, config.state = "complete"
               PROVE  FailsForAReason
    BY DEF FailsForAReason
  <2>1. Reason(config)
    BY DEF IInv, Loading, EndInv
  <2>. QED  BY <2>1, SameWords DEF Reason, FailsForAReason, GivenKeys, Client
<1>. QED  BY <1>1, Invariant, PTL

\* No option that the plugin cannot have goes unnoticed except in a dataset, and no
\* value out of range goes unnoticed by a client that looks at the answer.
THEOREM MistakesNeverPass == Spec => []MistakesAreReported
<1>1. IInv => MistakesAreReported
  <2> SUFFICES ASSUME IInv, Loaded PROVE MistakesAreReported
    BY DEF MistakesAreReported
  <2>1. config.state = "complete" /\ AllSettable(config) /\ NoneRefused(config)
    BY DEF IInv, Loading, EndInv, Loaded
  <2>2. ChecksSet <=> config.client \in {"compressor", "pressio"}
    BY DEF ChecksSet, Client
  <2>. QED  BY <2>1, <2>2, SameWords
            DEF AllSettable, NoneRefused, MistakesAreReported, GivenKeys, Client
<1>. QED  BY <1>1, Invariant, PTL

=============================================================================
