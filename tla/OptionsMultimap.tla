--------------------------- MODULE OptionsMultimap ---------------------------
(***************************************************************************)
(* options_from_multimap (src/utils/string_options.cc): the options given  *)
(* as text, several of them possibly for one key, become one option per    *)
(* key, a string or a list of strings.                                     *)
(*                                                                         *)
(* A std::multimap is the sequence of its entries: ordered by key, entries *)
(* of one key in the order they were inserted.                             *)
(*                                                                         *)
(* Every program and loader calls it: the module is a procedure, with Call *)
(* to enter it, ConvertNext for its steps, and opt to return.              *)
(***************************************************************************)
EXTENDS Naturals, Sequences, FiniteSets

CONSTANTS
  Keys,   \* numbers, in the order of the strings they stand for
  Texts   \* the values given

ASSUME KeysAssumption == Keys \subseteq Nat

VARIABLES
  map,     \* the argument
  next,    \* the entry the loop is at
  values,  \* the values of the current key so far
  opt,     \* the options made so far
  done     \* no call is running; opt is what the last one returned

convertVars == <<map, next, values, opt, done>>

\* The n-th number of a finite set, in their order.
Nth(S, n) == CHOOSE e \in S : Cardinality({f \in S : f <= e}) = n

\* The entries are ordered by key.
Ordered(m) == \A a, b \in DOMAIN m : a < b => m[a].key <= m[b].key

\* One value is set as a string, several as a list.
Option(vs) == [type |-> IF Len(vs) = 1 THEN "string" ELSE "list", values |-> vs]

Set(options, k, option) == [j \in DOMAIN options \cup {k} |-> IF j = k THEN option ELSE options[j]]

\* Nothing was converted yet.
NotCalled ==
  /\ map = <<>>
  /\ next = 1
  /\ values = <<>>
  /\ opt = <<>>
  /\ done = TRUE

Call(m) ==
  /\ done
  /\ map' = m
  /\ next' = 1
  /\ values' = <<>>
  /\ opt' = <<>>
  /\ done' = FALSE

AtEntry == ~ done /\ next <= Len(map)

\* The variable key of the code: the key of the entry before.
Key == map[next - 1].key
HasKey == next > 1

\* Mutant: the iterator is advanced in the body too.
Mut_SameKey ==
  /\ AtEntry
  /\ HasKey => Key = map[next].key
  /\ values' = Append(values, map[next].value)
  /\ next' = next + 2
  /\ UNCHANGED <<map, opt, done>>

SameKey ==
  /\ AtEntry
  /\ HasKey => Key = map[next].key
  /\ values' = Append(values, map[next].value)
  /\ next' = next + 1
  /\ UNCHANGED <<map, opt, done>>

\* Mutant: the values of the key before are kept.
Mut_NewKey ==
  /\ AtEntry
  /\ HasKey
  /\ Key # map[next].key
  /\ opt' = Set(opt, Key, Option(values))
  /\ values' = Append(values, map[next].value)
  /\ next' = next + 1
  /\ UNCHANGED <<map, done>>

NewKey ==
  /\ AtEntry
  /\ HasKey
  /\ Key # map[next].key
  /\ opt' = Set(opt, Key, Option(values))
  /\ values' = <<map[next].value>>
  /\ next' = next + 1
  /\ UNCHANGED <<map, done>>

LastKey ==
  /\ ~ done
  /\ next > Len(map)
  /\ opt' = IF values = <<>> THEN opt ELSE Set(opt, Key, Option(values))
  /\ done' = TRUE
  /\ UNCHANGED <<map, next, values>>

ConvertNext == SameKey \/ NewKey \/ LastKey

-----------------------------------------------------------------------------
KeysOf(m) == {m[e].key : e \in DOMAIN m}
EntriesOf(m, k) == {e \in DOMAIN m : m[e].key = k}

ValuesOf(m, k) ==
  LET of == EntriesOf(m, k)
  IN  [n \in 1..Cardinality(of) |-> m[Nth(of, n)].value]

\* The reference: each key with all of its values, in their order.
FromMultimap(m) == [k \in KeysOf(m) |-> Option(ValuesOf(m, k))]

\* The type invariant of a conversion.
ConvertTypeOK ==
  /\ map \in Seq([key : Keys, value : Texts])
  /\ Ordered(map)
  /\ next \in 1..(Len(map) + 1)
  /\ values \in Seq(Texts)
  /\ DOMAIN opt \subseteq Keys
  /\ done \in BOOLEAN

\* Every key of the multimap gets all the values given for it, in the order they
\* were given, and no others: the last key and the first value of a new key, which
\* the loop treats apart, included.
OptionsAreComplete == done => opt = FromMultimap(map)

\* An option that was made stays as it is until the next call: the loop never
\* comes back to a key.
OptionsAreFinal ==
  [][~ done => \A k \in DOMAIN opt : k \in DOMAIN opt' /\ opt'[k] = opt[k]]_convertVars

=============================================================================
