----------------------------- MODULE Dictionary -----------------------------
(***************************************************************************)
(* What the constructor of Trie (src/include/utils/fuzzy_matcher.h)        *)
(* promises: it takes the candidates one by one as long as none is empty   *)
(* or a prefix of another, and refuses the first that breaks this.         *)
(***************************************************************************)
EXTENDS Naturals, Sequences

CONSTANT Lists

VARIABLES
  words,   \* the candidates
  taken,   \* how many of them were taken
  refused  \* the next one was refused

dvars == <<words, taken, refused>>

Prefix(p, w) == Len(p) <= Len(w) /\ \A k \in DOMAIN p : p[k] = w[k]

Clash(v, w) == Prefix(v, w) \/ Prefix(w, v)

Fits(w) == w # <<>> /\ \A k \in 1..taken : ~ Clash(words[k], w)

Init == words \in Lists /\ taken = 0 /\ refused = FALSE

Take ==
  /\ ~ refused
  /\ taken < Len(words)
  /\ Fits(words[taken + 1])
  /\ taken' = taken + 1
  /\ UNCHANGED <<words, refused>>

Refuse ==
  /\ ~ refused
  /\ taken < Len(words)
  /\ ~ Fits(words[taken + 1])
  /\ refused' = TRUE
  /\ UNCHANGED <<words, taken>>

Next == Take \/ Refuse

Steps == Init /\ [][Next]_dvars

\* Every candidate is taken, or one is refused.
Spec == Steps /\ WF_dvars(Next)

=============================================================================
