------------------------------- MODULE Progress -------------------------------
(***************************************************************************)
(* Positions in a program, as tuples of numbers of which the first counts  *)
(* most: a loop counter stands before what its body counts.                *)
(***************************************************************************)
EXTENDS Naturals

Later(p, q) ==
  \E n \in DOMAIN p : p[n] < q[n] /\ \A m \in 1..(n - 1) : p[m] = q[m]

Advances(p, q) == p = q \/ Later(p, q)

=============================================================================
