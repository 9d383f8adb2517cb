------------------------- MODULE SequenceSelection -------------------------
(***************************************************************************)
(* Selecting elements of a sequence, as iter().filter() and retain() do.   *)
(***************************************************************************)
EXTENDS Naturals, FiniteSets

(* The elements of s at the positions P, in their order: the k-th one is   *)
(* at the position of P that k positions of P are not beyond.              *)
ElementsAt(s, P) ==
  LET Nth(k) == CHOOSE i \in P : Cardinality({j \in P : j <= i}) = k
  IN [k \in 1..Cardinality(P) |-> s[Nth(k)]]
=============================================================================
