----------------------------- MODULE MCAstGraph -----------------------------
(* Two contents, whose hashes are neighbours: the first id that is free    *)
(* for one may be the hash of the other.                                   *)
EXTENDS GraphTransforms

CONSTANTS a, b

MCHash == [c \in Contents |-> IF c = a THEN 0 ELSE 1]
=============================================================================
