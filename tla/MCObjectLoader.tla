--------------------------- MODULE MCObjectLoader ---------------------------
(* Three objects. The first depends on the second, which depends on the    *)
(* first or the third; the third depends on the first. So there are        *)
(* cycles of two and of three objects, and chains that end in every kind.  *)
EXTENDS ObjectLoader

CONSTANTS o1, o2, o3

Linked == Streams \cup Members

File(k1, k2, k3, next) ==
  [kind |-> [o \in Objects |-> IF o = o1 THEN k1 ELSE IF o = o2 THEN k2 ELSE k3],
   link |-> [o \in Objects |-> IF o = o1 THEN o2 ELSE IF o = o2 THEN next ELSE o1]]

MCDocuments ==
  {File(k1, k2, k3, o3) : k1 \in {"stream", "compressed"}, k2 \in Linked, k3 \in Kinds}
    \cup {File(k1, k2, "number", o1) : k1 \in {"stream", "compressed"}, k2 \in Linked}
=============================================================================
