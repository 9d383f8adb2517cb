----------------------------- MODULE MCXRefChain -----------------------------
(* Files of three offsets, each with a table, a stream or nothing good;    *)
(* chains, cycles and hybrid sections among them; two objects, one or both *)
(* of which a scan finds. Parsers strict, tolerant, and with little room.  *)
EXTENDS XRefChain, TLC

CONSTANTS o1, o2, a, b

Section(k, e, prev, stm) ==
  [kind |-> k, entries |-> e, trailer |-> [prev |-> prev, stm |-> stm]]

Other  == Section("other", NoEntries, 0, 0)
Broken == Section("broken", NoEntries, 0, 0)
Old    == (o1 :> a) @@ (o2 :> a)
New    == (o1 :> b) @@ (o2 :> a)
Gone   == (o2 :> Free)

Sections1 == {Other, Broken, Section("table", Old, 0, 0), Section("table", Old, 3, 0),
           Section("stream", Gone, 2, 0)}
Sections2 == {Other, Broken, Section("stream", New, 1, 0), Section("table", NoEntries, 1, 0),
           Section("table", Gone, 1, 1), Section("undecodable", NoEntries, 1, 0)}
Sections3 == {Other, Broken, Section("table", New, 2, 0), Section("table", Gone, 1, 2),
           Section("table", NoEntries, 2, -1), Section("table", New, 3, 0),
           Section("invalid", NoEntries, 0, 0)}

Bodies == {NoEntries, o1 :> b, (o1 :> a) @@ (o2 :> b)}

MCFiles == {[at |-> <<s, t, u>>, start |-> n, body |-> c] :
              s \in Sections1, t \in Sections2, u \in Sections3, n \in 0..3, c \in Bodies}

Mode(t, e, n) == [tolerant |-> t, maxErrors |-> e, nodeLimit |-> n]

MCModes == {Mode(FALSE, 0, 9), Mode(FALSE, 9, 9), Mode(TRUE, 9, 9), Mode(TRUE, 9, 1),
            Mode(TRUE, 1, 9)}
=============================================================================
