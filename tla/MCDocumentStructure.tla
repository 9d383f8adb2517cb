------------------------ MODULE MCDocumentStructure ------------------------
(* A catalog and three more objects. In the first set of files the three   *)
(* are pages, with every way of listing each other as Kids, up to two for  *)
(* two of them and one for the third, which may be of several kinds. In    *)
(* the second set one is a page and two of them are, at once, fields,      *)
(* annotations and actions in every way of referring to each other.        *)
EXTENDS DocumentStructure

CONSTANTS c, p1, p2, p3

UpTo(n, S) == UNION {[1..m -> S] : m \in 0..n}
At(o, here, else) == [x \in Objects |-> IF x = o THEN here ELSE else]

Empty == [x \in Objects |-> <<>>]

Base ==
  [kind |-> [x \in Objects |-> "plain"], link |-> [x \in Objects |-> p1],
   root |-> c, open |-> <<>>, names |-> <<>>, xmp |-> <<>>, form |-> <<>>,
   dss |-> <<>>, fields |-> <<>>, media |-> Empty,
   pages |-> <<p1>>, info |-> <<>>, leaves |-> {}, kids |-> Empty,
   resources |-> Empty, actions |-> Empty, annots |-> Empty, scripts |-> Empty]

Pages == {p1, p2, p3}

PageTrees ==
  {[Base EXCEPT !.kind[p3] = k, !.kids[p1] = k1, !.kids[p2] = k2, !.kids[p3] = k3] :
     k1 \in UpTo(2, Pages), k2 \in UpTo(2, Pages), k3 \in UpTo(1, Pages),
     k \in {"plain", "garbled", "outside"}}

Others == {p2, p3}

Forms ==
  {[Base EXCEPT !.kind[p3] = k, !.link[p3] = p2, !.leaves = {p1},
                !.open = <<p3>>, !.names = f, !.dss = <<p2>>, !.info = <<p3>>,
                !.fields = f, !.kids[p2] = k2, !.resources[p1] = <<p3>>,
                !.annots[p1] = <<p3, p2>>, !.actions[p1] = <<p2>>,
                !.actions[p2] = a2, !.scripts[p2] = <<p3>>,
                !.media[p2] = <<p3>>, !.xmp = <<p3>>] :
     k \in {"plain", "missing", "stream", "compressed"},
     f \in UpTo(1, Others), k2 \in UpTo(2, Others), a2 \in UpTo(1, Others)}

(* The form, the names and the actions of the catalog are one object.      *)
References ==
  {[Base EXCEPT !.kind[p2] = k, !.link[p2] = p3, !.form = <<p2>>, !.names = <<p2>>,
                !.xmp = <<p3>>, !.actions[c] = <<p2>>, !.pages = <<>>,
                !.kids[p2] = k2, !.kids[p3] = k3] :
     k \in {"plain", "missing", "stream"}, k2 \in UpTo(2, Others), k3 \in UpTo(1, Others)}

MCDocuments == PageTrees \cup Forms \cup References
=============================================================================
