------------------------ MODULE MCReferenceResolver ------------------------
(* Three objects, the first of which is both in the AST already and part   *)
(* of a cycle; the second refers to the others, twice to one of them; the  *)
(* third is of any kind. In some documents they have parts for the later   *)
(* passes. Budgets are ample, short of one thing, or short of both nodes   *)
(* and edges.                                                              *)
EXTENDS ReferenceResolver

CONSTANTS o1, o2, o3

Spec1(pass, form, o) == [pass |-> pass, form |-> form, of |-> o]

Doc(k2, k3, parts1, parts2, ops) ==
  [kind   |-> [o \in Objects |-> IF o = o1 THEN "value" ELSE IF o = o2 THEN k2 ELSE k3],
   refs   |-> [o \in Objects |->
                 IF o = o1 THEN <<o2, o3>>
                 ELSE IF o = o2 THEN IF k2 \in Leaves THEN <<>> ELSE <<o3, o1, o3>>
                 ELSE IF k3 \in Leaves THEN <<>> ELSE <<o3>>],
   length |-> [o \in Objects |-> o3],
   roots  |-> <<o1>>,
   parts  |-> [o \in Objects |-> IF o = o1 THEN parts1 ELSE IF o = o2 THEN parts2 ELSE <<>>],
   operators |-> [o \in Objects |-> ops]]

(* A page with two colour spaces, one with the second object as its        *)
(* profile and one that is the third; the second is a content stream       *)
(* that names the third for its globals.                                   *)
Page(k, ops) ==
  Doc("stream", k,
      <<Spec1("colours", "profiled", o2), Spec1("colours", "named", o3)>>,
      <<Spec1("globals", "globals", o3)>>, ops)

(* The colour space is the content stream itself.                          *)
Hidden == Doc("stream", "number",
              <<Spec1("colours", "colour", o1), Spec1("colours", "named", o2)>>,
              <<>>, 1)

(* A page with colour spaces that have others, or a tint function, below   *)
(* them, and then one more or none.                                        *)
Tinted(last) ==
  Doc("number", "number",
      <<Spec1("colours", "layered", o1), Spec1("colours", "tinted", o1)>> \o last, <<>>, 1)

(* A font with an encoding and a character map, and an action's script.    *)
Font(k2, k3) ==
  Doc(k2, k3,
      <<Spec1("fonts", "indirect", o3), Spec1("fonts", "cmap", o2), Spec1("fonts", "direct", o1)>>,
      IF k2 = "value" THEN <<Spec1("scripts", "indirect", o3)>> ELSE <<>>, 1)

MCDocuments ==
  {Doc(k2, k3, <<>>, <<>>, 1) :
     k2 \in {"value", "stream", "compressed", "repairable"}, k3 \in Kinds}
    \cup {Page("number", ops) : ops \in 0..2} \cup {Page("stream", 1), Hidden}
    \cup {Tinted(last) : last \in {<<>>, <<Spec1("colours", "colour", o1)>>,
                                   <<Spec1("colours", "named", o3)>>}}
    \cup {Font(k2, k3) : k2 \in {"value", "stream"}, k3 \in {"number", "compressed", "missing"}}

Ample == [objects |-> 12, nodes |-> 20, edges |-> 40, decoded |-> 12]

MCBudgets ==
  {Ample} \cup {[Ample EXCEPT !["objects"] = n] : n \in 1..6}
          \cup {[Ample EXCEPT !["nodes"] = n] : n \in 1..6}
          \cup {[Ample EXCEPT !["edges"] = n] : n \in {3, 4, 6, 7, 8, 17, 18, 19, 20, 21, 22}}
          \cup {[Ample EXCEPT !["decoded"] = n] : n \in 0..2}
          \cup {[Ample EXCEPT !["nodes"] = 6, !["edges"] = 6]}
=============================================================================
