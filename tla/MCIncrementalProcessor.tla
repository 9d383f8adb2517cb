----------------------- MODULE MCIncrementalProcessor -----------------------
(* Two objects that refer to themselves, to each other (once or twice) and *)
(* are redefined; chunks of one or two objects with and without a header.  *)
EXTENDS IncrementalProcessor

CONSTANTS o1, o2

NoRefs == [o \in Objects |-> 0]

Object(o, r1, r2) ==
  [kind |-> "object", obj |-> o, refs |-> [NoRefs EXCEPT ![o1] = r1, ![o2] = r2]]
Value(o)   == [kind |-> "value", obj |-> o1, refs |-> [NoRefs EXCEPT ![o] = 1]]
RefText(o) == [kind |-> "reference", obj |-> o, refs |-> [NoRefs EXCEPT ![o] = 1]]
Garbage    == [kind |-> "garbage", obj |-> o1, refs |-> NoRefs]

Make(type, p, d, parent) ==
  [type |-> type, priority |-> p, data |-> d, parent |-> parent]

Parse(d) == Make("ParseObject", 2, d, NoNode)

MCTasks ==
  {Make("ResolveReference", 3, RefText(o2), NoNode),
   Make("ResolveReference", 1, Garbage, NoNode),
   Make("ParseObject", 1, Value(o1), NoNode),
   Make("ParseObject", 4, Object(o1, 1, 1), NoNode),
   Make("BuildNode", 2, Value(o2), 1),
   Make("BuildNode", 3, Garbage, NoNode),
   Make("IndexContent", 1, Garbage, NoNode)}

Header == Make("ParseObject", 4, Garbage, NoNode)

MCChunks ==
  {<<>>,
   <<Parse(Object(o1, 0, 2))>>,
   <<Parse(Object(o2, 1, 1))>>,
   <<Header, Parse(Object(o1, 0, 1)), Parse(Object(o2, 0, 0))>>}
=============================================================================
