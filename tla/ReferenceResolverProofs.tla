---------------------- MODULE ReferenceResolverProofs ----------------------
(***************************************************************************)
(* Proofs about ReferenceResolver, for any document, whatever its objects  *)
(* refer to, in cycles too, any limits, and a budget that may be stopped   *)
(* at any time.                                                            *)
(***************************************************************************)
EXTENDS ReferenceResolver, SequenceLemmas
-----------------------------------------------------------------------------
(* The inductive invariant                                                 *)

PassNames == {"globals", "colours", "fonts", "contents", "scripts"}
Forms  == {"globals", "colour", "profiled", "layered", "tinted", "named", "direct",
           "indirect", "cmap", "content", "borrowed", "profile", "base", "tint"}
Stages == {"make", "load", "decode", "share", "globals", "tint", "attach"}
PartRecords    == [node : Nat, pass : PassNames, form : Forms, of : Objects,
                   stage : Stages, null : BOOLEAN, under : Nat, made : Nat]
DerivedRecords == [form : Forms, null : BOOLEAN, of : Objects, under : Nat,
                   attached : BOOLEAN]

Loading == pc \in {"object", "read", "node"}
Linking == pc \in {"edge", "link"}
Looping == pc = "next" \/ Loading \/ Linking

LaterTypes ==
  /\ parts \in Seq(PartRecords)
  /\ derived \in Seq(DerivedRecords)
  /\ skipped \in Seq(PartRecords)
  /\ Looping => parts = <<>> /\ derived = <<>> /\ shared = <<>> /\ skipped = <<>>
  /\ pc = "done" => parts = <<>>

(* A reference that waits or is being resolved is one of the value of its  *)
(* node.                                                                   *)
IsReferenceOf(n, o) == n \in DOMAIN nodes /\
  \E i \in DOMAIN document.refs[nodes[n]] : document.refs[nodes[n]][i] = o

WorkIsFromValues ==
  /\ \A i \in DOMAIN pending : IsReferenceOf(pending[i].from, pending[i].to)
  /\ Loading \/ Linking => IsReferenceOf(reference.from, reference.to)
  /\ \A i \in DOMAIN dropped : dropped[i].from \in DOMAIN nodes

(* An object is loaded when it has no node, and linked when it has one; a  *)
(* node is made of an object that can be had.                              *)
NodesAreNeeded ==
  /\ Len(document.roots) <= Len(nodes)
  /\ Loading => reference.to \notin DOMAIN objectToNode
  /\ Linking => reference.to \in DOMAIN objectToNode
  /\ pc = "node" => /\ kind(reference.to) # "badContainer"
                    /\ tolerant \/ ~Repairable(reference.to)

(* What has refused an object refuses it for good: nobody who comes for it *)
(* again gets past the same place.                                         *)
Doomed(o) ==
  \/ stopped
  \/ kind(o) = "badContainer"
  \/ ~tolerant /\ Repairable(o)
  \/ charged["objects"] = limit["objects"] /\ (pc \in {"read", "node"} => reference.to # o)
  \/ kind(o) = "compressed" /\ charged["decoded"] = limit["decoded"]
       /\ (pc = "node" => reference.to # o)
  \/ charged["nodes"] = limit["nodes"]

DroppedAreDoomed == \A i \in DOMAIN dropped : Doomed(dropped[i].to)

DroppedAreExcused ==
  \A i \in DOMAIN dropped :
    /\ ReferenceExcused(i)
    /\ stopped /\ (Loading \/ Linking) =>
         \/ kind(dropped[i].to) = "badContainer"
         \/ ~tolerant /\ Repairable(dropped[i].to)
         \/ \E c \in Charges : charged[c] = limit[c]

(* Nodes and edges are charged when they are made.                         *)
MadeCount == Len(nodes) - Len(document.roots)
EdgeCosts == 2 * Len(edges) + Attached + Len(shared)

GraphIsCharged ==
  /\ charged["nodes"] = MadeCount + Len(derived)
  /\ \/ charged["edges"] = EdgeCosts + (IF pc = "link" THEN 1 ELSE 0)
     \/ pc = "failed" /\ charged["edges"] = EdgeCosts + 1
  /\ charged["objects"] >= MadeCount + (IF pc \in {"read", "node"} THEN 1 ELSE 0)

(* The parts that have a node wait for its edge, or for the tint function  *)
(* that comes before it. They are of different nodes, unattached ones, and *)
(* before any colour space that is a reference and so could hide them.     *)
(* A part below a colour space comes before that colour space, whose node  *)
(* has been made.                                                          *)
Waits(p) == p.stage \in {"attach", "tint"}

(* What is so of a part whatever the others are                            *)
PartFits(p) ==
  /\ p.stage = "tint" => p.form = "tinted"
  /\ p.stage = "decode" => p.form \in {"content", "cmap", "profile"}
  /\ p.stage = "share" <=> p.form \in {"named", "borrowed"}
  /\ Waits(p) <=> p.made # 0

(* and of the node that it has made                                        *)
NodeFits(p, d) ==
  /\ ~d.attached /\ d.form = p.form /\ d.under = p.under
  /\ p.under < p.made

PartsInOrder ==
  /\ \A k \in DOMAIN parts : PartFits(parts[k])
  /\ \A k \in DOMAIN parts : Waits(parts[k]) =>
       /\ NodeFits(parts[k], derived[parts[k].made])
       /\ \A j \in 1..k : parts[j].form # "named"
  /\ \A k \in DOMAIN parts : parts[k].under # 0 =>
       \E l \in DOMAIN parts : l > k /\ parts[l].made = parts[k].under
  /\ \A k, l \in DOMAIN parts : Waits(parts[k]) /\ parts[l].made = parts[k].made => k = l

(* An unattached node has its part; or it is that of a colour space for    *)
(* whose tint function there was no node, or it is below an unattached     *)
(* node, which remains so, for there are no edges left.                    *)
Abandoned(i) ==
  \/ derived[i].form = "tinted" /\ Short("nodes")
  \/ /\ derived[i].under \in 1..(i - 1)
     /\ ~derived[derived[i].under].attached
     /\ Short("edges")

DerivedAreAttached ==
  \A i \in DOMAIN derived :
    \/ derived[i].attached
    \/ \E k \in DOMAIN parts : parts[k].made = i
    \/ Abandoned(i)

NullIsExcused(null, o) == null => tolerant /\ (Short("objects") \/ ~HasValue(o))

LaterAreExplained ==
  /\ \A i \in DOMAIN skipped : PartExcused(skipped[i])
  /\ \A i \in DOMAIN derived : NullIsExcused(derived[i].null, derived[i].of)
  /\ \A i \in DOMAIN parts : NullIsExcused(parts[i].null, parts[i].of)

FailureIsExplained ==
  pc = "failed" =>
    \/ Short("nodes") \/ Short("edges")
    \/ StreamsWithLength("negative") # {}
    \/ ~tolerant /\ parts # <<>> /\ (Short("objects") \/ ~HasValue(This.of))

IInv ==
  /\ TypeOK
  /\ LaterTypes
  /\ WorkIsFromValues
  /\ NodesAreNeeded
  /\ OneNodePerObject
  /\ FailuresArePermanent
  /\ DroppedAreDoomed
  /\ DroppedAreExcused
  /\ GraphIsCharged
  /\ PartsInOrder
  /\ DerivedAreAttached
  /\ LaterAreExplained
  /\ FailureIsExplained
-----------------------------------------------------------------------------
(* Types and charges                                                       *)

(* The two halves of the type invariant: what the loop works on, and what  *)
(* the later passes do                                                     *)
LoopTypes ==
  /\ document \in Documents
  /\ tolerant \in BOOLEAN
  /\ limit \in Budgets
  /\ charged \in [Charges -> Nat]
  /\ \A c \in Charges : charged[c] <= limit[c]
  /\ stopped \in BOOLEAN
  /\ pc \in Places
  /\ pending \in Seq(Refers)
  /\ reference \in Refers
  /\ nodes \in Seq(Objects)
  /\ DOMAIN objectToNode \subseteq Objects
  /\ objectToNode \in [DOMAIN objectToNode -> DOMAIN nodes]
  /\ edges \in Seq((DOMAIN nodes) \X (DOMAIN nodes))
  /\ lengths \subseteq DOMAIN nodes
  /\ dropped \in Seq(Refers)

LaterRefs ==
  /\ \A i \in DOMAIN parts : parts[i].node \in DOMAIN nodes /\ parts[i].made \in 0..Len(derived)
  /\ shared \in Seq((DOMAIN nodes) \X (DOMAIN nodes))

LEMMA TypeHalves == TypeOK <=> LoopTypes /\ LaterRefs
BY DEF TypeOK, LoopTypes, LaterRefs

LEMMA InputTypes ==
  ASSUME LoopTypes
  PROVE  /\ document.roots \in Seq(Objects)
         /\ \A o \in Objects : /\ document.kind[o] \in Kinds
                               /\ document.refs[o] \in Seq(Objects)
                               /\ document.length[o] \in Objects
                               /\ document.parts[o] \in Seq(PartSpec)
                               /\ document.operators[o] \in Nat
         /\ \A c \in Charges : charged[c] \in Nat /\ limit[c] \in Nat /\ charged[c] <= limit[c]
         /\ "objects" \in Charges /\ "nodes" \in Charges /\ "edges" \in Charges
         /\ "decoded" \in Charges
<1>1. document \in Document
  BY DocumentAssumption DEF LoopTypes
<1>2. limit \in [Charges -> Nat]
  BY BudgetAssumption DEF LoopTypes
<1> QED BY <1>1, <1>2 DEF Document, LoopTypes, Charges

(* The budget is only spent, within its limits.                            *)
Spends ==
  /\ charged' \in [Charges -> Nat]
  /\ \A c \in Charges : charged[c] <= charged'[c] /\ charged'[c] <= limit[c]

LEMMA ChargeForms ==
  ASSUME LoopTypes, NEW c \in Charges, Charge(c)
  PROVE  /\ Spends /\ ~stopped /\ charged[c] < limit[c]
         /\ charged'[c] = charged[c] + 1
         /\ \A d \in Charges : d # c => charged'[d] = charged[d]
<1>1. charged \in [Charges -> Nat] /\ \A d \in Charges : charged[d] \in Nat /\ limit[d] \in Nat
  BY InputTypes DEF LoopTypes
<1>2. ~stopped /\ charged[c] < limit[c] /\ charged' = [charged EXCEPT ![c] = @ + 1]
  BY DEF Charge, Affords
<1>3. charged'[c] = charged[c] + 1 /\ \A d \in Charges : d # c => charged'[d] = charged[d]
  BY <1>1, <1>2
<1>4. charged' \in [Charges -> Nat]
  BY <1>1, <1>2
<1>5. \A d \in Charges : charged[d] <= charged'[d] /\ charged'[d] <= limit[d]
  <2>1. \A d \in Charges : charged[d] <= limit[d]
    BY DEF LoopTypes
  <2> QED BY <1>1, <1>2, <1>3, <2>1
<1> QED BY <1>2, <1>3, <1>4, <1>5 DEF Spends

LEMMA NothingCharged ==
  ASSUME LoopTypes, UNCHANGED charged
  PROVE  Spends
<1>1. \A d \in Charges : charged[d] \in Nat /\ limit[d] \in Nat /\ charged[d] <= limit[d]
  BY InputTypes
<1> QED BY <1>1 DEF Spends, LoopTypes

(* A charge that is refused is one that is short from then on.             *)
LEMMA RefusedIsShort ==
  ASSUME LoopTypes, NEW c \in Charges
  PROVE  /\ ~Affords(c) <=> Short(c)
         /\ Affords(c) <=> ~stopped /\ charged[c] # limit[c]
<1>1. charged[c] \in Nat /\ limit[c] \in Nat /\ charged[c] <= limit[c]
  BY InputTypes
<1> QED BY <1>1 DEF Affords, Short

LEMMA ShortStaysShort ==
  ASSUME LoopTypes, Spends, UNCHANGED limit, stopped => stopped', NEW c \in Charges
  PROVE  /\ charged[c] = limit[c] => charged'[c] = limit'[c]
         /\ Short(c) => Short(c)'
<1>1. charged[c] \in Nat /\ limit[c] \in Nat /\ charged'[c] \in Nat
  BY InputTypes DEF Spends
<1>2. charged[c] = limit[c] => charged'[c] = limit'[c]
  BY <1>1 DEF Spends
<1> QED BY <1>2 DEF Short
-----------------------------------------------------------------------------
(* What the steps leave alone                                              *)

LoopInv ==
  /\ LoopTypes
  /\ WorkIsFromValues
  /\ NodesAreNeeded
  /\ OneNodePerObject
  /\ FailuresArePermanent
  /\ DroppedAreDoomed
  /\ DroppedAreExcused

LaterInv ==
  /\ LaterTypes
  /\ LaterRefs
  /\ PartsInOrder
  /\ DerivedAreAttached
  /\ LaterAreExplained

LEMMA IInvHalves == IInv <=> LoopInv /\ LaterInv /\ GraphIsCharged /\ FailureIsExplained
BY TypeHalves DEF IInv, LoopInv, LaterInv

LEMMA NextHalves == IInv' <=> LoopInv' /\ LaterInv' /\ GraphIsCharged' /\ FailureIsExplained'
BY DEF IInv, LoopInv, LaterInv, TypeOK, LoopTypes, LaterRefs

(* A step that takes no reference, makes no node and drops nothing keeps   *)
(* the loop's part of the invariant, if it gets past the charges that it   *)
(* should.                                                                 *)
LEMMA LoopFrame ==
  ASSUME LoopInv, Spends, UNCHANGED <<input, pending, reference, nodes, objectToNode, dropped>>,
         lengths' \subseteq DOMAIN nodes, edges' \in Seq((DOMAIN nodes) \X (DOMAIN nodes)),
         stopped' \in BOOLEAN, stopped => stopped',
         pc' \in Places, Loading' => Loading, Linking' => Linking,
         pc' = "node" => /\ kind(reference.to) # "badContainer"
                         /\ tolerant \/ ~Repairable(reference.to),
         pc' \in {"read", "node"} =>
           pc \in {"read", "node"} \/ charged["objects"] # limit["objects"],
         pc' = "node" /\ kind(reference.to) = "compressed" =>
           pc = "node" \/ charged["decoded"] # limit["decoded"]
  PROVE  LoopInv'
<1>1. /\ LoopTypes /\ WorkIsFromValues /\ NodesAreNeeded /\ OneNodePerObject
      /\ FailuresArePermanent /\ DroppedAreDoomed /\ DroppedAreExcused
      /\ UNCHANGED <<document, tolerant, limit, pending, reference, nodes, objectToNode,
                     dropped>>
  BY DEF LoopInv, input
<1>2. LoopTypes'
  BY <1>1 DEF LoopTypes, Spends
<1>3. WorkIsFromValues'
  BY <1>1 DEF WorkIsFromValues, IsReferenceOf
<1>4. \A o : kind(o)' = kind(o) /\ (Repairable(o)' <=> Repairable(o))
  BY <1>1 DEF kind, Repairable
<1>5. NodesAreNeeded'
  BY <1>1, <1>4 DEF NodesAreNeeded, kind, Repairable
<1>6. OneNodePerObject'
  BY <1>1 DEF OneNodePerObject, Made
<1>7. FailuresArePermanent'
  BY <1>1 DEF FailuresArePermanent
<1>8. \A c \in Charges : charged[c] = limit[c] => charged'[c] = limit'[c]
  BY <1>1, ShortStaysShort
<1>9. DroppedAreDoomed'
  <2>1. ASSUME NEW i \in DOMAIN dropped PROVE Doomed(dropped[i].to)'
    <3> DEFINE o == dropped[i].to
    <3>1. Doomed(o)
      BY <1>1 DEF DroppedAreDoomed
    <3>2. "objects" \in Charges /\ "nodes" \in Charges /\ "decoded" \in Charges
      BY DEF Charges
    <3>3. CASE stopped \/ kind(o) = "badContainer" \/ (~tolerant /\ Repairable(o))
                 \/ charged["nodes"] = limit["nodes"]
      BY <1>1, <1>4, <1>8, <3>2, <3>3 DEF Doomed
    <3>4. CASE charged["objects"] = limit["objects"] /\ (pc \in {"read", "node"} => reference.to # o)
      BY <1>1, <1>8, <3>2, <3>4 DEF Doomed
    <3>5. CASE kind(o) = "compressed" /\ charged["decoded"] = limit["decoded"]
                 /\ (pc = "node" => reference.to # o)
      <4>1. pc' = "node" => reference'.to # o
        BY <1>1, <3>5
      <4> QED BY <1>1, <1>4, <1>8, <3>2, <3>5, <4>1 DEF Doomed
    <3> QED BY <3>1, <3>3, <3>4, <3>5 DEF Doomed
  <2> QED BY <1>1, <2>1 DEF DroppedAreDoomed
<1>10. DroppedAreExcused'
  <2>1. ASSUME NEW i \in DOMAIN dropped
        PROVE  /\ ReferenceExcused(i)'
               /\ stopped' /\ (Loading' \/ Linking') =>
                    \/ kind(dropped[i].to)' = "badContainer"
                    \/ ~tolerant' /\ Repairable(dropped[i].to)'
                    \/ \E c \in Charges : charged'[c] = limit'[c]
    <3>1. /\ ReferenceExcused(i)
          /\ stopped /\ (Loading \/ Linking) =>
               \/ kind(dropped[i].to) = "badContainer"
               \/ ~tolerant /\ Repairable(dropped[i].to)
               \/ \E c \in Charges : charged[c] = limit[c]
      BY <1>1 DEF DroppedAreExcused
    <3>2. CASE \/ kind(dropped[i].to) = "badContainer"
               \/ ~tolerant /\ Repairable(dropped[i].to)
               \/ \E c \in Charges : charged[c] = limit[c]
      BY <1>1, <1>4, <1>8, <3>2 DEF ReferenceExcused
    <3>3. CASE stopped /\ i = Len(dropped) /\ ~Loading /\ ~Linking
      BY <1>1, <3>3 DEF ReferenceExcused
    <3> QED BY <3>1, <3>2, <3>3 DEF ReferenceExcused
  <2> QED BY <1>1, <2>1 DEF DroppedAreExcused
<1> QED BY <1>2, <1>3, <1>5, <1>6, <1>7, <1>9, <1>10 DEF LoopInv

(* While the loop runs the later passes have nothing.                      *)
LEMMA NothingLater ==
  ASSUME nodes' \in Seq(Objects),
         parts' = <<>>, derived' = <<>>, shared' = <<>>, skipped' = <<>>
  PROVE  LaterInv'
<1>1. DOMAIN parts' = {} /\ DOMAIN derived' = {} /\ DOMAIN skipped' = {}
  OBVIOUS
<1>2. parts' \in Seq(PartRecords) /\ derived' \in Seq(DerivedRecords)
      /\ skipped' \in Seq(PartRecords) /\ shared' \in Seq((DOMAIN nodes') \X (DOMAIN nodes'))
  OBVIOUS
<1>3. LaterTypes' /\ LaterRefs'
  BY <1>1, <1>2 DEF LaterTypes, LaterRefs
<1>4. PartsInOrder' /\ DerivedAreAttached' /\ LaterAreExplained'
  BY <1>1 DEF PartsInOrder, DerivedAreAttached, LaterAreExplained
<1> QED BY <1>3, <1>4 DEF LaterInv

(* The reasons for a loss remain.                                          *)
LEMMA ReasonsRemain ==
  ASSUME LoopTypes, Spends, UNCHANGED <<input, nodes, objectToNode>>, stopped => stopped'
  PROVE  /\ \A c \in Charges : Short(c) => Short(c)'
         /\ \A o : kind(o)' = kind(o) /\ HasValue(o)' = HasValue(o)
                   /\ IsStreamNode(o)' = IsStreamNode(o)
         /\ \A null, o : NullIsExcused(null, o) => NullIsExcused(null, o)'
<1>1. UNCHANGED <<document, tolerant, limit, nodes, objectToNode>>
  BY DEF input
<1>2. \A c \in Charges : Short(c) => Short(c)'
  BY <1>1, ShortStaysShort
<1>3. \A o : kind(o)' = kind(o) /\ HasValue(o)' = HasValue(o)
             /\ IsStreamNode(o)' = IsStreamNode(o)
  BY <1>1 DEF kind, HasValue, IsStreamNode
<1>4. "objects" \in Charges
  BY DEF Charges
<1>5. \A null, o : NullIsExcused(null, o) => NullIsExcused(null, o)'
  BY <1>1, <1>2, <1>3, <1>4 DEF NullIsExcused
<1> QED BY <1>2, <1>3, <1>5

LEMMA PartStaysExcused ==
  ASSUME LoopTypes, Spends, UNCHANGED <<input, nodes, objectToNode>>, stopped => stopped',
         \A i \in DOMAIN shared : i \in DOMAIN shared' /\ shared'[i] = shared[i],
         NEW p, PartExcused(p)
  PROVE  PartExcused(p)'
<1>1. UNCHANGED <<document, tolerant, limit, nodes, objectToNode>>
  BY DEF input
<1>2. "decoded" \in Charges /\ "nodes" \in Charges /\ "edges" \in Charges
  BY DEF Charges
<1>3. CASE \E c \in {"decoded", "nodes", "edges"} : Short(c)
  BY <1>2, <1>3, ReasonsRemain DEF PartExcused
<1>4. CASE \/ p.form \in {"content", "cmap", "profile"} /\ document.operators[p.of] = 0
           \/ p.form \in {"named", "borrowed"} /\ p.of \notin DOMAIN objectToNode
           \/ p.form = "profile" /\ ~IsStreamNode(p.of)
  BY <1>1, <1>4, ReasonsRemain DEF PartExcused
<1>5. CASE \E i \in DOMAIN shared : shared[i][2] = p.node
  BY <1>5 DEF PartExcused
<1> QED BY <1>3, <1>4, <1>5 DEF PartExcused

(* A step that leaves the parts alone keeps the invariant about them.      *)
LEMMA LaterFrame ==
  ASSUME LoopTypes, LaterInv, Spends, UNCHANGED <<input, nodes, objectToNode, later>>,
         stopped => stopped', Looping' => Looping, pc' = "done" => parts = <<>>,
         pc = "failed" => pc' = "failed"
  PROVE  LaterInv'
<1>1. /\ UNCHANGED <<document, tolerant, limit, nodes, objectToNode, parts, derived, shared,
                     skipped>>
      /\ LaterTypes /\ LaterRefs /\ PartsInOrder /\ DerivedAreAttached /\ LaterAreExplained
  BY DEF input, later, LaterInv
<1>2. LaterTypes'
  BY <1>1 DEF LaterTypes
<1>3. LaterRefs'
  BY <1>1 DEF LaterRefs
<1>4. PartsInOrder'
  BY <1>1 DEF PartsInOrder
<1>5. DerivedAreAttached'
  <2>1. /\ Short("edges") => Short("edges")'
        /\ Short("nodes") => Short("nodes")'
    BY <1>1, ReasonsRemain DEF Charges
  <2>2. \A i \in DOMAIN derived : Abandoned(i) => Abandoned(i)'
    BY <1>1, <2>1 DEF Abandoned
  <2> QED BY <1>1, <2>2 DEF DerivedAreAttached
<1>6. LaterAreExplained'
  <2>1. \A i \in DOMAIN skipped : PartExcused(skipped[i])'
    BY <1>1, PartStaysExcused DEF LaterAreExplained
  <2>2. /\ \A i \in DOMAIN derived : NullIsExcused(derived[i].null, derived[i].of)'
        /\ \A i \in DOMAIN parts : NullIsExcused(parts[i].null, parts[i].of)'
    BY <1>1, ReasonsRemain DEF LaterAreExplained
  <2> QED BY <1>1, <2>1, <2>2 DEF LaterAreExplained
<1> QED BY <1>2, <1>3, <1>4, <1>5, <1>6 DEF LaterInv
-----------------------------------------------------------------------------
(* The loop                                                                *)

LEMMA EdgeCostsFrame ==
  ASSUME UNCHANGED <<edges, derived, shared>>
  PROVE  UNCHANGED EdgeCosts
BY DEF EdgeCosts, Attached, Count

LEMMA StopStep ==
  ASSUME IInv, Stop
  PROVE  IInv'
<1>1. LoopInv /\ LaterInv /\ GraphIsCharged /\ LoopTypes /\ NodesAreNeeded
  BY IInvHalves DEF LoopInv
<1>2. /\ UNCHANGED <<document, tolerant, limit, charged, pc, pending, reference, nodes,
                     objectToNode, edges, lengths, dropped, parts, derived, shared, skipped>>
      /\ UNCHANGED <<input, later>>
      /\ stopped' = TRUE /\ pc \notin {"done", "failed"}
  BY DEF Stop, input, graph, later
<1>3. Spends
  BY <1>1, <1>2, NothingCharged
<1>4. LoopInv'
  <2>1. /\ lengths' \subseteq DOMAIN nodes /\ pc' \in Places /\ stopped' \in BOOLEAN
        /\ edges' \in Seq((DOMAIN nodes) \X (DOMAIN nodes))
    BY <1>1, <1>2 DEF LoopTypes
  <2>2. (Loading' => Loading) /\ (Linking' => Linking)
    BY <1>2 DEF Loading, Linking
  <2>3. pc' = "node" => /\ kind(reference.to) # "badContainer"
                        /\ tolerant \/ ~Repairable(reference.to)
    BY <1>1, <1>2 DEF NodesAreNeeded
  <2> QED BY <1>1, <1>2, <1>3, <2>1, <2>2, <2>3, LoopFrame
<1>5. LaterInv'
  BY <1>1, <1>2, <1>3, LaterFrame DEF Looping, Loading, Linking
<1>6. GraphIsCharged'
  <2>1. UNCHANGED EdgeCosts /\ UNCHANGED MadeCount
    BY <1>2, EdgeCostsFrame DEF MadeCount
  <2> QED BY <1>1, <1>2, <2>1 DEF GraphIsCharged
<1>7. FailureIsExplained'
  BY <1>2 DEF FailureIsExplained
<1> QED BY <1>4, <1>5, <1>6, <1>7, NextHalves

(* The later passes have not begun while the loop runs.                    *)
LEMMA LoopGoesOn ==
  ASSUME LoopTypes, LaterInv, Looping, nodes' \in Seq(Objects), UNCHANGED later
  PROVE  LaterInv'
<1>1. /\ parts = <<>> /\ derived = <<>> /\ shared = <<>> /\ skipped = <<>>
      /\ UNCHANGED <<parts, derived, shared, skipped>>
  BY DEF LaterInv, LaterTypes, later
<1> QED BY <1>1, NothingLater

(* A step within the loop, to the next place or to the failure             *)
LEMMA ProceedStep ==
  ASSUME IInv, Looping, Spends, NEW place \in Places, Proceed(place),
         Loading' => Loading, Linking' => Linking,
         place \notin {"passes", "done"},
         place = "node" => /\ kind(reference.to) # "badContainer"
                           /\ tolerant \/ ~Repairable(reference.to),
         place \in {"read", "node"} =>
           pc \in {"read", "node"} \/ charged["objects"] # limit["objects"],
         place = "node" /\ kind(reference.to) = "compressed" =>
           pc = "node" \/ charged["decoded"] # limit["decoded"],
         charged'["nodes"] = charged["nodes"],
         \/ charged'["edges"] = charged["edges"] /\ (place = "link" <=> pc = "link")
         \/ charged'["edges"] = charged["edges"] + 1 /\ place = "link" /\ pc = "edge"
         \/ charged'["edges"] = charged["edges"] /\ place = "failed",
         charged'["objects"] >= charged["objects"]
           + (IF place \in {"read", "node"} /\ pc = "object" THEN 1 ELSE 0),
         place = "failed" => Short("nodes")' \/ Short("edges")'
  PROVE  IInv'
<1>1. LoopInv /\ LaterInv /\ GraphIsCharged /\ LoopTypes /\ NodesAreNeeded
  BY IInvHalves DEF LoopInv
<1>2. /\ UNCHANGED <<document, tolerant, limit, stopped, pending, reference, nodes,
                     objectToNode, edges, lengths, dropped, parts, derived, shared, skipped>>
      /\ UNCHANGED <<input, later>>
      /\ pc' = place
  BY DEF Proceed, Goto, input, graph, later
<1>3. LoopInv'
  <2>1. /\ lengths' \subseteq DOMAIN nodes /\ pc' \in Places /\ stopped' \in BOOLEAN
        /\ edges' \in Seq((DOMAIN nodes) \X (DOMAIN nodes))
    BY <1>1, <1>2 DEF LoopTypes
  <2> QED BY <1>1, <1>2, <2>1, LoopFrame
<1>4. LaterInv'
  BY <1>1, <1>2, LoopGoesOn DEF LoopTypes
<1>5. GraphIsCharged'
  <2>1. UNCHANGED EdgeCosts /\ UNCHANGED MadeCount
    BY <1>2, EdgeCostsFrame DEF MadeCount
  <2>2. /\ charged["nodes"] = MadeCount + Len(derived)
        /\ pc # "failed"
        /\ charged["edges"] = EdgeCosts + (IF pc = "link" THEN 1 ELSE 0)
        /\ charged["objects"] >= MadeCount + (IF pc \in {"read", "node"} THEN 1 ELSE 0)
    BY <1>1 DEF GraphIsCharged, Looping, Loading, Linking
  <2>3. /\ EdgeCosts \in Int => TRUE
        /\ charged["edges"] \in Nat /\ charged["objects"] \in Nat
        /\ charged'["edges"] \in Nat /\ charged'["objects"] \in Nat
    BY <1>1, InputTypes DEF Spends
  <2>4. EdgeCosts \in Nat /\ MadeCount \in Nat
    <3>1. derived = <<>> /\ shared = <<>>
      BY <1>1 DEF LaterInv, LaterTypes
    <3>2. Attached = 0
      <4>1. {i \in DOMAIN derived : derived[i].attached} = {}
        BY <3>1
      <4> QED BY <4>1, FS_EmptySet DEF Attached, Count
    <3>3. Len(edges) \in Nat /\ Len(nodes) \in Nat /\ Len(document.roots) \in Nat
          /\ Len(shared) = 0
      BY <1>1, <3>1, LenProperties, InputTypes DEF LoopTypes
    <3> QED BY <1>1, <3>2, <3>3 DEF EdgeCosts, MadeCount, NodesAreNeeded
  <2>5. charged'["nodes"] = MadeCount' + Len(derived')
    BY <1>2, <2>1, <2>2
  <2>6. \/ charged'["edges"] = EdgeCosts' + (IF place = "link" THEN 1 ELSE 0)
        \/ place = "failed" /\ charged'["edges"] = EdgeCosts' + 1
    BY <2>1, <2>2, <2>3, <2>4 DEF Looping, Loading, Linking
  <2>7. charged'["objects"] >= MadeCount' + (IF place \in {"read", "node"} THEN 1 ELSE 0)
    <3>1. place \in {"read", "node"} => pc \in {"object", "read", "node"}
      BY <1>2 DEF Loading
    <3> QED BY <3>1, <2>1, <2>2, <2>3, <2>4
  <2> QED BY <1>2, <2>5, <2>6, <2>7 DEF GraphIsCharged
<1>6. FailureIsExplained'
  BY <1>2 DEF FailureIsExplained
<1> QED BY <1>3, <1>4, <1>5, <1>6, NextHalves

(* The sizes that the charges are about are natural numbers.               *)
LEMMA CountsOfLoop ==
  ASSUME LoopInv, LaterInv, Looping
  PROVE  /\ derived = <<>> /\ shared = <<>> /\ parts = <<>> /\ skipped = <<>>
         /\ Attached = 0 /\ Len(derived) = 0 /\ Len(shared) = 0
         /\ EdgeCosts = 2 * Len(edges) /\ EdgeCosts \in Nat /\ MadeCount \in Nat
<1>1. derived = <<>> /\ shared = <<>> /\ parts = <<>> /\ skipped = <<>>
  BY DEF LaterInv, LaterTypes
<1>2. Attached = 0
  <2>1. {i \in DOMAIN derived : derived[i].attached} = {}
    BY <1>1
  <2> QED BY <2>1, FS_EmptySet DEF Attached, Count
<1>3. Len(edges) \in Nat /\ Len(nodes) \in Nat /\ Len(document.roots) \in Nat
      /\ Len(shared) = 0 /\ Len(derived) = 0
  BY <1>1, LenProperties, InputTypes DEF LoopInv, LoopTypes
<1> QED BY <1>1, <1>2, <1>3 DEF EdgeCosts, MadeCount, LoopInv, NodesAreNeeded

(* A reference is given up for a reason that remains.                      *)
LEMMA DropStep ==
  ASSUME IInv, Loading, Spends, Drop,
         charged'["nodes"] = charged["nodes"], charged'["edges"] = charged["edges"],
         \/ stopped \/ kind(reference.to) = "badContainer"
         \/ ~tolerant /\ Repairable(reference.to)
         \/ charged'["objects"] = limit["objects"]
         \/ kind(reference.to) = "compressed" /\ charged'["decoded"] = limit["decoded"]
         \/ charged'["nodes"] = limit["nodes"]
  PROVE  IInv'
<1>1. /\ LoopInv /\ LaterInv /\ GraphIsCharged
      /\ LoopTypes /\ WorkIsFromValues /\ NodesAreNeeded /\ OneNodePerObject
      /\ FailuresArePermanent /\ DroppedAreDoomed /\ DroppedAreExcused
  BY IInvHalves DEF LoopInv
<1>2. /\ UNCHANGED <<document, tolerant, limit, stopped, pending, reference, nodes,
                     objectToNode, edges, lengths, parts, derived, shared, skipped>>
      /\ UNCHANGED <<input, later>>
      /\ pc' = "next" /\ dropped' = Append(dropped, reference)
  BY DEF Drop, Goto, input, graph, later
<1>3. /\ dropped \in Seq(Refers) /\ reference \in Refers
      /\ Len(dropped) \in Nat /\ DOMAIN dropped = 1..Len(dropped)
  BY <1>1, LenProperties DEF LoopTypes
<1>4. /\ dropped' \in Seq(Refers) /\ Len(dropped') = Len(dropped) + 1
      /\ DOMAIN dropped' = 1..Len(dropped) + 1
      /\ \A i \in DOMAIN dropped : dropped'[i] = dropped[i]
      /\ dropped'[Len(dropped) + 1] = reference
  BY <1>2, <1>3, AppendProperties
<1>5. \A i \in DOMAIN dropped' : \/ i \in DOMAIN dropped /\ dropped'[i] = dropped[i]
                                   /\ i # Len(dropped')
                                 \/ i = Len(dropped') /\ dropped'[i] = reference
  BY <1>3, <1>4
<1>6. \A o : kind(o)' = kind(o) /\ (Repairable(o)' <=> Repairable(o))
  BY <1>2 DEF kind, Repairable
<1>7. \A c \in Charges : charged[c] = limit[c] => charged'[c] = limit'[c]
  BY <1>1, <1>2, ShortStaysShort
<1>8. "objects" \in Charges /\ "nodes" \in Charges /\ "decoded" \in Charges
  BY DEF Charges
<1>9. LoopInv'
  <2>1. LoopTypes'
    <3>1. "next" \in Places
      BY DEF Places
    <3> QED BY <1>1, <1>2, <1>4, <3>1 DEF LoopTypes, Spends
  <2>2. WorkIsFromValues'
    <3>1. reference.from \in DOMAIN nodes
      BY <1>1 DEF WorkIsFromValues, IsReferenceOf
    <3>2. ~Loading' /\ ~Linking'
      BY <1>2 DEF Loading, Linking
    <3> QED BY <1>1, <1>2, <1>5, <3>1, <3>2 DEF WorkIsFromValues, IsReferenceOf
  <2>3. NodesAreNeeded' /\ OneNodePerObject'
    BY <1>1, <1>2 DEF NodesAreNeeded, OneNodePerObject, Made, Loading, Linking
  <2>4. FailuresArePermanent'
    BY <1>1, <1>2, <1>5 DEF FailuresArePermanent, NodesAreNeeded
  <2>5. DroppedAreDoomed'
    <3>1. Doomed(reference.to)'
      BY <1>2, <1>6 DEF Doomed
    <3>2. \A i \in DOMAIN dropped : Doomed(dropped[i].to)
      BY <1>1 DEF DroppedAreDoomed
    <3>3. ASSUME NEW i \in DOMAIN dropped' PROVE Doomed(dropped[i].to)'
      <4>1. CASE i \in DOMAIN dropped /\ dropped'[i] = dropped[i]
        <5> DEFINE o == dropped[i].to
        <5>1. Doomed(o)
          BY <3>2, <4>1
        <5> QED BY <1>2, <1>6, <1>7, <1>8, <5>1, <4>1 DEF Doomed
      <4>2. CASE i = Len(dropped') /\ dropped'[i] = reference
        BY <1>2, <1>6, <4>2 DEF Doomed
      <4> QED BY <1>5, <4>1, <4>2
    <3> QED BY <3>3 DEF DroppedAreDoomed
  <2>6. DroppedAreExcused'
    <3>1. ASSUME NEW i \in DOMAIN dropped' PROVE ReferenceExcused(i)'
      <4>1. CASE i \in DOMAIN dropped /\ dropped'[i] = dropped[i] /\ i # Len(dropped')
        <5>1. \/ kind(dropped[i].to) = "badContainer"
              \/ ~tolerant /\ Repairable(dropped[i].to)
              \/ \E c \in Charges : charged[c] = limit[c]
          BY <1>1, <4>1 DEF DroppedAreExcused, ReferenceExcused
        <5> QED BY <1>2, <1>6, <1>7, <4>1, <5>1 DEF ReferenceExcused
      <4>2. CASE i = Len(dropped') /\ dropped'[i] = reference
        BY <1>2, <1>6, <1>8, <4>2 DEF ReferenceExcused
      <4> QED BY <1>5, <4>1, <4>2
    <3>2. ~Loading' /\ ~Linking'
      BY <1>2 DEF Loading, Linking
    <3> QED BY <3>1, <3>2 DEF DroppedAreExcused
  <2> QED BY <2>1, <2>2, <2>3, <2>4, <2>5, <2>6 DEF LoopInv
<1>10. LaterInv'
  BY <1>1, <1>2, LoopGoesOn DEF LoopTypes, Looping
<1>11. GraphIsCharged'
  <2>1. UNCHANGED EdgeCosts /\ UNCHANGED MadeCount /\ EdgeCosts \in Nat /\ MadeCount \in Nat
    BY <1>1, <1>2, EdgeCostsFrame, CountsOfLoop DEF MadeCount, Looping
  <2>2. /\ charged["nodes"] = MadeCount + Len(derived)
        /\ charged["edges"] = EdgeCosts
        /\ charged["objects"] >= MadeCount
    BY <1>1, <2>1, InputTypes DEF GraphIsCharged, Loading
  <2>3. charged["objects"] \in Nat /\ charged'["objects"] \in Nat
        /\ charged["objects"] <= charged'["objects"]
    BY <1>1, InputTypes DEF Spends
  <2> QED BY <1>2, <2>1, <2>2, <2>3 DEF GraphIsCharged
<1>12. FailureIsExplained'
  BY <1>2 DEF FailureIsExplained
<1> QED BY <1>9, <1>10, <1>11, <1>12, NextHalves

(* The budget refuses on the way to a place where the run fails.           *)
LEMMA FailStep ==
  ASSUME IInv, Looping, Fail, Short("nodes") \/ Short("edges")
  PROVE  IInv'
<1>1. LoopTypes /\ Spends /\ UNCHANGED <<charged, limit, stopped>>
  BY IInvHalves, NothingCharged DEF LoopInv, Fail, Abort, input
<1>2. Proceed("failed") /\ "failed" \in Places /\ pc' = "failed"
  BY DEF Fail, Abort, Proceed, Places, Goto
<1>3. ~Loading' /\ ~Linking'
  BY <1>2 DEF Loading, Linking
<1>4. Short("nodes")' \/ Short("edges")'
  BY <1>1 DEF Short
<1>5. charged["objects"] \in Nat
  BY <1>1, InputTypes
<1> QED BY <1>1, <1>2, <1>3, <1>4, <1>5, ProceedStep

LEMMA PopStep ==
  ASSUME IInv, Pop
  PROVE  IInv'
<1>1. /\ LoopInv /\ LaterInv /\ GraphIsCharged
      /\ LoopTypes /\ WorkIsFromValues /\ NodesAreNeeded /\ OneNodePerObject
      /\ FailuresArePermanent /\ DroppedAreDoomed /\ DroppedAreExcused
  BY IInvHalves DEF LoopInv
<1>2. pc = "next" /\ pending # <<>> /\ Looping
  BY DEF Pop, Looping
<1>3. CASE stopped /\ Fail
  BY <1>2, <1>3, FailStep DEF Short
<1>4. CASE /\ ~stopped /\ reference' = Head(pending) /\ pending' = Tail(pending)
           /\ Goto(IF Head(pending).to \in DOMAIN objectToNode THEN "edge" ELSE "object")
           /\ UNCHANGED <<input, charged, stopped, graph, dropped, later>>
  <2>1. /\ UNCHANGED <<document, tolerant, limit, charged, stopped, nodes,
                       objectToNode, edges, lengths, dropped, parts, derived, shared, skipped>>
        /\ pc' = IF reference'.to \in DOMAIN objectToNode THEN "edge" ELSE "object"
    BY <1>4 DEF Goto, input, graph, later
  <2>2. /\ pending \in Seq(Refers)
        /\ reference' \in Refers /\ pending' \in Seq(Refers)
        /\ reference' = pending[1] /\ 1 \in DOMAIN pending
        /\ \A i \in DOMAIN pending' : i + 1 \in DOMAIN pending /\ pending'[i] = pending[i + 1]
    <3>1. pending \in Seq(Refers)
      BY <1>1 DEF LoopTypes
    <3> QED BY <3>1, <1>2, <1>4, HeadTailProperties, EmptySeq, LenProperties
  <2>3. Spends
    BY <1>1, <2>1, NothingCharged
  <2>4. \A o : kind(o)' = kind(o) /\ (Repairable(o)' <=> Repairable(o))
    BY <2>1 DEF kind, Repairable
  <2>5. LoopInv'
    <3>1. LoopTypes'
      <4>1. "edge" \in Places /\ "object" \in Places
        BY DEF Places
      <4> QED BY <1>1, <2>1, <2>2, <4>1 DEF LoopTypes
    <3>2. WorkIsFromValues'
      <4>1. \A n, o : IsReferenceOf(n, o)' <=> IsReferenceOf(n, o)
        BY <2>1 DEF IsReferenceOf
      <4>2. \A i \in DOMAIN pending : IsReferenceOf(pending[i].from, pending[i].to)
        BY <1>1 DEF WorkIsFromValues
      <4>3. IsReferenceOf(reference.from, reference.to)'
        BY <2>2, <4>1, <4>2
      <4>4. \A i \in DOMAIN pending' : IsReferenceOf(pending'[i].from, pending'[i].to)
        BY <2>2, <4>2
      <4>5. \A i \in DOMAIN pending' : IsReferenceOf(pending[i].from, pending[i].to)'
        BY <4>1, <4>4
      <4> QED BY <1>1, <2>1, <4>3, <4>5 DEF WorkIsFromValues
    <3>3. NodesAreNeeded' /\ OneNodePerObject' /\ FailuresArePermanent'
      BY <1>1, <2>1 DEF NodesAreNeeded, OneNodePerObject, FailuresArePermanent, Made,
                        Loading, Linking
    <3>4. DroppedAreDoomed'
      <4>1. ASSUME NEW i \in DOMAIN dropped PROVE Doomed(dropped[i].to)'
        <5>1. Doomed(dropped[i].to)
          BY <1>1 DEF DroppedAreDoomed
        <5> QED BY <5>1, <2>1, <2>4 DEF Doomed
      <4> QED BY <2>1, <4>1 DEF DroppedAreDoomed
    <3>5. DroppedAreExcused'
      <4>1. \A i \in DOMAIN dropped : ReferenceExcused(i)'
        BY <1>1, <2>1, <2>4 DEF DroppedAreExcused, ReferenceExcused
      <4>2. ~stopped'
        BY <1>4, <2>1
      <4> QED BY <2>1, <4>1, <4>2 DEF DroppedAreExcused
    <3> QED BY <3>1, <3>2, <3>3, <3>4, <3>5 DEF LoopInv
  <2>6. LaterInv'
    BY <1>1, <1>2, <2>1, LoopGoesOn DEF LoopTypes, later
  <2>7. GraphIsCharged'
    <3>1. UNCHANGED EdgeCosts /\ UNCHANGED MadeCount
      BY <2>1, EdgeCostsFrame DEF MadeCount
    <3> QED BY <1>1, <1>2, <2>1, <3>1 DEF GraphIsCharged
  <2>8. FailureIsExplained'
    BY <2>1 DEF FailureIsExplained
  <2> QED BY <2>5, <2>6, <2>7, <2>8, NextHalves
<1> QED BY <1>3, <1>4 DEF Pop

LEMMA ConsumeObjectStep ==
  ASSUME IInv, ConsumeObject
  PROVE  IInv'
<1>1. /\ LoopTypes /\ pc = "object" /\ Looping /\ Loading
      /\ "objects" \in Charges /\ "nodes" \in Charges /\ "edges" \in Charges
      /\ \A c \in Charges : charged[c] \in Nat /\ limit[c] \in Nat
  BY IInvHalves, InputTypes DEF LoopInv, ConsumeObject, Looping, Loading
<1>2. CASE Charge("objects") /\ Proceed("read")
  <2>1. /\ Spends /\ charged["objects"] < limit["objects"]
        /\ charged'["objects"] = charged["objects"] + 1
        /\ charged'["nodes"] = charged["nodes"] /\ charged'["edges"] = charged["edges"]
    BY <1>1, <1>2, ChargeForms
  <2>2. "read" \in Places /\ ~Linking'
    BY <1>2 DEF Places, Proceed, Goto, Linking
  <2>3. charged["objects"] # limit["objects"]
    BY <1>1, <2>1
  <2>4. charged'["objects"] >= charged["objects"] + 1
    BY <1>1, <2>1
  <2> QED BY <1>1, <1>2, <2>1, <2>2, <2>3, <2>4, ProceedStep
<1>3. CASE ~Affords("objects") /\ UNCHANGED charged /\ Drop
  BY <1>1, <1>3, NothingCharged, RefusedIsShort, DropStep DEF Short
<1> QED BY <1>2, <1>3 DEF ConsumeObject

(* From where the object is read to where its node is made                 *)
LEMMA HaveStep ==
  ASSUME IInv, pc = "read", Spends, Proceed("node"),
         kind(reference.to) # "badContainer", tolerant \/ ~Repairable(reference.to),
         kind(reference.to) = "compressed" => charged["decoded"] # limit["decoded"],
         charged'["nodes"] = charged["nodes"], charged'["edges"] = charged["edges"]
  PROVE  IInv'
<1>1. LoopTypes /\ Looping /\ Loading /\ "node" \in Places /\ ~Linking'
  BY IInvHalves DEF LoopInv, Looping, Loading, Places, Proceed, Goto, Linking
<1>2. charged["objects"] \in Nat /\ charged'["objects"] \in Nat
      /\ charged'["objects"] >= charged["objects"]
  BY <1>1, InputTypes DEF Spends
<1>3. charged'["objects"] >= charged["objects"]
        + (IF "node" \in {"read", "node"} /\ pc = "object" THEN 1 ELSE 0)
  BY <1>2
<1> QED BY <1>1, <1>3, ProceedStep

LEMMA ReadObjectStep ==
  ASSUME IInv, ReadObject
  PROVE  IInv'
<1>1. LoopTypes /\ pc = "read" /\ UNCHANGED charged /\ Loading
  BY IInvHalves DEF LoopInv, ReadObject, Loading
<1>2. Spends
  BY <1>1, NothingCharged
<1>3. CASE kind(reference.to) \in {"value", "number", "negative"} /\ Proceed("node")
  BY <1>1, <1>2, <1>3, HaveStep DEF Repairable
<1>4. CASE kind(reference.to) \in {"repairable", "garbled", "missing"} /\ Repair
  <2>1. CASE tolerant /\ Proceed("node")
    BY <1>1, <1>2, <1>4, <2>1, HaveStep
  <2>2. CASE ~tolerant /\ Drop
    BY <1>1, <1>2, <1>4, <2>2, DropStep DEF Repairable
  <2> QED BY <1>4, <2>1, <2>2 DEF Repair
<1> QED BY <1>3, <1>4 DEF ReadObject

LEMMA ReadStreamStep ==
  ASSUME IInv, ReadStream
  PROVE  IInv'
<1>1. /\ LoopTypes /\ pc = "read" /\ kind(reference.to) = "stream" /\ Loading
      /\ "objects" \in Charges
  BY IInvHalves DEF LoopInv, ReadStream, Loading, Charges
<1>2. Charge("objects") \/ UNCHANGED charged
  BY DEF ReadStream
<1>3. Spends /\ charged'["nodes"] = charged["nodes"] /\ charged'["edges"] = charged["edges"]
  BY <1>1, <1>2, ChargeForms, NothingCharged DEF Charges
<1>4. CASE kind(document.length[reference.to]) = "number" /\ Proceed("node")
  BY <1>1, <1>3, <1>4, HaveStep DEF Repairable
<1>5. ASSUME Repair, kind(document.length[reference.to]) # "number" \/ ~Affords("objects"),
             ~Affords("objects") => UNCHANGED charged
      PROVE  IInv'
  <2>1. CASE tolerant /\ Proceed("node")
    BY <1>1, <1>3, <2>1, HaveStep
  <2>2. CASE ~tolerant /\ Drop
    <3>1. CASE kind(document.length[reference.to]) # "number"
      BY <1>1, <1>3, <2>2, <3>1, DropStep DEF Repairable
    <3>2. CASE ~Affords("objects") /\ UNCHANGED charged
      BY <1>1, <1>3, <2>2, <3>2, DropStep, RefusedIsShort DEF Short
    <3> QED BY <1>5, <3>1, <3>2
  <2> QED BY <1>5, <2>1, <2>2 DEF Repair
<1>6. CASE Charge("objects")
  <2>1. Affords("objects")
    BY <1>6 DEF Charge
  <2>2. \/ kind(document.length[reference.to]) = "number" /\ Proceed("node")
        \/ kind(document.length[reference.to]) # "number" /\ Repair
    BY <2>1 DEF ReadStream
  <2> QED BY <1>4, <1>5, <2>1, <2>2
<1>7. CASE ~Charge("objects")
  <2>1. ~Affords("objects") /\ UNCHANGED charged /\ Repair
    BY <1>7 DEF ReadStream
  <2> QED BY <1>5, <2>1
<1> QED BY <1>6, <1>7

LEMMA ReadCompressedStep ==
  ASSUME IInv, ReadCompressed
  PROVE  IInv'
<1>1. LoopTypes /\ pc = "read" /\ Loading /\ "decoded" \in Charges
  BY IInvHalves DEF LoopInv, ReadCompressed, Loading, Charges
<1>2. Charge("decoded") \/ UNCHANGED charged
  BY DEF ReadCompressed
<1>3. Spends /\ charged'["nodes"] = charged["nodes"] /\ charged'["edges"] = charged["edges"]
  BY <1>1, <1>2, ChargeForms, NothingCharged DEF Charges
<1>4. CASE kind(reference.to) = "compressed" /\ Charge("decoded") /\ Proceed("node")
  <2>1. charged["decoded"] # limit["decoded"]
    BY <1>1, <1>4, RefusedIsShort DEF Charge
  <2> QED BY <1>1, <1>3, <1>4, <2>1, HaveStep DEF Repairable
<1>5. CASE kind(reference.to) = "compressed" /\ ~Affords("decoded") /\ UNCHANGED charged /\ Drop
  BY <1>1, <1>3, <1>5, DropStep, RefusedIsShort DEF Short
<1>6. CASE kind(reference.to) = "badContainer" /\ Drop
  BY <1>1, <1>3, <1>6, DropStep
<1> QED BY <1>4, <1>5, <1>6 DEF ReadCompressed

LEMMA CollectType ==
  ASSUME LoopTypes, NEW n \in Nat, NEW o \in Objects
  PROVE  /\ Collect(n, o) \in Seq(Refers)
         /\ DOMAIN Collect(n, o) = DOMAIN document.refs[o]
         /\ \A i \in DOMAIN document.refs[o] :
              /\ document.refs[o][i] \in Objects
              /\ Collect(n, o)[i] = Reference(n, document.refs[o][i])
<1>1. document.refs[o] \in Seq(Objects)
  BY InputTypes
<1>2. /\ Len(document.refs[o]) \in Nat /\ DOMAIN document.refs[o] = 1..Len(document.refs[o])
      /\ \A i \in DOMAIN document.refs[o] : document.refs[o][i] \in Objects
  BY <1>1, LenProperties, ElementOfSeq
<1>3. \A p \in Objects : Reference(n, p) \in Refers
  BY DEF Reference, Refers
<1> QED BY <1>2, <1>3 DEF Collect

(* A node is made of an object that has none; it is the only one, and what *)
(* was given up on stays without.                                          *)
LEMMA CreateNodeStep ==
  ASSUME IInv, CreateNode
  PROVE  IInv'
<1> DEFINE N == Len(nodes) + 1
           o == reference.to
<1>1. /\ LoopInv /\ LaterInv /\ GraphIsCharged
      /\ LoopTypes /\ WorkIsFromValues /\ NodesAreNeeded /\ OneNodePerObject
      /\ FailuresArePermanent /\ DroppedAreDoomed /\ DroppedAreExcused
  BY IInvHalves DEF LoopInv
<1>2. pc = "node" /\ Loading /\ Looping
      /\ "objects" \in Charges /\ "nodes" \in Charges /\ "edges" \in Charges
      /\ "decoded" \in Charges
  BY DEF CreateNode, Loading, Looping, Charges
<1>3. CASE ~Affords("nodes") /\ UNCHANGED charged /\ Drop
  BY <1>1, <1>2, <1>3, NothingCharged, RefusedIsShort, DropStep DEF Short
<1>4. ASSUME Charge("nodes"), AddNode(o),
             objectToNode' = [p \in DOMAIN objectToNode \cup {o} |->
               IF p = o THEN N ELSE objectToNode[p]],
             pending' = pending \o Collect(N, o)
      PROVE  IInv'
  <2>1. /\ UNCHANGED <<document, tolerant, limit, stopped, reference, edges, lengths, dropped,
                       parts, derived, shared, skipped>>
        /\ UNCHANGED <<input, later>>
        /\ pc' = "edge" /\ nodes' = Append(nodes, o)
    BY <1>4 DEF AddNode, Goto, input, later
  <2>2. /\ Spends /\ ~stopped /\ charged["nodes"] # limit["nodes"]
        /\ charged'["nodes"] = charged["nodes"] + 1
        /\ \A c \in Charges \ {"nodes"} : charged'[c] = charged[c]
    <3>1. charged["nodes"] \in Nat /\ limit["nodes"] \in Nat
      BY <1>1, <1>2, InputTypes
    <3> QED BY <1>1, <1>2, <1>4, <3>1, ChargeForms
  <2>3. /\ Len(nodes) \in Nat /\ DOMAIN nodes = 1..Len(nodes)
        /\ nodes' \in Seq(Objects) /\ Len(nodes') = N /\ DOMAIN nodes' = 1..N
        /\ \A n \in DOMAIN nodes : nodes'[n] = nodes[n]
        /\ nodes'[N] = o /\ o \in Objects /\ N \in Nat
    <3>1. nodes \in Seq(Objects) /\ o \in Objects
      BY <1>1 DEF LoopTypes, Refers
    <3> QED BY <2>1, <3>1, AppendProperties, LenProperties
  <2>4. /\ Len(document.roots) \in Nat /\ Len(document.roots) <= Len(nodes)
        /\ Made' = Made \cup {N} /\ N \notin Made /\ Made \subseteq DOMAIN nodes
    <3>1. Len(document.roots) \in Nat /\ Len(document.roots) <= Len(nodes)
      BY <1>1, InputTypes, LenProperties DEF NodesAreNeeded
    <3> QED BY <2>1, <2>3, <3>1 DEF Made
  <2>5. /\ o \notin DOMAIN objectToNode /\ IsReferenceOf(reference.from, o)
        /\ kind(o) # "badContainer" /\ (tolerant \/ ~Repairable(o))
    BY <1>1, <1>2 DEF NodesAreNeeded, WorkIsFromValues
  <2>6. /\ DOMAIN objectToNode' = DOMAIN objectToNode \cup {o}
        /\ objectToNode'[o] = N
        /\ \A p \in DOMAIN objectToNode : objectToNode'[p] = objectToNode[p]
    BY <1>4, <2>5
  <2>7. \A p : kind(p)' = kind(p) /\ (Repairable(p)' <=> Repairable(p))
    BY <2>1 DEF kind, Repairable
  <2>8. \A n, p : IsReferenceOf(n, p) => IsReferenceOf(n, p)'
    BY <2>1, <2>3 DEF IsReferenceOf
  <2>9. LoopTypes'
    <3>1. pending' \in Seq(Refers)
      BY <1>1, <1>4, <2>3, CollectType, ConcatProperties DEF LoopTypes
    <3>2. edges' \in Seq((DOMAIN nodes') \X (DOMAIN nodes'))
      <4>1. (DOMAIN nodes) \X (DOMAIN nodes) \subseteq (DOMAIN nodes') \X (DOMAIN nodes')
        BY <2>3
      <4>2. edges \in Seq((DOMAIN nodes) \X (DOMAIN nodes))
        BY <1>1 DEF LoopTypes
      <4> QED BY <2>1, <4>1, <4>2, SeqMonotonic
    <3>3. /\ DOMAIN objectToNode' \subseteq Objects
          /\ objectToNode' \in [DOMAIN objectToNode' -> DOMAIN nodes']
      <4>1. DOMAIN objectToNode \subseteq Objects
            /\ \A p \in DOMAIN objectToNode : objectToNode[p] \in DOMAIN nodes
        BY <1>1 DEF LoopTypes
      <4> QED BY <1>4, <2>3, <2>6, <4>1
    <3>4. "edge" \in Places /\ lengths' \subseteq DOMAIN nodes'
      BY <1>1, <2>1, <2>3 DEF Places, LoopTypes
    <3> QED BY <1>1, <2>1, <2>2, <2>3, <3>1, <3>2, <3>3, <3>4 DEF LoopTypes, Spends
  <2>10. WorkIsFromValues'
    <3>1. pending \in Seq(Refers) /\ Collect(N, o) \in Seq(Refers)
      BY <1>1, <2>3, CollectType DEF LoopTypes
    <3>2. ASSUME NEW i \in DOMAIN pending'
          PROVE  IsReferenceOf(pending[i].from, pending[i].to)'
      <4>1. \/ i \in DOMAIN pending /\ pending'[i] = pending[i]
            \/ \E j \in DOMAIN Collect(N, o) : pending'[i] = Collect(N, o)[j]
        <5>1. /\ Len(pending) \in Nat /\ Len(Collect(N, o)) \in Nat
              /\ DOMAIN pending = 1..Len(pending)
              /\ DOMAIN Collect(N, o) = 1..Len(Collect(N, o))
              /\ DOMAIN pending' = 1..Len(pending) + Len(Collect(N, o))
              /\ \A k \in DOMAIN pending' : pending'[k] =
                   IF k <= Len(pending) THEN pending[k] ELSE Collect(N, o)[k - Len(pending)]
          BY <1>4, <3>1, ConcatProperties, LenProperties
        <5>2. CASE i <= Len(pending)
          BY <5>1, <5>2
        <5>3. CASE ~(i <= Len(pending))
          <6>1. i - Len(pending) \in DOMAIN Collect(N, o)
            BY <5>1, <5>3
          <6> QED BY <5>1, <5>3, <6>1
        <5> QED BY <5>2, <5>3
      <4>2. CASE i \in DOMAIN pending /\ pending'[i] = pending[i]
        <5>1. IsReferenceOf(pending[i].from, pending[i].to)
          BY <1>1, <4>2 DEF WorkIsFromValues
        <5>2. IsReferenceOf(pending'[i].from, pending'[i].to)
          BY <4>2, <5>1
        <5> QED BY <2>3, <2>1, <5>2 DEF IsReferenceOf
      <4>3. CASE \E j \in DOMAIN Collect(N, o) : pending'[i] = Collect(N, o)[j]
        <5>1. PICK j \in DOMAIN document.refs[o] :
                pending'[i] = Reference(N, document.refs[o][j])
          BY <1>1, <2>3, <4>3, CollectType
        <5>2. pending'[i].from = N /\ pending'[i].to = document.refs[o][j]
          BY <5>1 DEF Reference
        <5> QED BY <2>1, <2>3, <5>2 DEF IsReferenceOf
      <4> QED BY <4>1, <4>2, <4>3
    <3>3. IsReferenceOf(reference.from, reference.to)'
      BY <2>1, <2>5, <2>8
    <3>4. \A i \in DOMAIN dropped' : dropped'[i].from \in DOMAIN nodes'
      BY <1>1, <2>1, <2>3 DEF WorkIsFromValues
    <3> QED BY <3>2, <3>3, <3>4 DEF WorkIsFromValues
  <2>11. NodesAreNeeded'
    BY <2>1, <2>3, <2>4, <2>6 DEF NodesAreNeeded, Loading, Linking
  <2>12. OneNodePerObject'
    <3>1. ASSUME NEW n \in Made'
          PROVE  /\ nodes'[n] \in DOMAIN objectToNode'
                 /\ objectToNode'[nodes'[n]] = n
                 /\ \E m \in 1..(n - 1) : \E i \in DOMAIN document'.refs[nodes'[m]] :
                      document'.refs[nodes'[m]][i] = nodes'[n]
      <4>1. CASE n \in Made
        <5>1. /\ nodes[n] \in DOMAIN objectToNode /\ objectToNode[nodes[n]] = n
              /\ \E m \in 1..(n - 1) : \E i \in DOMAIN document.refs[nodes[m]] :
                   document.refs[nodes[m]][i] = nodes[n]
          BY <1>1, <4>1 DEF OneNodePerObject
        <5>2. nodes'[n] = nodes[n] /\ \A m \in 1..(n - 1) : nodes'[m] = nodes[m]
          BY <2>3, <2>4, <4>1
        <5>3. PICK m \in 1..(n - 1) : \E i \in DOMAIN document.refs[nodes[m]] :
                document.refs[nodes[m]][i] = nodes[n]
          BY <5>1
        <5>4. \E i \in DOMAIN document'.refs[nodes'[m]] : document'.refs[nodes'[m]][i] = nodes'[n]
          BY <2>1, <5>2, <5>3
        <5>5. nodes'[n] \in DOMAIN objectToNode' /\ objectToNode'[nodes'[n]] = n
          BY <2>6, <5>1, <5>2
        <5> QED BY <5>4, <5>5
      <4>2. CASE n = N
        <5>1. reference.from \in 1..(N - 1) /\ nodes'[reference.from] = nodes[reference.from]
          BY <2>3, <2>5 DEF IsReferenceOf
        <5>2. PICK i \in DOMAIN document.refs[nodes[reference.from]] :
                document.refs[nodes[reference.from]][i] = o
          BY <2>5 DEF IsReferenceOf
        <5>3. reference.from \in 1..(n - 1) /\ nodes'[n] = o /\ nodes'[n] \in DOMAIN objectToNode'
              /\ objectToNode'[nodes'[n]] = n
          BY <2>3, <2>6, <4>2, <5>1
        <5>4. \E k \in DOMAIN document'.refs[nodes'[reference.from]] :
                document'.refs[nodes'[reference.from]][k] = nodes'[n]
          BY <2>1, <5>1, <5>2, <5>3
        <5> QED BY <5>3, <5>4
      <4> QED BY <2>4, <4>1, <4>2
    <3>2. ASSUME NEW p \in DOMAIN objectToNode'
          PROVE  objectToNode'[p] \in Made' /\ nodes'[objectToNode'[p]] = p
      BY <1>1, <2>3, <2>4, <2>6 DEF OneNodePerObject
    <3> QED BY <3>1, <3>2 DEF OneNodePerObject
  <2>13. FailuresArePermanent'
    <3>1. \A i \in DOMAIN dropped : Doomed(dropped[i].to)
      BY <1>1 DEF DroppedAreDoomed
    <3>2. ~Doomed(o)
      BY <1>2, <2>2, <2>5 DEF Doomed
    <3> QED BY <1>1, <2>1, <2>6, <3>1, <3>2 DEF FailuresArePermanent
  <2>14. DroppedAreDoomed'
    <3>1. ASSUME NEW i \in DOMAIN dropped PROVE Doomed(dropped[i].to)'
      <4>1. Doomed(dropped[i].to)
        BY <1>1 DEF DroppedAreDoomed
      <4> QED BY <1>2, <2>1, <2>2, <2>7, <4>1 DEF Doomed
    <3> QED BY <2>1, <3>1 DEF DroppedAreDoomed
  <2>15. DroppedAreExcused'
    <3>1. \A c \in Charges : charged[c] = limit[c] => charged'[c] = limit'[c]
      BY <1>1, <2>1, <2>2, ShortStaysShort
    <3>2. \A i \in DOMAIN dropped : ReferenceExcused(i)'
      BY <1>1, <2>1, <2>7, <3>1 DEF DroppedAreExcused, ReferenceExcused
    <3> QED BY <2>1, <2>2, <3>2 DEF DroppedAreExcused
  <2>16. LoopInv'
    BY <2>9, <2>10, <2>11, <2>12, <2>13, <2>14, <2>15 DEF LoopInv
  <2>17. LaterInv'
    BY <1>1, <1>2, <2>1, <2>3, LoopGoesOn
  <2>18. GraphIsCharged'
    <3>1. UNCHANGED EdgeCosts /\ MadeCount' = MadeCount + 1 /\ MadeCount \in Nat
          /\ EdgeCosts \in Nat
      BY <1>1, <1>2, <2>1, <2>3, <2>4, EdgeCostsFrame, CountsOfLoop DEF MadeCount
    <3>2. /\ charged["nodes"] = MadeCount + Len(derived) /\ charged["edges"] = EdgeCosts
          /\ charged["objects"] >= MadeCount + 1
      BY <1>1, <1>2, <3>1, InputTypes DEF GraphIsCharged
    <3>3. Len(derived) = 0 /\ Len(derived') = 0 /\ charged["objects"] \in Nat
      BY <1>1, <1>2, <2>1, CountsOfLoop, InputTypes
    <3>4. charged'["nodes"] = MadeCount' + Len(derived') /\ charged'["edges"] = EdgeCosts'
          /\ charged'["objects"] >= MadeCount'
      BY <1>2, <2>2, <3>1, <3>2, <3>3
    <3>5. EdgeCosts' \in Nat /\ MadeCount' \in Nat
      BY <3>1
    <3> QED BY <2>1, <3>1, <3>3, <3>4, <3>5, <1>2, <2>2, <3>2 DEF GraphIsCharged
  <2>19. FailureIsExplained'
    BY <2>1 DEF FailureIsExplained
  <2> QED BY <2>16, <2>17, <2>18, <2>19, NextHalves
<1> QED BY <1>3, <1>4 DEF CreateNode

LEMMA ChargeEdgeStep ==
  ASSUME IInv, ChargeEdge
  PROVE  IInv'
<1>1. /\ LoopTypes /\ pc = "edge" /\ Looping /\ "edges" \in Charges
      /\ charged["objects"] \in Nat
  BY IInvHalves, InputTypes DEF LoopInv, ChargeEdge, Looping, Linking
<1>2. CASE Charge("edges") /\ Proceed("link")
  <2>1. /\ Spends
        /\ charged'["edges"] = charged["edges"] + 1
        /\ charged'["nodes"] = charged["nodes"] /\ charged'["objects"] = charged["objects"]
    BY <1>1, <1>2, ChargeForms DEF Charges
  <2>2. "link" \in Places /\ ~Loading' /\ (Linking' => Linking)
    BY <1>1, <1>2 DEF Places, Proceed, Goto, Loading, Linking
  <2> QED BY <1>1, <1>2, <2>1, <2>2, ProceedStep
<1>3. CASE ~Affords("edges") /\ Fail
  BY <1>1, <1>3, FailStep, RefusedIsShort
<1> QED BY <1>2, <1>3 DEF ChargeEdge

LEMMA AddEdgeStep ==
  ASSUME IInv, AddEdge
  PROVE  IInv'
<1>1. /\ LoopInv /\ LaterInv /\ GraphIsCharged /\ LoopTypes /\ WorkIsFromValues /\ NodesAreNeeded
      /\ pc = "link" /\ Looping /\ "edges" \in Charges
  BY IInvHalves, InputTypes DEF LoopInv, AddEdge, Looping, Linking
<1>2. CASE ~Affords("edges") /\ Fail
  BY <1>1, <1>2, FailStep, RefusedIsShort
<1>3. ASSUME Charge("edges"),
             edges' = Append(edges, <<reference.from, objectToNode[reference.to]>>),
             Goto("next"),
             UNCHANGED <<input, stopped, pending, reference, nodes, objectToNode,
                         lengths, dropped, later>>
      PROVE  IInv'
  <2>1. /\ UNCHANGED <<document, tolerant, limit, stopped, pending, reference, nodes,
                       objectToNode, lengths, dropped, parts, derived, shared, skipped>>
        /\ pc' = "next"
    BY <1>3 DEF Goto, input, later
  <2>2. /\ Spends
        /\ charged'["edges"] = charged["edges"] + 1
        /\ charged'["nodes"] = charged["nodes"] /\ charged'["objects"] = charged["objects"]
    BY <1>1, <1>3, ChargeForms DEF Charges
  <2>3. /\ edges' \in Seq((DOMAIN nodes) \X (DOMAIN nodes))
        /\ Len(edges') = Len(edges) + 1 /\ Len(edges) \in Nat
    <3>1. reference.from \in DOMAIN nodes /\ objectToNode[reference.to] \in DOMAIN nodes
      BY <1>1 DEF WorkIsFromValues, IsReferenceOf, NodesAreNeeded, Linking, LoopTypes
    <3>2. edges \in Seq((DOMAIN nodes) \X (DOMAIN nodes))
      BY <1>1 DEF LoopTypes
    <3> QED BY <1>3, <3>1, <3>2, AppendProperties, LenProperties
  <2>4. LoopInv'
    <3>1. lengths' \subseteq DOMAIN nodes /\ pc' \in Places /\ stopped' \in BOOLEAN
      BY <1>1, <2>1 DEF LoopTypes, Places
    <3>2. ~Loading' /\ ~Linking'
      BY <2>1 DEF Loading, Linking
    <3> QED BY <1>1, <1>3, <2>1, <2>2, <2>3, <3>1, <3>2, LoopFrame
  <2>5. LaterInv'
    BY <1>1, <1>3, <2>1, LoopGoesOn DEF LoopTypes
  <2>6. GraphIsCharged'
    <3>1. /\ Attached = 0 /\ Len(derived) = 0 /\ Len(shared) = 0
          /\ EdgeCosts = 2 * Len(edges) /\ EdgeCosts \in Nat /\ MadeCount \in Nat
      BY <1>1, CountsOfLoop
    <3>2. MadeCount' = MadeCount /\ EdgeCosts' = 2 * Len(edges')
      BY <2>1, <3>1 DEF MadeCount, EdgeCosts, Attached, Count
    <3>3. /\ charged["nodes"] = MadeCount
          /\ charged["edges"] = EdgeCosts + 1
          /\ charged["objects"] >= MadeCount
      BY <1>1, <3>1, InputTypes DEF GraphIsCharged
    <3>4. charged'["edges"] = EdgeCosts' /\ charged["objects"] \in Nat
          /\ charged'["objects"] >= MadeCount'
      BY <1>1, <2>2, <2>3, <3>1, <3>2, <3>3, InputTypes
    <3>5. charged'["nodes"] = MadeCount' + Len(derived')
      BY <2>1, <2>2, <3>1, <3>2, <3>3
    <3> QED BY <2>1, <2>3, <3>1, <3>2, <3>4, <3>5 DEF GraphIsCharged
  <2>7. FailureIsExplained'
    BY <2>1 DEF FailureIsExplained
  <2> QED BY <2>4, <2>5, <2>6, <2>7, NextHalves
<1> QED BY <1>2, <1>3 DEF AddEdge
-----------------------------------------------------------------------------
(* The later passes                                                        *)

(* The later passes leave the graph of references alone.                   *)
LEMMA PassKeepsLoop ==
  ASSUME LoopInv, Spends, UNCHANGED <<input, stopped, pending, reference, nodes, objectToNode,
                                      edges, dropped>>,
         lengths' \subseteq DOMAIN nodes, pc' \in {"passes", "done", "failed"}
  PROVE  LoopInv'
<1>1. /\ edges' \in Seq((DOMAIN nodes) \X (DOMAIN nodes)) /\ stopped' \in BOOLEAN
      /\ pc' \in Places
  BY DEF LoopInv, LoopTypes, Places
<1>2. ~Loading' /\ ~Linking' /\ pc' \notin {"read", "node"}
  BY DEF Loading, Linking
<1> QED BY <1>1, <1>2, LoopFrame

(* What the passes find at first: parts of existing nodes, of which        *)
(* nothing has been done                                                   *)
FoundForms == Forms \ {"profile", "borrowed", "base", "tint"}
FoundParts == {Part(n, pass, form, o) :
                 n \in DOMAIN nodes, pass \in PassNames, form \in FoundForms, o \in Objects}

LEMMA FoundPartsType ==
  ASSUME LoopTypes, NEW p \in FoundParts
  PROVE  /\ p \in PartRecords /\ p.node \in DOMAIN nodes /\ p.made = 0 /\ p.null = FALSE
         /\ p.under = 0 /\ PartFits(p) /\ ~Waits(p)
<1>1. PICK n \in DOMAIN nodes, pass \in PassNames, form \in FoundForms, o \in Objects :
        p = Part(n, pass, form, o)
  BY DEF FoundParts
<1>2. DOMAIN nodes \subseteq Nat
  BY LenProperties DEF LoopTypes
<1>3. /\ Stage(form) \in Stages \ {"attach", "tint"} /\ form \in Forms
      /\ form # "profile" /\ form # "borrowed"
      /\ Stage(form) = "decode" => form = "content"
      /\ Stage(form) = "share" <=> form = "named"
  BY DEF Stage, Stages, Forms, FoundForms
<1>4. /\ p.node = n /\ p.pass = pass /\ p.form = form /\ p.of = o /\ p.stage = Stage(form)
      /\ p.null = FALSE /\ p.under = 0 /\ p.made = 0
  BY <1>1 DEF Part
<1>5. p \in PartRecords
  BY <1>1, <1>2, <1>3 DEF Part, PartRecords
<1> QED BY <1>3, <1>4, <1>5 DEF PartFits, Waits

LEMMA PartsOfType ==
  ASSUME LoopTypes, NEW n \in DOMAIN nodes, NEW pass \in PassNames
  PROVE  PartsOf(n, pass) \in Seq(FoundParts)
<1> DEFINE found == document.parts[nodes[n]]
           P == {i \in DOMAIN found :
                   found[i].pass = pass /\ (pass = "scripts" => n > Len(document.roots))}
           wanted == ElementsAt(found, P)
<1>1. nodes[n] \in Objects
  BY ElementOfSeq, LenProperties DEF LoopTypes
<1>2. found \in Seq(PartSpec) /\ P \in SUBSET (DOMAIN found)
  BY <1>1, InputTypes
<1>3. \A s \in PartSpec : s.form \in FoundForms /\ s.of \in Objects
  BY DEF PartSpec, FormsOf, FoundForms, Forms
<1> HIDE DEF P
<1>4. /\ wanted \in Seq(PartSpec) /\ Len(wanted) \in Nat
      /\ DOMAIN wanted = 1..Len(wanted) /\ \A i \in 1..Len(wanted) : wanted[i] \in PartSpec
  <2>1. wanted \in Seq(PartSpec)
    BY <1>2, ElementsAtProperties DEF SelectedFrom
  <2> QED BY <2>1, LenProperties, ElementOfSeq
<1> HIDE DEF wanted
<1>5. \A form \in FoundForms, o \in Objects : Part(n, pass, form, o) \in FoundParts
  BY DEF FoundParts
<1>6. CASE pass = "contents" /\ kind(nodes[n]) = "stream"
  <2>1. "content" \in FoundForms
    BY DEF FoundForms, Forms
  <2>2. Part(n, pass, "content", nodes[n]) \in FoundParts
    BY <1>1, <1>5, <2>1
  <2>3. PartsOf(n, pass) = <<Part(n, pass, "content", nodes[n])>>
    BY <1>6 DEF PartsOf
  <2> QED BY <2>2, <2>3
<1>7. CASE ~(pass = "contents" /\ kind(nodes[n]) = "stream")
  <2>1. PartsOf(n, pass) = [i \in DOMAIN wanted |-> Part(n, pass, wanted[i].form, wanted[i].of)]
    BY <1>7 DEF PartsOf, wanted, P
  <2>2. \A i \in 1..Len(wanted) : Part(n, pass, wanted[i].form, wanted[i].of) \in FoundParts
    BY <1>3, <1>4, <1>5
  <2> QED BY <1>4, <2>1, <2>2
<1> QED BY <1>6, <1>7

LEMMA AllPartsType ==
  ASSUME LoopTypes
  PROVE  AllParts \in Seq(FoundParts)
<1> DEFINE F == FoundParts
           Of(p) == [n \in DOMAIN nodes |-> PartsOf(n, Passes[p])]
           All == [p \in DOMAIN Passes |-> FlattenSeq(Of(p))]
<1>1. Len(nodes) \in Nat /\ DOMAIN nodes = 1..Len(nodes)
  BY LenProperties DEF LoopTypes
<1>2. DOMAIN Passes = 1..5 /\ \A p \in 1..5 : Passes[p] \in PassNames
  BY DEF Passes, PassNames
<1>3. \A p \in 1..5 : \A n \in DOMAIN nodes : PartsOf(n, Passes[p]) \in Seq(F)
  BY <1>2, PartsOfType
<1> HIDE DEF F
<1>4. \A p \in 1..5 : Of(p) \in Seq(Seq(F))
  BY <1>1, <1>3
<1> HIDE DEF Of
<1>5. \A p \in 1..5 : FlattenSeq(Of(p)) \in Seq(F)
  BY <1>4, FlattenType
<1>6. All \in Seq(Seq(F))
  <2>1. 5 \in Nat
    OBVIOUS
  <2> QED BY <1>2, <1>5, <2>1
<1>7. FlattenSeq(All) \in Seq(F)
  BY <1>6, FlattenType
<1>8. AllParts = FlattenSeq(All)
  BY DEF AllParts, All, Of
<1> QED BY <1>7, <1>8 DEF F

LEMMA ResolveStreamLengthsStep ==
  ASSUME IInv, ResolveStreamLengths
  PROVE  IInv'
<1>1. /\ LoopInv /\ LaterInv /\ GraphIsCharged /\ LoopTypes
      /\ pc = "next" /\ Looping
  BY IInvHalves DEF LoopInv, ResolveStreamLengths, Looping
<1>2. /\ UNCHANGED <<document, tolerant, limit, charged, stopped, pending, reference, nodes,
                     objectToNode, edges, dropped, derived, shared, skipped>>
      /\ UNCHANGED <<input>>
      /\ pc' \in {"failed", "passes"}
  BY DEF ResolveStreamLengths, Fail, Abort, Goto, input, graph, later
<1>3. Spends
  BY <1>1, <1>2, NothingCharged
<1>4. LoopInv'
  <2>1. lengths' \subseteq DOMAIN nodes
    BY <1>1 DEF ResolveStreamLengths, Fail, Abort, graph, StreamsWithLength, LoopTypes
  <2> QED BY <1>1, <1>2, <1>3, <2>1, PassKeepsLoop
<1>5. GraphIsCharged'
  <2>1. UNCHANGED EdgeCosts /\ UNCHANGED MadeCount
    BY <1>2, EdgeCostsFrame DEF MadeCount
  <2> QED BY <1>1, <1>2, <2>1 DEF GraphIsCharged
<1>6. CASE StreamsWithLength("negative") # {} /\ Fail
  <2>1. LaterInv'
    BY <1>1, <1>2, <1>6, LoopGoesOn DEF Fail, Abort, LoopTypes
  <2>2. FailureIsExplained'
    BY <1>2, <1>6 DEF FailureIsExplained, StreamsWithLength, kind
  <2> QED BY <1>4, <1>5, <2>1, <2>2, NextHalves
<1>7. CASE parts' = AllParts /\ Goto("passes")
  <2>1. pc' = "passes"
    BY <1>7 DEF Goto
  <2>2. /\ derived' = <<>> /\ shared' = <<>> /\ skipped' = <<>>
        /\ Len(derived') \in Nat /\ DOMAIN derived' = {} /\ DOMAIN skipped' = {}
    BY <1>1, <1>2, CountsOfLoop
  <2>3. AllParts \in Seq(FoundParts)
    BY <1>1, AllPartsType
  <2>4. \A k \in DOMAIN parts' : parts'[k] \in FoundParts
    BY <1>7, <2>3, LenProperties, ElementOfSeq
  <2>5. \A k \in DOMAIN parts' :
          /\ parts'[k].node \in DOMAIN nodes' /\ parts'[k].made = 0 /\ parts'[k].null = FALSE
          /\ parts'[k].under = 0 /\ PartFits(parts'[k]) /\ ~Waits(parts'[k])
    BY <1>1, <1>2, <2>4, FoundPartsType
  <2>6. LaterTypes'
    <3>1. FoundParts \subseteq PartRecords
      BY <1>1, FoundPartsType
    <3>2. parts' \in Seq(PartRecords)
      BY <1>7, <2>3, <3>1, SeqMonotonic
    <3>3. derived' \in Seq(DerivedRecords) /\ skipped' \in Seq(PartRecords)
      BY <2>2, EmptySeq
    <3>4. ~Looping' /\ pc' # "done"
      BY <2>1 DEF Looping, Loading, Linking
    <3> QED BY <3>2, <3>3, <3>4 DEF LaterTypes
  <2>7. LaterRefs'
    <3>1. shared' \in Seq((DOMAIN nodes') \X (DOMAIN nodes'))
      BY <2>2, EmptySeq
    <3> QED BY <2>2, <2>5, <3>1 DEF LaterRefs
  <2>8. PartsInOrder'
    BY <2>5 DEF PartsInOrder
  <2>9. DerivedAreAttached' /\ LaterAreExplained'
    BY <2>2, <2>5 DEF DerivedAreAttached, LaterAreExplained, NullIsExcused
  <2>10. FailureIsExplained'
    BY <2>1 DEF FailureIsExplained
  <2> QED BY <1>4, <1>5, <2>6, <2>7, <2>8, <2>9, <2>10, NextHalves DEF LaterInv
<1> QED BY <1>6, <1>7 DEF ResolveStreamLengths

LEMMA AttachedIsNat ==
  ASSUME LoopTypes, LaterTypes, LaterRefs
  PROVE  /\ Attached \in Nat /\ EdgeCosts \in Nat
         /\ IsFiniteSet({i \in DOMAIN derived : derived[i].attached})
<1>1. Len(derived) \in Nat /\ DOMAIN derived = 1..Len(derived)
  BY LenProperties DEF LaterTypes
<1>2. IsFiniteSet(1..Len(derived))
  BY <1>1, FS_Interval
<1>3. IsFiniteSet({i \in DOMAIN derived : derived[i].attached})
  BY <1>1, <1>2, FS_Subset
<1>4. Attached \in Nat
  BY <1>3, FS_CardinalityType DEF Attached, Count
<1>5. Len(edges) \in Nat /\ Len(shared) \in Nat
  BY LenProperties DEF LoopTypes, LaterRefs
<1> QED BY <1>3, <1>4, <1>5 DEF EdgeCosts

(* A pass fails: nothing changes but the budget.                           *)
LEMMA PassFails ==
  ASSUME IInv, pc = "passes", Abort, Spends,
         charged'["nodes"] = charged["nodes"], charged'["edges"] = charged["edges"],
         \/ Short("nodes")' \/ Short("edges")'
         \/ ~tolerant /\ parts # <<>> /\ (Short("objects")' \/ ~HasValue(This.of))
  PROVE  IInv'
<1>1. /\ LoopInv /\ LaterInv /\ GraphIsCharged /\ LoopTypes
  BY IInvHalves DEF LoopInv
<1>2. /\ UNCHANGED <<document, tolerant, limit, stopped, pending, reference, nodes,
                     objectToNode, edges, lengths, dropped, parts, derived, shared, skipped>>
      /\ UNCHANGED <<input, later>>
      /\ pc' = "failed"
  BY DEF Abort, Goto, input, graph, later
<1>3. LoopInv'
  BY <1>1, <1>2, PassKeepsLoop DEF LoopTypes
<1>4. LaterInv'
  <2>1. ~Looping'
    BY <1>2 DEF Looping, Loading, Linking
  <2> QED BY <1>1, <1>2, <2>1, LaterFrame
<1>5. GraphIsCharged'
  <2>1. UNCHANGED EdgeCosts /\ UNCHANGED MadeCount
    BY <1>2, EdgeCostsFrame DEF MadeCount
  <2>2. charged["objects"] \in Nat /\ charged'["objects"] \in Nat
        /\ charged["objects"] <= charged'["objects"]
    BY <1>1, InputTypes DEF Spends
  <2>3. MadeCount \in Int
    BY <1>1, InputTypes, LenProperties DEF MadeCount, LoopTypes
  <2>4. charged'["objects"] >= MadeCount'
    BY <1>1, <2>1, <2>2, <2>3 DEF GraphIsCharged
  <2>5. MadeCount' \in Int
    BY <2>1, <2>3
  <2> QED BY <1>1, <1>2, <2>1, <2>4, <2>5 DEF GraphIsCharged
<1>6. FailureIsExplained'
  BY <1>2 DEF FailureIsExplained, HasValue, kind, This
<1> QED BY <1>3, <1>4, <1>5, <1>6, NextHalves

LEMMA EndPassesStep ==
  ASSUME IInv, EndPasses
  PROVE  IInv'
<1>1. /\ LoopInv /\ LaterInv /\ GraphIsCharged /\ LoopTypes
  BY IInvHalves DEF LoopInv
<1>2. /\ UNCHANGED <<document, tolerant, limit, charged, stopped, pending, reference, nodes,
                     objectToNode, edges, lengths, dropped, parts, derived, shared, skipped>>
      /\ UNCHANGED <<input, later>>
      /\ pc = "passes" /\ pc' = "done" /\ parts = <<>>
  BY DEF EndPasses, Proceed, Goto, input, graph, later
<1>3. Spends
  BY <1>1, <1>2, NothingCharged
<1>4. LoopInv'
  BY <1>1, <1>2, <1>3, PassKeepsLoop DEF LoopTypes
<1>5. LaterInv'
  <2>1. ~Looping'
    BY <1>2 DEF Looping, Loading, Linking
  <2> QED BY <1>1, <1>2, <1>3, <2>1, LaterFrame
<1>6. GraphIsCharged'
  <2>1. UNCHANGED EdgeCosts /\ UNCHANGED MadeCount
    BY <1>2, EdgeCostsFrame DEF MadeCount
  <2> QED BY <1>1, <1>2, <2>1 DEF GraphIsCharged
<1>7. FailureIsExplained'
  BY <1>2 DEF FailureIsExplained
<1> QED BY <1>4, <1>5, <1>6, <1>7, NextHalves

(* What remains to be done: the parts in place of the first, then the rest *)
LEMMA ContinuedParts ==
  ASSUME parts \in Seq(PartRecords), parts # <<>>, NEW first \in Seq(PartRecords),
         parts' = first \o Tail(parts)
  PROVE  /\ Len(first) \in Nat /\ DOMAIN first = 1..Len(first)
         /\ Len(parts) \in Nat /\ Len(parts) >= 1 /\ DOMAIN parts = 1..Len(parts)
         /\ This = parts[1] /\ This \in PartRecords
         /\ parts' \in Seq(PartRecords)
         /\ DOMAIN parts' = 1..(Len(first) + Len(parts) - 1)
         /\ \A k \in 1..Len(first) : parts'[k] = first[k]
         /\ \A k \in 2..Len(parts) : parts'[Len(first) + k - 1] = parts[k]
         /\ \A k \in DOMAIN parts' : \/ k \in 1..Len(first)
                                     \/ \E j \in 2..Len(parts) : k = Len(first) + j - 1
<1> DEFINE rest == Tail(parts)
           m == Len(first)
           n == Len(parts)
<1>1. /\ m \in Nat /\ DOMAIN first = 1..m /\ n \in Nat /\ n >= 1 /\ DOMAIN parts = 1..n
  BY LenProperties, EmptySeq
<1>2. /\ rest \in Seq(PartRecords) /\ Len(rest) = n - 1
      /\ \A i \in 1..(n - 1) : rest[i] = parts[i + 1]
      /\ Head(parts) = parts[1] /\ Head(parts) \in PartRecords
  BY HeadTailProperties
<1>3. /\ parts' \in Seq(PartRecords) /\ Len(parts') = m + (n - 1)
      /\ \A i \in 1..(m + (n - 1)) : parts'[i] = IF i <= m THEN first[i] ELSE rest[i - m]
  BY <1>2, ConcatProperties
<1>4. DOMAIN parts' = 1..(m + n - 1)
  BY <1>1, <1>3, LenProperties
<1> HIDE DEF rest, m, n
<1>5. \A k \in 1..m : parts'[k] = first[k]
  BY <1>1, <1>3
<1>6. ASSUME NEW k \in 2..n PROVE parts'[m + k - 1] = parts[k]
  <2>1. m + k - 1 \in 1..(m + (n - 1)) /\ ~(m + k - 1 <= m) /\ (m + k - 1) - m = k - 1
        /\ k - 1 \in 1..(n - 1) /\ (k - 1) + 1 = k
    BY <1>1
  <2> QED BY <1>2, <1>3, <2>1
<1>7. ASSUME NEW k \in 1..(m + n - 1), k \notin 1..m
      PROVE  \E j \in 2..n : k = m + j - 1
  <2>1. k - m + 1 \in 2..n /\ k = m + (k - m + 1) - 1
    BY <1>1, <1>7
  <2> QED BY <2>1
<1> QED BY <1>1, <1>2, <1>3, <1>4, <1>5, <1>6, <1>7 DEF This, m, n

(* What a step that continues with other parts in place of the first may   *)
(* put there, and do to the nodes that have been made                      *)
FirstFits(first) ==
  \A k \in 1..Len(first) :
    /\ PartFits(first[k])
    /\ first[k].node \in DOMAIN nodes /\ first[k].made \in 0..Len(derived')
    /\ first[k].form = "named" => This.form = "named"
    /\ Waits(first[k]) =>
         /\ first[k].made > Len(derived) \/ first[k].made = This.made
         /\ NodeFits(first[k], derived'[first[k].made])
         /\ This.form # "named"
         /\ \A l \in 1..Len(first) : first[l].made = first[k].made => k = l
    /\ first[k].under # 0 =>
         \/ first[k].under = This.under
         \/ \E l \in 1..Len(first) : l > k /\ first[l].made = first[k].under

DerivedGoOn(first) ==
  /\ \A k \in 2..Len(parts) : Waits(parts[k]) =>
       derived'[parts[k].made] = derived[parts[k].made]
  /\ \A i \in DOMAIN derived' :
       \/ derived'[i].attached
       \/ \E k \in 1..Len(first) : first[k].made = i
       \/ i \in DOMAIN derived /\ i # This.made /\ derived'[i] = derived[i]
       \/ Abandoned(i)'
  /\ \A i \in DOMAIN derived :
       Short("edges") /\ ~derived[i].attached => ~derived'[i].attached

RecordsExplained(first) ==
  /\ \A k \in 1..Len(first) : NullIsExcused(first[k].null, first[k].of)'
  /\ \A i \in DOMAIN skipped' : PartExcused(skipped[i])'
  /\ \A i \in DOMAIN derived' : NullIsExcused(derived[i].null, derived[i].of)'

(* A node that was left behind remains so.                                 *)
LEMMA AbandonedRemain ==
  ASSUME LoopTypes, Spends, UNCHANGED <<input, nodes, objectToNode>>, stopped => stopped',
         derived \in Seq(DerivedRecords),
         \A j \in DOMAIN derived :
           Short("edges") /\ ~derived[j].attached => ~derived'[j].attached,
         NEW i \in DOMAIN derived, derived'[i] = derived[i], Abandoned(i)
  PROVE  Abandoned(i)'
<1>1. (Short("nodes") => Short("nodes")') /\ (Short("edges") => Short("edges")')
  BY ReasonsRemain DEF Charges
<1>2. CASE derived[i].form = "tinted" /\ Short("nodes")
  BY <1>1, <1>2 DEF Abandoned
<1>3. CASE /\ derived[i].under \in 1..(i - 1)
           /\ ~derived[derived[i].under].attached
           /\ Short("edges")
  <2>1. Len(derived) \in Nat /\ DOMAIN derived = 1..Len(derived)
    BY LenProperties
  <2>2. derived[i].under \in DOMAIN derived
    BY <1>3, <2>1
  <2>3. ~derived'[derived[i].under].attached
    BY <1>3, <2>2
  <2> QED BY <1>1, <1>3, <2>3 DEF Abandoned
<1> QED BY <1>2, <1>3 DEF Abandoned

(* A step that replaces the first part by others, and may make or attach a *)
(* node                                                                    *)
LEMMA ContinueKeepsLater ==
  ASSUME LoopTypes, LaterInv, Spends, pc = "passes", pc' = "passes",
         UNCHANGED <<input, stopped, nodes, objectToNode, shared>>,
         parts # <<>>, NEW first \in Seq(PartRecords), parts' = first \o Tail(parts),
         derived' \in Seq(DerivedRecords), Len(derived) <= Len(derived'),
         skipped' \in Seq(PartRecords),
         FirstFits(first), DerivedGoOn(first), RecordsExplained(first)
  PROVE  LaterInv'
<1> DEFINE m == Len(first)
           n == Len(parts)
<1>1. /\ LaterTypes /\ LaterRefs /\ PartsInOrder /\ DerivedAreAttached /\ LaterAreExplained
      /\ UNCHANGED <<document, tolerant, limit, nodes, objectToNode, stopped>>
      /\ parts \in Seq(PartRecords)
  BY DEF LaterInv, input, LaterTypes
<1>2. /\ m \in Nat /\ DOMAIN first = 1..m /\ n \in Nat /\ n >= 1 /\ DOMAIN parts = 1..n
      /\ This = parts[1] /\ This \in PartRecords
      /\ parts' \in Seq(PartRecords) /\ DOMAIN parts' = 1..(m + n - 1)
  BY <1>1, ContinuedParts
<1>3. \A k \in 1..m : parts'[k] = first[k]
  BY <1>1, ContinuedParts
<1>4. \A k \in 2..n : parts'[m + k - 1] = parts[k]
  BY <1>1, ContinuedParts
<1>5. \A k \in DOMAIN parts' : k \in 1..m \/ \E j \in 2..n : k = m + j - 1
  BY <1>1, ContinuedParts
<1> HIDE DEF m, n
<1>6. \A k \in DOMAIN parts : /\ PartFits(parts[k])
                              /\ Waits(parts[k]) => NodeFits(parts[k], derived[parts[k].made])
  BY <1>1 DEF PartsInOrder
<1>7. \A k \in DOMAIN parts : Waits(parts[k]) => \A j \in 1..k : parts[j].form # "named"
  BY <1>1 DEF PartsInOrder
<1>8. \A k \in DOMAIN parts : parts[k].under # 0 =>
        \E l \in DOMAIN parts : l > k /\ parts[l].made = parts[k].under
  BY <1>1 DEF PartsInOrder
<1>9. \A k, l \in DOMAIN parts : Waits(parts[k]) /\ parts[l].made = parts[k].made => k = l
  BY <1>1 DEF PartsInOrder
<1>10. \A k \in 1..m : /\ PartFits(first[k])
                       /\ first[k].node \in DOMAIN nodes /\ first[k].made \in 0..Len(derived')
                       /\ first[k].form = "named" => This.form = "named"
  BY DEF m, FirstFits
<1>11. \A k \in 1..m : Waits(first[k]) =>
         /\ first[k].made > Len(derived) \/ first[k].made = This.made
         /\ NodeFits(first[k], derived'[first[k].made])
         /\ This.form # "named"
  BY DEF m, FirstFits
<1>12. \A k, l \in 1..m : Waits(first[k]) /\ first[l].made = first[k].made => k = l
  BY DEF m, FirstFits
<1>13. \A k \in 1..m : first[k].under # 0 =>
         \/ first[k].under = This.under
         \/ \E l \in 1..m : l > k /\ first[l].made = first[k].under
  BY DEF m, FirstFits
<1>14. \A j \in 2..n : Waits(parts[j]) => derived'[parts[j].made] = derived[parts[j].made]
  BY DEF n, DerivedGoOn
<1>15. \A i \in DOMAIN derived' :
         \/ derived'[i].attached
         \/ \E k \in 1..m : first[k].made = i
         \/ i \in DOMAIN derived /\ i # This.made /\ derived'[i] = derived[i]
         \/ Abandoned(i)'
  BY DEF m, DerivedGoOn
<1>16. \A i \in DOMAIN derived :
         Short("edges") /\ ~derived[i].attached => ~derived'[i].attached
  BY DEF DerivedGoOn
<1>17. /\ Len(derived) \in Nat /\ Len(derived') \in Nat
       /\ DOMAIN derived = 1..Len(derived) /\ DOMAIN derived' = 1..Len(derived')
  BY <1>1, LenProperties DEF LaterTypes
<1>18. \A j \in 1..n : /\ parts[j] \in PartRecords /\ parts[j].node \in DOMAIN nodes
                       /\ parts[j].made \in 0..Len(derived)
  BY <1>1, <1>2, ElementOfSeq DEF LaterRefs, n
<1>19. LaterTypes'
  <2>1. ~Looping' /\ pc' # "done"
    BY DEF Looping, Loading, Linking
  <2> QED BY <1>2, <2>1 DEF LaterTypes
<1>20. LaterRefs'
  <2>1. ASSUME NEW k \in DOMAIN parts'
        PROVE  parts'[k].node \in DOMAIN nodes' /\ parts'[k].made \in 0..Len(derived')
    <3>1. CASE k \in 1..m
      <4>1. parts'[k] = first[k]
        BY <1>3, <3>1
      <4>2. first[k].node \in DOMAIN nodes /\ first[k].made \in 0..Len(derived')
        BY <1>10, <3>1
      <4> QED BY <1>1, <4>1, <4>2
    <3>2. CASE \E j \in 2..n : k = m + j - 1
      <4>1. PICK j \in 2..n : k = m + j - 1
        BY <3>2
      <4>2. parts'[k] = parts[j] /\ j \in 1..n
        BY <1>4, <4>1
      <4>3. parts[j].node \in DOMAIN nodes /\ parts[j].made \in 0..Len(derived)
        BY <1>18, <4>2
      <4>4. parts[j].made \in 0..Len(derived')
        BY <1>17, <4>3
      <4> QED BY <1>1, <4>2, <4>3, <4>4
    <3> QED BY <1>5, <3>1, <3>2
  <2> QED BY <1>1, <2>1 DEF LaterRefs
<1>21. ASSUME NEW l \in DOMAIN parts, l > 1
       PROVE  /\ l \in 2..n /\ m + l - 1 \in DOMAIN parts'
              /\ parts'[m + l - 1] = parts[l] /\ m + l - 1 > m
  <2>1. l \in 2..n
    BY <1>2, <1>21
  <2>2. m + l - 1 \in DOMAIN parts' /\ m + l - 1 > m
    BY <1>2, <2>1
  <2> QED BY <1>4, <2>1, <2>2
<1>22. ASSUME NEW k \in 1..m
       PROVE  /\ parts'[k] = first[k] /\ k \in DOMAIN parts'
              /\ Waits(first[k]) => \A j \in 1..k : parts'[j].form # "named"
              /\ first[k].under # 0 =>
                   \E l \in DOMAIN parts' : l > k /\ parts'[l].made = first[k].under
  <2>1. parts'[k] = first[k] /\ k \in DOMAIN parts' /\ \A j \in 1..k : j \in 1..m
    BY <1>2, <1>3
  <2>2. Waits(first[k]) => \A j \in 1..k : parts'[j].form # "named"
    BY <1>11, <1>3, <1>10, <2>1
  <2>3. ASSUME first[k].under # 0, first[k].under = This.under
        PROVE  \E l \in DOMAIN parts' : l > k /\ parts'[l].made = first[k].under
    <3>1. PICK l \in DOMAIN parts : l > 1 /\ parts[l].made = first[k].under
      BY <1>2, <1>8, <2>3
    <3>2. m + l - 1 \in DOMAIN parts' /\ parts'[m + l - 1] = parts[l] /\ m + l - 1 > m
      BY <1>21, <3>1
    <3>3. m + l - 1 > k
      BY <1>2, <3>2
    <3> QED BY <3>1, <3>2, <3>3
  <2>4. ASSUME NEW l \in 1..m, l > k, first[l].made = first[k].under
        PROVE  \E i \in DOMAIN parts' : i > k /\ parts'[i].made = first[k].under
    <3>1. l \in DOMAIN parts' /\ parts'[l] = first[l]
      BY <1>2, <1>3
    <3> QED BY <2>4, <3>1
  <2> QED BY <1>13, <2>1, <2>2, <2>3, <2>4
<1>23. ASSUME NEW j \in 2..n
       PROVE  /\ parts'[m + j - 1] = parts[j] /\ m + j - 1 \in DOMAIN parts' /\ j \in DOMAIN parts
              /\ Waits(parts[j]) => \A i \in 1..(m + j - 1) : parts'[i].form # "named"
              /\ parts[j].under # 0 =>
                   \E l \in DOMAIN parts' : l > m + j - 1 /\ parts'[l].made = parts[j].under
  <2>1. parts'[m + j - 1] = parts[j] /\ m + j - 1 \in DOMAIN parts' /\ j \in DOMAIN parts
    BY <1>2, <1>4
  <2>2. ASSUME Waits(parts[j]), NEW i \in 1..(m + j - 1)
        PROVE  parts'[i].form # "named"
    <3>1. \A h \in 1..j : parts[h].form # "named"
      BY <1>7, <2>1, <2>2
    <3>2. i \in DOMAIN parts' /\ This.form # "named"
      BY <1>2, <3>1
    <3>3. CASE i \in 1..m
      BY <1>3, <1>10, <3>2, <3>3
    <3>4. CASE \E h \in 2..n : i = m + h - 1
      <4>1. PICK h \in 2..n : i = m + h - 1
        BY <3>4
      <4>2. h \in 1..j /\ parts'[i] = parts[h]
        BY <1>2, <1>4, <4>1
      <4> QED BY <3>1, <4>2
    <3> QED BY <1>5, <3>2, <3>3, <3>4
  <2>3. ASSUME parts[j].under # 0
        PROVE  \E l \in DOMAIN parts' : l > m + j - 1 /\ parts'[l].made = parts[j].under
    <3>1. PICK l \in DOMAIN parts : l > j /\ parts[l].made = parts[j].under
      BY <1>8, <2>1, <2>3
    <3>2. l > 1 /\ m + l - 1 > m + j - 1
      BY <1>2, <3>1
    <3>3. m + l - 1 \in DOMAIN parts' /\ parts'[m + l - 1] = parts[l]
      BY <1>21, <3>1, <3>2
    <3> QED BY <3>1, <3>2, <3>3
  <2> QED BY <2>1, <2>2, <2>3
<1>24. PartsInOrder'
  <2>1. ASSUME NEW k \in DOMAIN parts'
        PROVE  /\ PartFits(parts'[k])
               /\ Waits(parts'[k]) => /\ NodeFits(parts'[k], derived'[parts'[k].made])
                                      /\ \A j \in 1..k : parts'[j].form # "named"
               /\ parts'[k].under # 0 =>
                    \E l \in DOMAIN parts' : l > k /\ parts'[l].made = parts'[k].under
    <3>1. CASE k \in 1..m
      <4>1. /\ parts'[k] = first[k]
            /\ Waits(first[k]) => \A j \in 1..k : parts'[j].form # "named"
            /\ first[k].under # 0 =>
                 \E l \in DOMAIN parts' : l > k /\ parts'[l].made = first[k].under
        BY <1>22, <3>1
      <4>2. /\ PartFits(first[k])
            /\ Waits(first[k]) => NodeFits(first[k], derived'[first[k].made])
        BY <1>10, <1>11, <3>1
      <4> QED BY <4>1, <4>2
    <3>2. CASE \E j \in 2..n : k = m + j - 1
      <4>1. PICK j \in 2..n : k = m + j - 1
        BY <3>2
      <4>2. /\ parts'[k] = parts[j] /\ j \in DOMAIN parts
            /\ Waits(parts[j]) => \A i \in 1..k : parts'[i].form # "named"
            /\ parts[j].under # 0 =>
                 \E l \in DOMAIN parts' : l > k /\ parts'[l].made = parts[j].under
        BY <1>23, <4>1
      <4>3. /\ PartFits(parts[j])
            /\ Waits(parts[j]) => NodeFits(parts[j], derived[parts[j].made])
        BY <1>6, <4>2
      <4>4. Waits(parts[j]) => derived'[parts[j].made] = derived[parts[j].made]
        BY <1>14, <4>1
      <4> QED BY <4>2, <4>3, <4>4
    <3> QED BY <1>5, <3>1, <3>2
  <2>2. ASSUME NEW k \in DOMAIN parts', NEW l \in DOMAIN parts',
               Waits(parts'[k]), parts'[l].made = parts'[k].made
        PROVE  k = l
    <3>1. Waits(parts'[l])
      <4>1. \A i \in DOMAIN parts' : Waits(parts'[i]) <=> parts'[i].made # 0
        BY <2>1 DEF PartFits
      <4> QED BY <2>2, <4>1
    <3>2. CASE k \in 1..m /\ l \in 1..m
      BY <1>12, <1>3, <2>2, <3>2
    <3>3. ASSUME NEW i \in 1..m, NEW j \in 2..n, Waits(first[i])
          PROVE  first[i].made # parts[j].made
      <4>1. parts[j].made \in Nat /\ parts[j].made <= Len(derived) /\ j \in 1..n /\ j # 1
        <5>1. j \in 1..n /\ j # 1
          BY <1>2
        <5> QED BY <1>17, <1>18, <5>1
      <4>2. CASE first[i].made > Len(derived)
        BY <1>17, <4>1, <4>2
      <4>3. CASE first[i].made = This.made
        <5>1. first[i].made # 0
          BY <1>10, <3>3 DEF PartFits
        <5>2. 1 \in DOMAIN parts /\ j \in DOMAIN parts
          BY <1>2, <4>1
        <5>3. PartFits(This)
          BY <1>2, <1>6, <5>2
        <5>4. Waits(This)
          BY <4>3, <5>1, <5>3 DEF PartFits
        <5> QED BY <1>2, <1>9, <4>1, <4>3, <5>2, <5>4
      <4> QED BY <1>11, <3>3, <4>2, <4>3
    <3>4. CASE k \in 1..m /\ \E j \in 2..n : l = m + j - 1
      <4>1. PICK j \in 2..n : l = m + j - 1
        BY <3>4
      <4>2. parts'[l] = parts[j] /\ parts'[k] = first[k]
        BY <1>3, <1>4, <3>4, <4>1
      <4> QED BY <2>2, <3>3, <3>4, <4>2
    <3>5. CASE l \in 1..m /\ \E j \in 2..n : k = m + j - 1
      <4>1. PICK j \in 2..n : k = m + j - 1
        BY <3>5
      <4>2. parts'[k] = parts[j] /\ parts'[l] = first[l]
        BY <1>3, <1>4, <3>5, <4>1
      <4> QED BY <2>2, <3>1, <3>3, <3>5, <4>2
    <3>6. ASSUME NEW i \in 2..n, NEW j \in 2..n, k = m + i - 1, l = m + j - 1
          PROVE  k = l
      <4>1. Waits(parts[i]) /\ parts[j].made = parts[i].made
            /\ i \in DOMAIN parts /\ j \in DOMAIN parts
        <5>1. parts'[k] = parts[i] /\ parts'[l] = parts[j]
          BY <1>4, <3>6
        <5>2. i \in DOMAIN parts /\ j \in DOMAIN parts
          BY <1>2
        <5> QED BY <2>2, <5>1, <5>2
      <4>2. i = j
        BY <1>9, <4>1
      <4> QED BY <3>6, <4>2
    <3> QED BY <1>5, <3>2, <3>4, <3>5, <3>6
  <2> QED BY <2>1, <2>2 DEF PartsInOrder
<1>25. DerivedAreAttached'
  <2>1. ASSUME NEW i \in DOMAIN derived'
        PROVE  \/ derived'[i].attached
               \/ \E k \in DOMAIN parts' : parts'[k].made = i
               \/ Abandoned(i)'
    <3>1. CASE \E k \in 1..m : first[k].made = i
      BY <1>22, <3>1
    <3>2. CASE i \in DOMAIN derived /\ i # This.made /\ derived'[i] = derived[i]
      <4>1. CASE \E k \in DOMAIN parts : parts[k].made = i
        <5>1. PICK k \in 2..n : parts[k].made = i
          <6>1. PICK k \in DOMAIN parts : parts[k].made = i
            BY <4>1
          <6>2. k # 1
            BY <1>2, <3>2, <6>1
          <6> QED BY <1>2, <6>1, <6>2
        <5> QED BY <1>23, <5>1
      <4>2. CASE Abandoned(i)
        <5>1. derived \in Seq(DerivedRecords)
          BY <1>1 DEF LaterTypes
        <5> QED BY <1>1, <1>16, <3>2, <4>2, <5>1, AbandonedRemain
      <4> QED BY <1>1, <3>2, <4>1, <4>2 DEF DerivedAreAttached
    <3> QED BY <1>15, <3>1, <3>2
  <2> QED BY <2>1 DEF DerivedAreAttached
<1>26. LaterAreExplained'
  <2>1. ASSUME NEW k \in DOMAIN parts' PROVE NullIsExcused(parts[k].null, parts[k].of)'
    <3>1. CASE k \in 1..m
      <4>1. NullIsExcused(first[k].null, first[k].of)'
        BY <3>1 DEF m, RecordsExplained
      <4>2. parts'[k] = first[k]
        BY <1>3, <3>1
      <4> QED BY <4>1, <4>2 DEF NullIsExcused
    <3>2. CASE \E j \in 2..n : k = m + j - 1
      <4>1. PICK j \in 2..n : k = m + j - 1
        BY <3>2
      <4>2. NullIsExcused(parts[j].null, parts[j].of)
        BY <1>1, <1>23, <4>1 DEF LaterAreExplained
      <4>3. parts'[k] = parts[j]
        BY <1>23, <4>1
      <4>4. (Short("objects") => Short("objects")') /\ \A o : HasValue(o)' = HasValue(o)
        BY <1>1, ReasonsRemain DEF Charges
      <4> QED BY <1>1, <4>2, <4>3, <4>4 DEF NullIsExcused
    <3> QED BY <1>5, <3>1, <3>2
  <2> QED BY <2>1 DEF LaterAreExplained, RecordsExplained
<1> QED BY <1>19, <1>20, <1>24, <1>25, <1>26 DEF LaterInv

LEMMA ContinueStep ==
  ASSUME IInv, pc = "passes", parts # <<>>, Spends, UNCHANGED shared,
         NEW first \in Seq(PartRecords), Continue(first),
         derived' \in Seq(DerivedRecords), Len(derived) <= Len(derived'),
         skipped' \in Seq(PartRecords),
         FirstFits(first), DerivedGoOn(first), RecordsExplained(first),
         charged'["nodes"] = charged["nodes"] + (Len(derived') - Len(derived)),
         charged'["edges"] = charged["edges"] + (Attached' - Attached),
         Attached' \in Nat
  PROVE  IInv'
<1>1. /\ LoopInv /\ LaterInv /\ GraphIsCharged /\ LoopTypes /\ LaterTypes /\ LaterRefs
  BY IInvHalves DEF LoopInv, LaterInv
<1>2. /\ UNCHANGED <<document, tolerant, limit, stopped, pending, reference, nodes,
                     objectToNode, edges, lengths, dropped, shared>>
      /\ UNCHANGED input
      /\ pc' = "passes" /\ parts' = first \o Tail(parts)
  BY DEF Continue, input, graph
<1>3. LoopInv'
  BY <1>1, <1>2, PassKeepsLoop DEF LoopTypes
<1>4. LaterInv'
  BY <1>1, <1>2, ContinueKeepsLater
<1>5. GraphIsCharged'
  <2>1. /\ Len(derived) \in Nat /\ Len(derived') \in Nat /\ Len(edges) \in Nat
        /\ Len(shared) \in Nat /\ Attached \in Nat /\ MadeCount \in Int
        /\ charged["objects"] \in Nat /\ charged'["objects"] \in Nat
        /\ charged["objects"] <= charged'["objects"]
    <3>1. Len(derived) \in Nat /\ Len(derived') \in Nat /\ Len(edges) \in Nat
          /\ Len(shared) \in Nat /\ Len(nodes) \in Nat
      BY <1>1, LenProperties DEF LaterTypes, LaterRefs, LoopTypes
    <3>2. Len(document.roots) \in Nat /\ charged["objects"] \in Nat
      BY <1>1, InputTypes, LenProperties
    <3>3. charged'["objects"] \in Nat /\ charged["objects"] <= charged'["objects"]
      BY <1>1, InputTypes DEF Spends
    <3>4. Attached \in Nat
      BY <1>1, AttachedIsNat
    <3> QED BY <3>1, <3>2, <3>3, <3>4 DEF MadeCount
  <2>2. MadeCount' = MadeCount /\ EdgeCosts' = 2 * Len(edges) + Attached' + Len(shared)
    BY <1>2 DEF MadeCount, EdgeCosts
  <2>3. /\ charged["nodes"] = MadeCount + Len(derived)
        /\ charged["edges"] = 2 * Len(edges) + Attached + Len(shared)
        /\ charged["objects"] >= MadeCount
    BY <1>1, <2>1 DEF GraphIsCharged, EdgeCosts
  <2>4. /\ charged'["nodes"] = MadeCount' + Len(derived')
        /\ charged'["edges"] = EdgeCosts'
        /\ charged'["objects"] >= MadeCount'
        /\ EdgeCosts' \in Nat /\ MadeCount' \in Int
    <3>1. charged'["nodes"] = MadeCount' + Len(derived')
      BY <2>1, <2>2, <2>3
    <3>2. charged'["edges"] = 2 * Len(edges) + Attached' + Len(shared)
          /\ 2 * Len(edges) + Attached' + Len(shared) \in Nat
      <4>1. PICK n \in Nat, a \in Nat, b \in Nat, k \in Nat :
              n = Len(edges) /\ a = Attached /\ b = Attached' /\ k = Len(shared)
        BY <2>1
      <4>2. charged["edges"] = 2 * n + a + k
        BY <2>3, <4>1
      <4>3. charged'["edges"] = charged["edges"] + (b - a)
        BY <4>1
      <4>4. charged'["edges"] = 2 * n + b + k /\ 2 * n + b + k \in Nat
        BY <4>2, <4>3
      <4> QED BY <4>1, <4>4
    <3>3. charged'["objects"] >= MadeCount
      BY <2>1, <2>3, SMTT(60)
    <3> QED BY <2>1, <2>2, <3>1, <3>2, <3>3
  <2> QED BY <1>2, <2>1, <2>4, SMTT(60) DEF GraphIsCharged
<1>6. FailureIsExplained'
  BY <1>2 DEF FailureIsExplained
<1> QED BY <1>3, <1>4, <1>5, <1>6, NextHalves

(* When the part that is given up has a node, the node is left behind for  *)
(* one of the two reasons.                                                 *)
LeftBehind ==
  \/ ~Waits(This)
  \/ This.stage = "tint" /\ Short("nodes")'
  \/ This.under # 0 /\ Short("edges")'

(* A step that neither makes nor attaches a node                           *)
LEMMA QuietStep ==
  ASSUME IInv, pc = "passes", parts # <<>>, Spends, UNCHANGED <<derived, shared>>,
         NEW first \in Seq(PartRecords), Continue(first),
         charged'["nodes"] = charged["nodes"], charged'["edges"] = charged["edges"],
         LeftBehind,
         \A k \in 1..Len(first) :
           /\ first[k].node = This.node /\ first[k].made = 0 /\ first[k].form = This.form
           /\ first[k].under = This.under /\ PartFits(first[k]) /\ ~Waits(first[k])
           /\ NullIsExcused(first[k].null, first[k].of)',
         \/ skipped' = skipped
         \/ \E p \in PartRecords : skipped' = Append(skipped, p) /\ PartExcused(p)'
  PROVE  IInv'
<1>1. /\ LoopTypes /\ LaterInv /\ LaterTypes /\ LaterRefs /\ PartsInOrder /\ DerivedAreAttached
      /\ LaterAreExplained
  BY IInvHalves DEF LoopInv, LaterInv
<1>2. /\ UNCHANGED <<document, tolerant, limit, stopped, nodes, objectToNode>>
      /\ UNCHANGED input
  BY DEF Continue, input, graph
<1>3. /\ Len(derived) \in Nat /\ DOMAIN derived = 1..Len(derived)
      /\ This = parts[1] /\ 1 \in DOMAIN parts /\ This \in PartRecords
      /\ This.node \in DOMAIN nodes
  <2>1. parts \in Seq(PartRecords)
    BY <1>1 DEF LaterTypes
  <2>2. This = parts[1] /\ 1 \in DOMAIN parts /\ This \in PartRecords
    BY <2>1, HeadTailProperties, LenProperties, EmptySeq DEF This
  <2> QED BY <1>1, <2>2, LenProperties DEF LaterTypes, LaterRefs
<1>4. FirstFits(first)
  BY <1>3 DEF FirstFits
<1>5. DerivedGoOn(first)
  <2>1. PartFits(This) /\ (Waits(This) => NodeFits(This, derived[This.made]))
    BY <1>1, <1>3 DEF PartsInOrder
  <2>2. ASSUME NEW m, m = This.made, m # 0 PROVE Abandoned(m)'
    <3>1. Waits(This) /\ m \in 1..Len(derived) /\ derived'[m] = derived[m]
      BY <1>1, <1>3, <2>1, <2>2 DEF PartFits, LaterRefs
    <3>2. derived[m].form = This.form /\ derived[m].under = This.under /\ This.under < m
      BY <2>1, <2>2, <3>1 DEF NodeFits
    <3>3. CASE This.stage = "tint" /\ Short("nodes")'
      BY <2>1, <3>1, <3>2, <3>3 DEF PartFits, Abandoned
    <3>4. CASE This.under # 0 /\ Short("edges")'
      <4>1. derived[m].under \in 1..(m - 1)
        BY <1>3, <3>1, <3>2, <3>4 DEF PartRecords
      <4>2. PICK l \in DOMAIN parts : parts[l].made = This.under
        BY <1>1, <1>3, <3>4 DEF PartsInOrder
      <4>3. Waits(parts[l])
        BY <1>1, <3>4, <4>2 DEF PartsInOrder, PartFits
      <4>4. ~derived[This.under].attached
        BY <1>1, <4>2, <4>3 DEF PartsInOrder, NodeFits
      <4> QED BY <3>1, <3>2, <3>4, <4>1, <4>4 DEF Abandoned
    <3> QED BY <3>1, <3>3, <3>4 DEF LeftBehind
  <2>3. PICK m : m = This.made
    OBVIOUS
  <2>4. ASSUME NEW i \in DOMAIN derived'
        PROVE  \/ i \in DOMAIN derived /\ i # This.made /\ derived'[i] = derived[i]
               \/ Abandoned(i)'
    <3>1. i # 0 /\ i \in DOMAIN derived /\ derived'[i] = derived[i]
      BY <1>3
    <3>2. CASE i = m
      BY <2>2, <2>3, <3>1, <3>2
    <3> QED BY <2>3, <3>1, <3>2
  <2> QED BY <2>4 DEF DerivedGoOn
<1>6. RecordsExplained(first) /\ skipped' \in Seq(PartRecords)
  <2>1. \A i \in DOMAIN derived' : NullIsExcused(derived[i].null, derived[i].of)'
    BY <1>1, <1>2, ReasonsRemain DEF LaterAreExplained
  <2>2. \A p : PartExcused(p) => PartExcused(p)'
    BY <1>1, <1>2, PartStaysExcused
  <2>3. skipped \in Seq(PartRecords) /\ \A i \in DOMAIN skipped : PartExcused(skipped[i])
    BY <1>1 DEF LaterAreExplained, LaterTypes
  <2>4. CASE skipped' = skipped
    BY <2>1, <2>2, <2>3, <2>4 DEF RecordsExplained
  <2>5. ASSUME NEW p \in PartRecords, skipped' = Append(skipped, p), PartExcused(p)'
        PROVE  RecordsExplained(first) /\ skipped' \in Seq(PartRecords)
    <3>1. /\ skipped' \in Seq(PartRecords)
          /\ \A i \in DOMAIN skipped' : \/ i \in DOMAIN skipped /\ skipped'[i] = skipped[i]
                                        \/ skipped'[i] = p
      BY <2>3, <2>5, AppendProperties, LenProperties
    <3>2. \A i \in DOMAIN skipped' : PartExcused(skipped[i])'
      BY <2>2, <2>3, <2>5, <3>1
    <3> QED BY <2>1, <3>1, <3>2 DEF RecordsExplained
  <2> QED BY <2>4, <2>5
<1>7. Attached' = Attached /\ Attached \in Nat
  BY <1>1, AttachedIsNat DEF Attached, Count
<1>8. /\ charged'["nodes"] = charged["nodes"] + (Len(derived') - Len(derived))
      /\ charged'["edges"] = charged["edges"] + (Attached' - Attached)
      /\ derived' \in Seq(DerivedRecords) /\ Len(derived) <= Len(derived')
  BY <1>1, <1>3, <1>7, InputTypes DEF LaterTypes
<1> QED BY <1>4, <1>5, <1>6, <1>7, <1>8, ContinueStep

LEMMA ThisPart ==
  ASSUME IInv, pc = "passes", parts # <<>>
  PROVE  /\ LoopTypes /\ This \in PartRecords /\ This.node \in DOMAIN nodes
         /\ This = parts[1] /\ 1 \in DOMAIN parts
         /\ PartFits(This) /\ NullIsExcused(This.null, This.of)
         /\ This.stage \notin {"attach", "tint"} => This.made = 0
<1>1. LoopTypes /\ LaterTypes /\ LaterRefs /\ PartsInOrder /\ LaterAreExplained
  BY IInvHalves DEF LoopInv, LaterInv
<1>2. This = parts[1] /\ 1 \in DOMAIN parts /\ This \in PartRecords
  <2>1. parts \in Seq(PartRecords)
    BY <1>1 DEF LaterTypes
  <2> QED BY <2>1, HeadTailProperties, LenProperties, EmptySeq DEF This
<1>3. This.node \in DOMAIN nodes /\ NullIsExcused(This.null, This.of)
  BY <1>1, <1>2 DEF LaterRefs, LaterAreExplained
<1>4. PartFits(This)
  BY <1>1, <1>2 DEF PartsInOrder
<1>5. This.stage \notin {"attach", "tint"} => This.made = 0
  BY <1>4 DEF PartFits, Waits
<1> QED BY <1>1, <1>2, <1>3, <1>4, <1>5

(* A part is given up for a reason that remains.                           *)
LEMMA SkipStep ==
  ASSUME IInv, pc = "passes", parts # <<>>, Spends, Skip, PartExcused(This),
         charged'["nodes"] = charged["nodes"], charged'["edges"] = charged["edges"],
         \/ ~Waits(This)
         \/ This.stage = "tint" /\ Short("nodes")
         \/ This.under # 0 /\ Short("edges")
  PROVE  IInv'
<1>1. PICK p \in PartRecords : p = This
  BY ThisPart
<1>2. /\ LoopTypes /\ UNCHANGED <<input, limit, stopped, nodes, objectToNode, derived, shared>>
      /\ Continue(<<>>) /\ skipped' = Append(skipped, p)
  BY <1>1, ThisPart DEF Skip, Continue, graph, input
<1>3. PartExcused(p)'
  <2>1. PartExcused(p)
    BY <1>1
  <2> QED BY <1>2, <2>1, PartStaysExcused
<1>4. LeftBehind
  BY <1>2, ShortStaysShort DEF Charges, LeftBehind
<1>5. <<>> \in Seq(PartRecords) /\ 1..Len(<<>>) = {}
  BY EmptySeq
<1> QED BY <1>1, <1>2, <1>3, <1>4, <1>5, QuietStep

(* A part goes on to another stage.                                        *)
LEMMA GoOnStep ==
  ASSUME IInv, pc = "passes", parts # <<>>, Spends,
         NEW p \in PartRecords, Continue(<<p>>), UNCHANGED <<derived, shared, skipped>>,
         charged'["nodes"] = charged["nodes"], charged'["edges"] = charged["edges"],
         ~Waits(This), p.node = This.node, p.made = 0, p.form = This.form,
         p.under = This.under, PartFits(p), ~Waits(p), NullIsExcused(p.null, p.of)
  PROVE  IInv'
<1>1. LoopTypes /\ UNCHANGED <<input, stopped, nodes, objectToNode>>
  BY ThisPart DEF Continue, graph
<1>2. NullIsExcused(p.null, p.of)'
  BY <1>1, ReasonsRemain
<1>3. <<p>> \in Seq(PartRecords) /\ 1..Len(<<p>>) = {1} /\ <<p>>[1] = p
  OBVIOUS
<1> QED BY <1>1, <1>2, <1>3, QuietStep DEF LeftBehind

LEMMA PutGlobalsStep ==
  ASSUME IInv, PutGlobals
  PROVE  IInv'
<1>1. /\ pc = "passes" /\ parts # <<>> /\ This.stage = "globals" /\ LoopTypes
      /\ Charge("decoded") \/ UNCHANGED charged
      /\ Continue(<<>>) /\ UNCHANGED <<derived, shared, skipped>>
  BY ThisPart DEF PutGlobals, At
<1>2. Spends /\ charged'["nodes"] = charged["nodes"] /\ charged'["edges"] = charged["edges"]
  BY <1>1, ChargeForms, NothingCharged DEF Charges
<1>3. <<>> \in Seq(PartRecords) /\ 1..Len(<<>>) = {}
  BY EmptySeq
<1>4. LeftBehind
  BY <1>1 DEF LeftBehind, Waits
<1> QED BY <1>1, <1>2, <1>3, <1>4, QuietStep

LEMMA LoadPartStep ==
  ASSUME IInv, LoadPart
  PROVE  IInv'
<1>1. /\ pc = "passes" /\ parts # <<>> /\ This.stage = "load" /\ LoopTypes
      /\ Charge("objects") \/ UNCHANGED charged
      /\ This \in PartRecords /\ This.made = 0 /\ This.form \notin {"named", "borrowed"}
      /\ NullIsExcused(This.null, This.of) /\ ~Waits(This)
  BY ThisPart DEF LoadPart, At, PartFits, Waits
<1>2. Spends /\ charged'["nodes"] = charged["nodes"] /\ charged'["edges"] = charged["edges"]
  BY <1>1, ChargeForms, NothingCharged DEF Charges
<1>3. CASE GoOn(IF This.form = "cmap" /\ kind(This.of) = "stream" THEN "decode" ELSE "make")
  <2>1. PICK stage \in {"decode", "make"} :
          /\ stage = IF This.form = "cmap" /\ kind(This.of) = "stream" THEN "decode" ELSE "make"
          /\ stage = "decode" => This.form = "cmap"
    OBVIOUS
  <2>2. PICK p : p = [This EXCEPT !.stage = stage]
    OBVIOUS
  <2>3. /\ p \in PartRecords /\ p.stage = stage /\ p.node = This.node /\ p.made = This.made
        /\ p.form = This.form /\ p.null = This.null /\ p.of = This.of /\ p.under = This.under
    BY <1>1, <2>2 DEF PartRecords, Stages
  <2>4. NullIsExcused(p.null, p.of) /\ PartFits(p) /\ ~Waits(p)
    BY <1>1, <2>1, <2>3 DEF PartFits, Waits
  <2>5. Continue(<<p>>) /\ UNCHANGED <<derived, shared, skipped>>
    BY <1>3, <2>1, <2>2 DEF GoOn
  <2> QED BY <1>1, <1>2, <2>1, <2>3, <2>4, <2>5, GoOnStep
<1>4. ASSUME ~HasValue(This.of) \/ ~Affords("objects"), tolerant, Continue(<<[This EXCEPT !.stage = "make", !.null = TRUE]>>),
             UNCHANGED <<derived, shared, skipped>>
      PROVE  IInv'
  <2>1. PICK p : p = [This EXCEPT !.stage = "make", !.null = TRUE]
    OBVIOUS
  <2>2. /\ p \in PartRecords /\ p.stage = "make" /\ p.node = This.node /\ p.made = This.made
        /\ p.form = This.form /\ p.null = TRUE /\ p.of = This.of /\ p.under = This.under
    BY <1>1, <2>1 DEF PartRecords, Stages
  <2>3. ~HasValue(This.of) \/ Short("objects")
    BY <1>1, <1>4, RefusedIsShort DEF Charges
  <2>4. NullIsExcused(p.null, p.of) /\ PartFits(p) /\ ~Waits(p)
    BY <1>1, <1>4, <2>2, <2>3 DEF NullIsExcused, PartFits, Waits
  <2> QED BY <1>1, <1>2, <1>4, <2>1, <2>2, <2>4, GoOnStep
<1>5. ASSUME ~HasValue(This.of) \/ ~Affords("objects"), ~tolerant, Abort
      PROVE  IInv'
  <2>1. ~HasValue(This.of) \/ Short("objects")
    BY <1>1, <1>5, RefusedIsShort DEF Charges
  <2>2. Short("objects") => Short("objects")'
    BY <1>1, <1>2, <1>5, ShortStaysShort DEF Charges, Abort, input
  <2> QED BY <1>1, <1>2, <1>5, <2>1, <2>2, PassFails
<1>6. CASE \/ Charge("objects") /\ ~HasValue(This.of)
           \/ ~Affords("objects") /\ UNCHANGED charged
  <2>1. ~HasValue(This.of) \/ ~Affords("objects")
    BY <1>6
  <2>2. CASE tolerant
    BY <1>3, <1>4, <2>1, <2>2 DEF LoadPart
  <2>3. CASE ~tolerant
    BY <1>3, <1>5, <2>1, <2>3 DEF LoadPart
  <2> QED BY <2>2, <2>3
<1> QED BY <1>3, <1>6 DEF LoadPart

LEMMA DecodePartStep ==
  ASSUME IInv, DecodePart
  PROVE  IInv'
<1>1. /\ pc = "passes" /\ parts # <<>> /\ This.stage = "decode" /\ LoopTypes
      /\ Charge("decoded") \/ UNCHANGED charged
      /\ This \in PartRecords /\ This.made = 0 /\ This.form \in {"content", "cmap", "profile"}
      /\ NullIsExcused(This.null, This.of) /\ ~Waits(This)
  BY ThisPart DEF DecodePart, At, PartFits, Waits
<1>2. Spends /\ charged'["nodes"] = charged["nodes"] /\ charged'["edges"] = charged["edges"]
  BY <1>1, ChargeForms, NothingCharged DEF Charges
<1>3. PICK p : p = [This EXCEPT !.stage = "make"]
  OBVIOUS
<1>4. /\ p \in PartRecords /\ p.stage = "make" /\ p.node = This.node /\ p.made = This.made
      /\ p.form = This.form /\ p.null = This.null /\ p.of = This.of /\ p.under = This.under
  BY <1>1, <1>3 DEF PartRecords, Stages
<1>5. NullIsExcused(p.null, p.of) /\ PartFits(p) /\ ~Waits(p)
  BY <1>1, <1>4 DEF PartFits, Waits
<1>6. CASE GoOn("make")
  <2>1. Continue(<<p>>) /\ UNCHANGED <<derived, shared, skipped>>
    BY <1>3, <1>6 DEF GoOn
  <2> QED BY <1>1, <1>2, <1>4, <1>5, <2>1, GoOnStep
<1>7. ASSUME Continue([i \in 1..document.operators[This.of] |-> [This EXCEPT !.stage = "make"]]),
             UNCHANGED <<derived, shared, skipped>>
      PROVE  IInv'
  <2>1. This.of \in Objects
    BY <1>1 DEF PartRecords
  <2>2. PICK n \in Nat : n = document.operators[This.of]
    BY <1>1, <2>1, InputTypes
  <2>3. PICK first : first = [i \in 1..n |-> p]
    OBVIOUS
  <2>4. first \in Seq(PartRecords) /\ Len(first) = n /\ \A k \in 1..n : first[k] = p
    BY <1>4, <2>3
  <2>5. Continue(first)
    BY <1>3, <1>7, <2>2, <2>3
  <2>6. UNCHANGED <<input, stopped, nodes, objectToNode>>
    BY <2>5 DEF Continue, graph
  <2>7. NullIsExcused(p.null, p.of)'
    BY <1>1, <1>2, <1>5, <2>6, ReasonsRemain
  <2> QED BY <1>1, <1>2, <1>4, <1>5, <1>7, <2>4, <2>5, <2>7, QuietStep DEF LeftBehind
<1>8. ASSUME Skip, \/ This.form = "profile" /\ ~IsStreamNode(This.of)
                   \/ document.operators[This.of] = 0
                   \/ ~Affords("decoded")
      PROVE  IInv'
  <2>1. PartExcused(This)
    BY <1>1, <1>8, RefusedIsShort DEF PartExcused, Charges
  <2> QED BY <1>1, <1>2, <1>8, <2>1, SkipStep
<1> QED BY <1>6, <1>7, <1>8 DEF DecodePart

LEMMA AttachPartStep ==
  ASSUME IInv, AttachPart
  PROVE  IInv'
<1>1. /\ pc = "passes" /\ parts # <<>> /\ This.stage = "attach" /\ LoopTypes
      /\ This \in PartRecords /\ This.made # 0 /\ This = parts[1] /\ 1 \in DOMAIN parts
      /\ Waits(This)
      /\ LaterTypes /\ LaterRefs /\ PartsInOrder /\ LaterAreExplained
      /\ "edges" \in Charges
  BY ThisPart, IInvHalves DEF AttachPart, At, LaterInv, Charges, PartFits, Waits
<1>2. ASSUME Charge("edges"), Continue(<<>>),
             derived' = [derived EXCEPT ![This.made].attached = TRUE],
             UNCHANGED <<shared, skipped>>
      PROVE  IInv'
  <2>1. /\ Spends /\ ~Short("edges") /\ charged'["edges"] = charged["edges"] + 1
        /\ charged'["nodes"] = charged["nodes"]
    <3>1. Affords("edges")
      BY <1>2 DEF Charge
    <3> QED BY <1>1, <1>2, <3>1, ChargeForms, RefusedIsShort DEF Charges
  <2>2. PICK m \in DOMAIN derived : m = This.made
    <3>1. This.made \in 0..Len(derived) /\ Len(derived) \in Nat /\ DOMAIN derived = 1..Len(derived)
      BY <1>1, LenProperties DEF LaterRefs, LaterTypes
    <3> QED BY <1>1, <3>1
  <2>3. PICK d \in DerivedRecords : d = derived[m]
    BY <1>1, LenProperties, ElementOfSeq DEF LaterTypes
  <2>4. PICK e : e = [d EXCEPT !.attached = TRUE]
    OBVIOUS
  <2>5. /\ e \in DerivedRecords /\ e.attached /\ e.form = d.form /\ e.null = d.null /\ e.of = d.of
        /\ e.under = d.under
    BY <2>3, <2>4 DEF DerivedRecords
  <2>6. derived' = [derived EXCEPT ![m] = e]
    BY <1>2, <2>2, <2>3, <2>4
  <2>7. /\ derived' \in Seq(DerivedRecords) /\ Len(derived') = Len(derived)
        /\ DOMAIN derived' = DOMAIN derived /\ derived'[m] = e
        /\ \A i \in DOMAIN derived : i # m => derived'[i] = derived[i]
        /\ Len(derived) \in Nat
    BY <1>1, <2>2, <2>5, <2>6, ExceptSeq, LenProperties DEF LaterTypes
  <2>8. Attached' = Attached + 1 /\ Attached \in Nat /\ Attached' \in Nat
    <3> DEFINE A == {i \in DOMAIN derived : derived[i].attached}
    <3>1. ~derived[m].attached
      BY <1>1, <2>2 DEF PartsInOrder, NodeFits
    <3>2. {i \in DOMAIN derived' : derived'[i].attached} = A \cup {m}
      BY <2>2, <2>5, <2>7
    <3>3. IsFiniteSet(A) /\ m \notin A /\ Attached = Cardinality(A) /\ Attached \in Nat
      BY <1>1, <3>1, AttachedIsNat DEF Attached, Count
    <3>4. Attached' = Cardinality(A \cup {m})
      BY <3>2 DEF Attached, Count
    <3>5. Cardinality(A \cup {m}) = Cardinality(A) + 1
      BY <3>3, FS_AddElement
    <3> QED BY <3>3, <3>4, <3>5
  <2>9. <<>> \in Seq(PartRecords) /\ 1..Len(<<>>) = {}
    BY EmptySeq
  <2>10. DerivedGoOn(<<>>)
    <3>1. ASSUME NEW k \in 2..Len(parts), Waits(parts[k])
          PROVE  derived'[parts[k].made] = derived[parts[k].made]
      <4>1. k \in DOMAIN parts /\ k # 1
        <5>1. Len(parts) \in Nat /\ DOMAIN parts = 1..Len(parts)
          BY <1>1, LenProperties DEF LaterTypes
        <5> QED BY <5>1
      <4>2. parts[k].made # m
        BY <1>1, <2>2, <3>1, <4>1 DEF PartsInOrder
      <4>3. parts[k].made # 0
        BY <1>1, <3>1, <4>1 DEF PartsInOrder, PartFits
      <4>4. parts[k].made \in 0..Len(derived)
        BY <1>1, <4>1 DEF LaterRefs
      <4>5. parts[k].made \in DOMAIN derived
        <5>1. DOMAIN derived = 1..Len(derived)
          BY <1>1, LenProperties DEF LaterTypes
        <5> QED BY <2>7, <4>3, <4>4, <5>1
      <4> QED BY <2>7, <4>2, <4>5
    <3>2. \A i \in DOMAIN derived' :
            \/ derived'[i].attached
            \/ i \in DOMAIN derived /\ i # This.made /\ derived'[i] = derived[i]
      BY <2>2, <2>5, <2>7
    <3> QED BY <2>1, <3>1, <3>2 DEF DerivedGoOn
  <2>11. RecordsExplained(<<>>)
    <3>1. UNCHANGED <<input, stopped, nodes, objectToNode, shared, skipped>>
      BY <1>2 DEF Continue, graph
    <3>2. \A i \in DOMAIN skipped : PartExcused(skipped[i])'
      BY <1>1, <2>1, <3>1, PartStaysExcused DEF LaterAreExplained
    <3>3. \A i \in DOMAIN derived : NullIsExcused(derived[i].null, derived[i].of)
      BY <1>1 DEF LaterAreExplained
    <3>4. \A i \in DOMAIN derived' :
            derived'[i].null = derived[i].null /\ derived'[i].of = derived[i].of
      BY <2>3, <2>5, <2>7
    <3>5. /\ \A c \in Charges : Short(c) => Short(c)'
          /\ \A o : HasValue(o)' = HasValue(o)
          /\ tolerant' = tolerant
      BY <1>1, <2>1, <3>1, ReasonsRemain DEF input
    <3>6. \A i \in DOMAIN derived' : NullIsExcused(derived[i].null, derived[i].of)'
      BY <2>7, <3>3, <3>4, <3>5 DEF NullIsExcused, Charges
    <3> QED BY <2>9, <3>1, <3>2, <3>6 DEF RecordsExplained
  <2>12. FirstFits(<<>>)
    BY <2>9 DEF FirstFits
  <2>13. skipped' \in Seq(PartRecords) /\ Len(derived) <= Len(derived')
         /\ charged'["nodes"] = charged["nodes"] + (Len(derived') - Len(derived))
         /\ charged'["edges"] = charged["edges"] + (Attached' - Attached)
    <3>1. charged["nodes"] \in Nat /\ charged["edges"] \in Nat
      BY <1>1, InputTypes
    <3> QED BY <1>1, <1>2, <2>1, <2>7, <2>8, <3>1 DEF LaterTypes
  <2> QED BY <1>1, <1>2, <2>1, <2>7, <2>8, <2>9, <2>10, <2>11, <2>12, <2>13, ContinueStep
<1>3. CASE ~Affords("edges") /\ This.under # 0 /\ UNCHANGED charged /\ Skip
  <2>1. Short("edges") /\ Spends
    BY <1>1, <1>3, RefusedIsShort, NothingCharged
  <2>2. PartExcused(This)
    BY <2>1 DEF PartExcused
  <2> QED BY <1>1, <1>3, <2>1, <2>2, SkipStep
<1>4. CASE ~Affords("edges") /\ Fail
  <2>1. Short("edges") /\ Spends /\ Abort
    BY <1>1, <1>4, RefusedIsShort, NothingCharged DEF Fail
  <2>2. Short("edges")'
    BY <1>4, <2>1 DEF Short, Fail, Abort, input
  <2> QED BY <1>1, <1>4, <2>1, <2>2, PassFails DEF Fail
<1> QED BY <1>2, <1>3, <1>4 DEF AttachPart

(* A pass makes a node.                                                    *)
LEMMA DerivedNode ==
  ASSUME derived \in Seq(DerivedRecords), NEW q \in PartRecords, Derive(q)
  PROVE  /\ Len(derived) \in Nat /\ derived' \in Seq(DerivedRecords)
         /\ Len(derived') = Len(derived) + 1
         /\ DOMAIN derived = 1..Len(derived) /\ DOMAIN derived' = 1..(Len(derived) + 1)
         /\ \A i \in DOMAIN derived : derived'[i] = derived[i]
         /\ derived'[Len(derived) + 1] =
              [form |-> q.form, null |-> q.null, of |-> q.of, under |-> q.under,
               attached |-> FALSE]
<1>1. PICK d : d = [form |-> q.form, null |-> q.null, of |-> q.of, under |-> q.under,
                    attached |-> FALSE]
  OBVIOUS
<1>2. d \in DerivedRecords
  BY <1>1 DEF PartRecords, DerivedRecords
<1>3. derived' = Append(derived, d)
  BY <1>1 DEF Derive
<1>4. Len(derived) \in Nat /\ DOMAIN derived = 1..Len(derived)
  BY LenProperties
<1>5. /\ derived' \in Seq(DerivedRecords) /\ Len(derived') = Len(derived) + 1
      /\ \A i \in 1..Len(derived) : derived'[i] = derived[i]
      /\ derived'[Len(derived) + 1] = d
  BY <1>2, <1>3, AppendProperties
<1>6. DOMAIN derived' = 1..(Len(derived) + 1)
  BY <1>5, LenProperties
<1> QED BY <1>1, <1>4, <1>5, <1>6

LEMMA DeriveStep ==
  ASSUME IInv, pc = "passes", parts # <<>>, Charge("nodes"), UNCHANGED <<shared, skipped>>,
         NEW q \in PartRecords, Derive(q), NullIsExcused(q.null, q.of),
         NEW first \in Seq(PartRecords), Continue(first), FirstFits(first),
         \E k \in 1..Len(first) : first[k].made = Len(derived) + 1,
         This.made = 0 \/ \E k \in 1..Len(first) : first[k].made = This.made,
         \A k \in 1..Len(first) : NullIsExcused(first[k].null, first[k].of)
  PROVE  IInv'
<1>1. /\ LoopTypes /\ LaterTypes /\ LaterRefs /\ PartsInOrder /\ LaterAreExplained
      /\ "nodes" \in Charges
  BY IInvHalves DEF LoopInv, LaterInv, Charges
<1>2. /\ Spends /\ charged'["nodes"] = charged["nodes"] + 1
      /\ charged'["edges"] = charged["edges"]
  BY <1>1, ChargeForms DEF Charges
<1>3. PICK n \in Nat : n = Len(derived)
  BY <1>1, LenProperties DEF LaterTypes
<1>4. PICK d : d = derived'[n + 1]
  OBVIOUS
<1>5. /\ derived' \in Seq(DerivedRecords) /\ Len(derived') = n + 1
      /\ DOMAIN derived = 1..n /\ DOMAIN derived' = 1..(n + 1)
      /\ \A i \in DOMAIN derived : derived'[i] = derived[i]
      /\ ~d.attached /\ d.null = q.null /\ d.of = q.of
  <2>1. derived \in Seq(DerivedRecords)
    BY <1>1 DEF LaterTypes
  <2>2. /\ derived' \in Seq(DerivedRecords) /\ Len(derived') = Len(derived) + 1
        /\ DOMAIN derived = 1..Len(derived) /\ DOMAIN derived' = 1..(Len(derived) + 1)
        /\ \A i \in DOMAIN derived : derived'[i] = derived[i]
        /\ derived'[Len(derived) + 1] =
             [form |-> q.form, null |-> q.null, of |-> q.of, under |-> q.under,
              attached |-> FALSE]
    BY <2>1, DerivedNode
  <2>3. ~d.attached /\ d.null = q.null /\ d.of = q.of
    BY <1>3, <1>4, <2>2
  <2> QED BY <1>3, <2>2, <2>3
<1>6. Attached' = Attached /\ Attached \in Nat /\ Attached' \in Nat
  <2>1. {i \in DOMAIN derived' : derived'[i].attached} = {i \in DOMAIN derived : derived[i].attached}
    BY <1>3, <1>4, <1>5
  <2>2. Attached \in Nat
    BY <1>1, AttachedIsNat
  <2>3. Attached' = Attached
    BY <2>1 DEF Attached, Count
  <2> QED BY <2>2, <2>3
<1>7. DerivedGoOn(first)
  <2>1. ASSUME NEW k \in 2..Len(parts), Waits(parts[k])
        PROVE  derived'[parts[k].made] = derived[parts[k].made]
    <3>1. k \in DOMAIN parts
      <4>1. Len(parts) \in Nat /\ DOMAIN parts = 1..Len(parts)
        BY <1>1, LenProperties DEF LaterTypes
      <4> QED BY <4>1
    <3>2. parts[k].made # 0
      BY <1>1, <2>1, <3>1 DEF PartsInOrder, PartFits
    <3>3. parts[k].made \in 0..n
      BY <1>1, <1>3, <3>1 DEF LaterRefs
    <3>4. parts[k].made \in 1..n
      BY <3>2, <3>3
    <3> QED BY <1>5, <3>4
  <2>2. ASSUME NEW i \in DOMAIN derived'
        PROVE  \/ \E k \in 1..Len(first) : first[k].made = i
               \/ i \in DOMAIN derived /\ i # This.made /\ derived'[i] = derived[i]
    <3>1. CASE i = n + 1
      BY <1>3, <3>1
    <3>2. CASE i # n + 1
      <4>1. i \in DOMAIN derived /\ derived'[i] = derived[i] /\ i # 0
        BY <1>5, <2>2, <3>2
      <4> QED BY <4>1
    <3> QED BY <3>1, <3>2
  <2> QED BY <1>5, <2>1, <2>2 DEF DerivedGoOn
<1>8. RecordsExplained(first)
  <2>1. UNCHANGED <<input, stopped, nodes, objectToNode, shared, skipped>>
    BY DEF Continue, graph
  <2>2. \A i \in DOMAIN skipped : PartExcused(skipped[i])'
    BY <1>1, <1>2, <2>1, PartStaysExcused DEF LaterAreExplained
  <2>3. \A null, o : NullIsExcused(null, o) => NullIsExcused(null, o)'
    BY <1>1, <1>2, <2>1, ReasonsRemain
  <2>4. ASSUME NEW i \in DOMAIN derived' PROVE NullIsExcused(derived[i].null, derived[i].of)'
    <3>1. PICK null, o : null = derived'[i].null /\ o = derived'[i].of
      OBVIOUS
    <3>2. \/ null = q.null /\ o = q.of
          \/ i \in DOMAIN derived /\ null = derived[i].null /\ o = derived[i].of
      BY <1>3, <1>4, <1>5, <3>1
    <3>3. NullIsExcused(null, o)
      BY <1>1, <3>2 DEF LaterAreExplained
    <3> QED BY <2>3, <3>1, <3>3
  <2> QED BY <2>1, <2>2, <2>3, <2>4 DEF RecordsExplained
<1>9. skipped' \in Seq(PartRecords) /\ Len(derived) <= Len(derived')
      /\ charged'["nodes"] = charged["nodes"] + (Len(derived') - Len(derived))
      /\ charged'["edges"] = charged["edges"] + (Attached' - Attached)
  <2>1. charged["nodes"] \in Nat /\ charged["edges"] \in Nat
    BY <1>1, InputTypes DEF Charges
  <2> QED BY <1>1, <1>2, <1>3, <1>5, <1>6, <2>1 DEF LaterTypes
<1> QED BY <1>2, <1>5, <1>6, <1>7, <1>8, <1>9, ContinueStep

(* The parts that wait already are not of the node being made, and the     *)
(* parts below a colour space come before it.                              *)
LEMMA MakePartStep ==
  ASSUME IInv, MakePart
  PROVE  IInv'
<1>1. /\ pc = "passes" /\ parts # <<>> /\ This.stage = "make" /\ LoopTypes
      /\ This \in PartRecords /\ This.made = 0 /\ PartFits(This)
      /\ This.node \in DOMAIN nodes /\ NullIsExcused(This.null, This.of)
      /\ This = parts[1] /\ 1 \in DOMAIN parts
      /\ LaterTypes /\ LaterRefs /\ PartsInOrder
      /\ "nodes" \in Charges
  BY ThisPart, IInvHalves DEF MakePart, At, LaterInv, Charges
<1>2. This.form \notin {"named", "borrowed"} /\ ~Waits(This)
  BY <1>1 DEF PartFits, Waits
<1>3. PICK n \in Nat : n = Len(derived)
  BY <1>1, LenProperties DEF LaterTypes
<1>4. This.under \in 0..n
  <2>1. CASE This.under # 0
    <3>1. PICK l \in DOMAIN parts : parts[l].made = This.under
      BY <1>1, <2>1 DEF PartsInOrder
    <3> QED BY <1>1, <1>3, <3>1 DEF LaterRefs
  <2>2. CASE This.under = 0
    BY <2>2
  <2> QED BY <2>1, <2>2
<1> DEFINE Below(form) == [Part(This.node, This.pass, form, This.of) EXCEPT !.under = n + 1]
           Has(stage)  == [This EXCEPT !.stage = stage, !.made = n + 1]
<1>5. ASSUME Charge("nodes"), Derive(This), UNCHANGED <<shared, skipped>>,
             NEW stage \in {"attach", "tint"}, stage = "tint" => This.form = "tinted",
             NEW first \in Seq(PartRecords), Continue(first),
             \/ first = <<Has(stage)>>
             \/ first = <<Below("base"), Has(stage)>>
             \/ first = <<Below("borrowed"), Below("profile"), Has(stage)>>
      PROVE  IInv'
  <2>1. PICK p, m : p = Has(stage) /\ m \in 1..3 /\ m = Len(first)
    <3> HIDE DEF Below, Has
    <3>1. Len(first) \in 1..3
      BY <1>5
    <3> QED BY <3>1
  <2>2. /\ p.stage = stage /\ p.made = n + 1 /\ p.form = This.form /\ p.under = This.under
        /\ p.node = This.node /\ p.null = This.null /\ p.of = This.of
        /\ PartFits(p) /\ Waits(p)
    <3>1. /\ p.stage = stage /\ p.made = n + 1 /\ p.form = This.form /\ p.under = This.under
          /\ p.node = This.node /\ p.null = This.null /\ p.of = This.of
      BY <1>1, <2>1 DEF PartRecords
    <3>2. n + 1 # 0
      OBVIOUS
    <3> QED BY <1>2, <1>5, <3>1, <3>2 DEF PartFits, Waits
  <2>3. ASSUME NEW form \in {"base", "borrowed", "profile"}
        PROVE  /\ Below(form).form = form /\ Below(form).under = n + 1
               /\ Below(form).made = 0 /\ Below(form).null = FALSE
               /\ Below(form).node = This.node
               /\ PartFits(Below(form)) /\ ~Waits(Below(form))
    <3>1. /\ Stage(form) = "make" \/ Stage(form) = "share" \/ Stage(form) = "decode"
          /\ Stage(form) = "share" <=> form = "borrowed"
          /\ Stage(form) = "decode" => form = "profile"
      BY <2>3 DEF Stage
    <3>2. /\ Below(form).form = form /\ Below(form).under = n + 1
          /\ Below(form).made = 0 /\ Below(form).null = FALSE
          /\ Below(form).node = This.node /\ Below(form).stage = Stage(form)
      BY DEF Part
    <3> HIDE DEF Below
    <3> QED BY <2>3, <3>1, <3>2 DEF PartFits, Waits
  <2>4. \A k \in 1..m : \/ k = m /\ first[k] = p
                        \/ /\ k < m
                           /\ \E form \in {"base", "borrowed", "profile"} : first[k] = Below(form)
    <3> HIDE DEF Below, Has
    <3>1. CASE first = <<Has(stage)>>
      <4>1. m = 1 /\ first[1] = p
        BY <2>1, <3>1
      <4> QED BY <4>1
    <3>2. CASE first = <<Below("base"), Has(stage)>>
      <4>1. m = 2 /\ first[1] = Below("base") /\ first[2] = p
        BY <2>1, <3>2
      <4>2. \A k \in 1..m : k = 2 \/ (k = 1 /\ k < m)
        BY <4>1
      <4> QED BY <4>1, <4>2
    <3>3. CASE first = <<Below("borrowed"), Below("profile"), Has(stage)>>
      <4>1. /\ m = 3 /\ first[1] = Below("borrowed") /\ first[2] = Below("profile")
            /\ first[3] = p
        BY <2>1, <3>3
      <4>2. \A k \in 1..m : k = 3 \/ (k = 1 /\ k < m) \/ (k = 2 /\ k < m)
        BY <4>1
      <4> QED BY <4>1, <4>2
    <3> QED BY <1>5, <3>1, <3>2, <3>3
  <2>5. first[m] = p /\ m \in 1..Len(first)
    <3> HIDE DEF Below, Has
    <3>1. m \in 1..m /\ ~(m < m)
      BY <2>1
    <3> QED BY <2>1, <2>4, <3>1
  <2> HIDE DEF Below, Has
  <2>6. /\ Len(derived') = n + 1 /\ \A i \in 1..n : derived'[i] = derived[i]
        /\ NodeFits(p, derived'[n + 1])
    <3>1. /\ Len(derived') = n + 1 /\ \A i \in 1..n : derived'[i] = derived[i]
          /\ derived'[n + 1] = [form |-> This.form, null |-> This.null, of |-> This.of,
                                under |-> This.under, attached |-> FALSE]
      BY <1>1, <1>3, <1>5, DerivedNode DEF LaterTypes
    <3> QED BY <1>4, <2>2, <3>1 DEF NodeFits
  <2>7. FirstFits(first)
    <3>1. ASSUME NEW k \in 1..m
          PROVE  /\ PartFits(first[k])
                 /\ first[k].node \in DOMAIN nodes /\ first[k].made \in 0..Len(derived')
                 /\ first[k].form = "named" => This.form = "named"
                 /\ Waits(first[k]) =>
                      /\ first[k].made > Len(derived)
                      /\ NodeFits(first[k], derived'[first[k].made])
                      /\ \A l \in 1..m : first[l].made = first[k].made => k = l
                 /\ first[k].under # 0 =>
                      \/ first[k].under = This.under
                      \/ \E l \in 1..m : l > k /\ first[l].made = first[k].under
      <4>1. CASE k = m /\ first[k] = p
        <5>1. ASSUME NEW l \in 1..m, first[l].made = n + 1 PROVE l = m
          <6>1. n + 1 # 0
            OBVIOUS
          <6> QED BY <2>3, <2>4, <5>1, <6>1
        <5> QED BY <1>1, <1>3, <2>2, <2>6, <4>1, <5>1
      <4>2. ASSUME k < m, NEW form \in {"base", "borrowed", "profile"}, first[k] = Below(form)
            PROVE  /\ PartFits(first[k])
                   /\ first[k].node \in DOMAIN nodes /\ first[k].made \in 0..Len(derived')
                   /\ first[k].form # "named" /\ ~Waits(first[k])
                   /\ \E l \in 1..m : l > k /\ first[l].made = first[k].under
        <5>1. first[m].made = first[k].under
          BY <2>2, <2>3, <2>5, <4>2
        <5>2. first[k].made \in 0..Len(derived')
          BY <2>3, <2>6, <4>2
        <5> QED BY <1>1, <2>1, <2>3, <4>2, <5>1, <5>2
      <4> QED BY <2>4, <4>1, <4>2
    <3> QED BY <1>2, <2>1, <3>1 DEF FirstFits
  <2>8. ASSUME NEW k \in 1..Len(first) PROVE NullIsExcused(first[k].null, first[k].of)
    <3>1. CASE first[k] = p
      BY <1>1, <2>2, <3>1
    <3>2. CASE first[k].null = FALSE
      BY <3>2 DEF NullIsExcused
    <3> QED BY <2>1, <2>3, <2>4, <3>1, <3>2
  <2> QED BY <1>1, <1>3, <1>5, <2>2, <2>5, <2>7, <2>8, DeriveStep
<1>6. \A form \in {"base", "borrowed", "profile"} : Below(form) \in PartRecords
  <2>1. \A form \in {"base", "borrowed", "profile"} : form \in Forms /\ Stage(form) \in Stages
    BY DEF Stage, Forms, Stages
  <2>2. n + 1 \in Nat /\ FALSE \in BOOLEAN /\ 0 \in Nat
    OBVIOUS
  <2>3. This.node \in Nat /\ This.pass \in PassNames /\ This.of \in Objects
    BY <1>1 DEF PartRecords
  <2>4. ASSUME NEW form \in {"base", "borrowed", "profile"}
        PROVE  Below(form) \in PartRecords
    <3>1. PICK part : part = Part(This.node, This.pass, form, This.of)
      OBVIOUS
    <3>2. part \in PartRecords
      BY <2>1, <2>2, <2>3, <2>4, <3>1 DEF Part, PartRecords
    <3>3. [part EXCEPT !.under = n + 1] \in PartRecords
      BY <2>2, <3>2 DEF PartRecords
    <3> QED BY <3>1, <3>3
  <2> QED BY <2>4
<1>7. Has("attach") \in PartRecords /\ Has("tint") \in PartRecords
  <2>1. n + 1 \in Nat /\ "attach" \in Stages /\ "tint" \in Stages
    BY DEF Stages
  <2> QED BY <1>1, <2>1 DEF PartRecords
<1>8. CASE /\ Charge("nodes") /\ Derive(This) /\ UNCHANGED <<shared, skipped>>
           /\ Continue(CASE This.form = "profiled" ->
                              <<Below("borrowed"), Below("profile"), Has("attach")>>
                         [] This.form = "layered" -> <<Below("base"), Has("attach")>>
                         [] This.form = "tinted"  -> <<Below("base"), Has("tint")>>
                         [] OTHER                 -> <<Has("attach")>>)
  <2> HIDE DEF Below, Has
  <2>1. /\ <<Below("borrowed"), Below("profile"), Has("attach")>> \in Seq(PartRecords)
        /\ <<Below("base"), Has("attach")>> \in Seq(PartRecords)
        /\ <<Below("base"), Has("tint")>> \in Seq(PartRecords)
        /\ <<Has("attach")>> \in Seq(PartRecords)
    BY <1>6, <1>7
  <2>2. CASE This.form = "profiled"
    <3>1. Continue(<<Below("borrowed"), Below("profile"), Has("attach")>>)
      BY <1>8, <2>2
    <3> QED BY <1>5, <1>8, <2>1, <3>1
  <2>3. CASE This.form = "layered"
    <3>1. Continue(<<Below("base"), Has("attach")>>)
      BY <1>8, <2>3
    <3> QED BY <1>5, <1>8, <2>1, <3>1
  <2>4. CASE This.form = "tinted"
    <3>1. Continue(<<Below("base"), Has("tint")>>)
      BY <1>8, <2>4
    <3> QED BY <1>5, <1>8, <2>1, <2>4, <3>1
  <2>5. CASE This.form \notin {"profiled", "layered", "tinted"}
    <3>1. Continue(<<Has("attach")>>)
      BY <1>8, <2>5
    <3> QED BY <1>5, <1>8, <2>1, <3>1
  <2> QED BY <2>2, <2>3, <2>4, <2>5
<1>9. CASE ~Affords("nodes") /\ GivesUpQuietly /\ UNCHANGED charged /\ Skip
  <2>1. Short("nodes") /\ Spends
    BY <1>1, <1>9, RefusedIsShort, NothingCharged
  <2>2. PartExcused(This)
    BY <2>1 DEF PartExcused
  <2> QED BY <1>1, <1>2, <1>9, <2>1, <2>2, SkipStep
<1>10. CASE ~Affords("nodes") /\ Fail
  <2>1. Short("nodes") /\ Spends /\ Abort
    BY <1>1, <1>10, RefusedIsShort, NothingCharged DEF Fail
  <2>2. Short("nodes")'
    BY <1>10, <2>1 DEF Short, Fail, Abort, input
  <2> QED BY <1>1, <1>10, <2>1, <2>2, PassFails DEF Fail
<1> QED BY <1>3, <1>8, <1>9, <1>10 DEF MakePart

(* The tint function of a colour space that has a node                     *)
LEMMA MakeTintStep ==
  ASSUME IInv, MakeTint
  PROVE  IInv'
<1>1. /\ pc = "passes" /\ parts # <<>> /\ This.stage = "tint" /\ LoopTypes
      /\ This \in PartRecords /\ PartFits(This)
      /\ This.node \in DOMAIN nodes /\ NullIsExcused(This.null, This.of)
      /\ This = parts[1] /\ 1 \in DOMAIN parts
      /\ LaterTypes /\ LaterRefs /\ PartsInOrder
      /\ "nodes" \in Charges
  BY ThisPart, IInvHalves DEF MakeTint, At, LaterInv, Charges
<1>2. This.form = "tinted" /\ Waits(This)
  BY <1>1 DEF PartFits, Waits
<1>3. PICK n \in Nat : n = Len(derived)
  BY <1>1, LenProperties DEF LaterTypes
<1>4. /\ This.made \in 1..n /\ NodeFits(This, derived[This.made])
  <2>1. This.made # 0 /\ This.made \in 0..n
    BY <1>1, <1>2, <1>3 DEF PartFits, LaterRefs
  <2>2. NodeFits(This, derived[This.made])
    BY <1>1, <1>2 DEF PartsInOrder
  <2> QED BY <2>1, <2>2
<1>5. PICK tint, space :
        /\ tint = [This EXCEPT !.form = "tint", !.stage = "attach",
                               !.under = This.made, !.made = n + 1]
        /\ space = [This EXCEPT !.stage = "attach"]
  OBVIOUS
<1>6. /\ tint \in PartRecords /\ tint.form = "tint" /\ tint.stage = "attach"
      /\ tint.under = This.made /\ tint.made = n + 1
      /\ tint.node = This.node /\ tint.null = This.null /\ tint.of = This.of
  <2>1. n + 1 \in Nat /\ "attach" \in Stages /\ "tint" \in Forms
    BY DEF Forms, Stages
  <2> QED BY <1>1, <1>5, <2>1 DEF PartRecords
<1>7. /\ space \in PartRecords /\ space.form = "tinted" /\ space.stage = "attach"
      /\ space.under = This.under /\ space.made = This.made
      /\ space.node = This.node /\ space.null = This.null /\ space.of = This.of
  BY <1>1, <1>2, <1>5 DEF PartRecords, Stages
<1>8. PartFits(tint) /\ Waits(tint) /\ PartFits(space) /\ Waits(space)
  <2>1. n + 1 # 0 /\ This.made # 0
    BY <1>4
  <2> QED BY <1>6, <1>7, <2>1 DEF PartFits, Waits
<1>9. ASSUME Charge("nodes"), Derive(tint), Continue(<<tint, space>>),
             UNCHANGED <<shared, skipped>>
      PROVE  IInv'
  <2>1. PICK first \in Seq(PartRecords) : first = <<tint, space>>
    <3>1. <<tint, space>> \in Seq(PartRecords)
      BY <1>6, <1>7
    <3> QED BY <3>1
  <2>2. /\ Len(first) = 2 /\ first[1] = tint /\ first[2] = space
        /\ \A k \in 1..Len(first) : k = 1 \/ k = 2
    BY <2>1
  <2>3. /\ Len(derived') = n + 1 /\ \A i \in 1..n : derived'[i] = derived[i]
        /\ derived'[n + 1] = [form |-> tint.form, null |-> tint.null, of |-> tint.of,
                              under |-> tint.under, attached |-> FALSE]
    BY <1>1, <1>3, <1>6, <1>9, DerivedNode DEF LaterTypes
  <2>4. NodeFits(tint, derived'[tint.made])
    BY <1>4, <1>6, <2>3 DEF NodeFits
  <2>5. NodeFits(space, derived'[space.made])
    <3>1. derived'[space.made] = derived[This.made]
      BY <1>4, <1>7, <2>3
    <3> QED BY <1>2, <1>4, <1>7, <3>1 DEF NodeFits
  <2>6. tint.made # space.made /\ tint.made > n /\ tint.made \in 0..(n + 1)
        /\ space.made \in 0..(n + 1)
    BY <1>4, <1>6, <1>7
  <2>7. FirstFits(first)
    <3>1. ASSUME NEW k \in 1..Len(first)
          PROVE  /\ PartFits(first[k])
                 /\ first[k].node \in DOMAIN nodes /\ first[k].made \in 0..Len(derived')
                 /\ first[k].form # "named"
                 /\ first[k].made > Len(derived) \/ first[k].made = This.made
                 /\ NodeFits(first[k], derived'[first[k].made])
                 /\ \A l \in 1..Len(first) : first[l].made = first[k].made => k = l
                 /\ \/ first[k].under = This.under
                    \/ \E l \in 1..Len(first) : l > k /\ first[l].made = first[k].under
      <4>1. CASE k = 1
        <5>1. 2 \in 1..Len(first) /\ 2 > k /\ first[2].made = first[k].under
          BY <1>6, <1>7, <2>2, <4>1
        <5> QED BY <1>1, <1>3, <1>6, <1>8, <2>2, <2>3, <2>4, <2>6, <4>1, <5>1
      <4>2. CASE k = 2
        BY <1>1, <1>3, <1>7, <1>8, <2>2, <2>3, <2>5, <2>6, <4>2
      <4> QED BY <2>2, <4>1, <4>2
    <3> QED BY <1>2, <3>1 DEF FirstFits
  <2>8. \A k \in 1..Len(first) : NullIsExcused(first[k].null, first[k].of)
    BY <1>1, <1>6, <1>7, <2>2
  <2>9. 1 \in 1..Len(first) /\ 2 \in 1..Len(first)
    BY <2>2
  <2> QED BY <1>1, <1>3, <1>6, <1>7, <1>9, <2>1, <2>2, <2>7, <2>8, <2>9, DeriveStep
<1>10. CASE ~Affords("nodes") /\ UNCHANGED charged /\ Skip
  <2>1. Short("nodes") /\ Spends
    BY <1>1, <1>10, RefusedIsShort, NothingCharged
  <2>2. PartExcused(This)
    BY <2>1 DEF PartExcused
  <2> QED BY <1>1, <1>10, <2>1, <2>2, SkipStep
<1> QED BY <1>3, <1>5, <1>9, <1>10 DEF MakeTint

(* What is left of the parts when some are hidden keeps its order, and no  *)
(* part that waits for its edge is hidden.                                 *)
LEMMA SharePartStep ==
  ASSUME IInv, SharePart
  PROVE  IInv'
<1>1. /\ pc = "passes" /\ parts # <<>> /\ This.stage = "share" /\ LoopTypes
      /\ This \in PartRecords /\ This.made = 0 /\ This.form \in {"named", "borrowed"}
      /\ This.node \in DOMAIN nodes /\ This = parts[1] /\ 1 \in DOMAIN parts
      /\ LoopInv /\ LaterInv /\ GraphIsCharged
      /\ LaterTypes /\ LaterRefs /\ PartsInOrder /\ DerivedAreAttached /\ LaterAreExplained
      /\ "edges" \in Charges /\ ~Waits(This)
  <2>1. /\ pc = "passes" /\ parts # <<>> /\ This.stage = "share" /\ LoopTypes
        /\ This \in PartRecords /\ PartFits(This)
        /\ This.node \in DOMAIN nodes /\ This = parts[1] /\ 1 \in DOMAIN parts
        /\ LoopInv /\ LaterInv /\ GraphIsCharged
    BY ThisPart, IInvHalves DEF SharePart, At
  <2>2. This.made = 0 /\ This.form \in {"named", "borrowed"} /\ ~Waits(This)
    BY <2>1 DEF PartFits, Waits
  <2> QED BY <2>1, <2>2 DEF LaterInv, Charges
<1> DEFINE rest   == Tail(parts)
           hidden == {i \in DOMAIN rest : Hides(rest[i])}
<1>2. ASSUME This.of \in DOMAIN objectToNode, Charge("edges"),
             shared' = Append(shared, <<This.node, objectToNode[This.of]>>),
             parts' = ElementsAt(rest, DOMAIN rest \ hidden),
             skipped' = skipped \o ElementsAt(rest, hidden),
             UNCHANGED <<input, stopped, pc, pending, reference, graph, dropped, derived>>
      PROVE  IInv'
  <2>1. /\ UNCHANGED <<document, tolerant, limit, stopped, pc, pending, reference, nodes,
                       objectToNode, edges, lengths, dropped, derived>>
    BY <1>2 DEF input, graph
  <2>2. /\ Spends /\ ~stopped /\ charged["edges"] # limit["edges"]
        /\ charged'["edges"] = charged["edges"] + 1
        /\ charged'["nodes"] = charged["nodes"] /\ charged'["objects"] = charged["objects"]
    <3>1. Affords("edges")
      BY <1>2 DEF Charge
    <3> QED BY <1>1, <1>2, <3>1, ChargeForms, RefusedIsShort DEF Charges
  <2>3. PICK n \in Nat : n = Len(parts) /\ n >= 1 /\ DOMAIN parts = 1..n
    BY <1>1, LenProperties, EmptySeq DEF LaterTypes
  <2>4. /\ rest \in Seq(PartRecords) /\ DOMAIN rest = 1..(n - 1)
        /\ \A i \in 1..(n - 1) : rest[i] = parts[i + 1]
    <3>1. parts \in Seq(PartRecords)
      BY <1>1 DEF LaterTypes
    <3>2. /\ rest \in Seq(PartRecords) /\ Len(rest) = n - 1
          /\ \A i \in 1..Len(rest) : rest[i] = parts[i + 1]
      BY <1>1, <2>3, <3>1, HeadTailProperties
    <3> QED BY <3>2, LenProperties
  <2> HIDE DEF rest
  <2>5. hidden \in SUBSET (DOMAIN rest) /\ DOMAIN rest \ hidden \in SUBSET (DOMAIN rest)
    OBVIOUS
  <2>6. \A i \in DOMAIN rest : i \in hidden <=> Hides(parts[i + 1])
    BY <2>4
  <2> HIDE DEF hidden
  <2>7. PICK c, at :
          /\ c \in Nat /\ at \in [1..c -> DOMAIN rest \ hidden]
          /\ \A k, l \in 1..c : k < l => at[k] < at[l]
          /\ \A i \in DOMAIN rest \ hidden : \E k \in 1..c : at[k] = i
          /\ parts' \in Seq(PartRecords) /\ DOMAIN parts' = 1..c
          /\ \A k \in 1..c : parts'[k] = rest[at[k]]
    <3>1. PICK s, P : s = rest /\ P = DOMAIN rest \ hidden
      OBVIOUS
    <3>2. s \in Seq(PartRecords) /\ P \in SUBSET (DOMAIN s)
      BY <2>4, <2>5, <3>1
    <3>3. PICK at \in [1..Cardinality(P) -> P] :
            /\ Cardinality(P) \in Nat
            /\ \A k, l \in 1..Cardinality(P) : k < l => at[k] < at[l]
            /\ \A i \in P : \E k \in 1..Cardinality(P) : at[k] = i
            /\ ElementsAt(s, P) \in Seq(PartRecords)
            /\ Len(ElementsAt(s, P)) = Cardinality(P)
            /\ DOMAIN ElementsAt(s, P) = 1..Cardinality(P)
            /\ \A k \in 1..Cardinality(P) : ElementsAt(s, P)[k] = s[at[k]]
      <4>1. PICK at : SelectedFrom(at, PartRecords, s, P)
        BY <3>2, ElementsAtProperties
      <4> QED BY <4>1 DEF SelectedFrom
    <3>4. parts' = ElementsAt(s, P)
      BY <1>2, <3>1
    <3>5. WITNESS Cardinality(P), at
    <3> QED BY <3>1, <3>3, <3>4
  <2>8. \A k \in 1..c : /\ at[k] \in 1..(n - 1) /\ at[k] + 1 \in 2..n /\ at[k] + 1 \in DOMAIN parts
                        /\ parts'[k] = parts[at[k] + 1]
    BY <2>3, <2>4, <2>7
  <2>9. ASSUME NEW j \in DOMAIN parts, j # 1, ~Hides(parts[j])
        PROVE  \E k \in 1..c : at[k] + 1 = j /\ parts'[k] = parts[j]
    <3>1. j - 1 \in DOMAIN rest /\ (j - 1) + 1 = j
      BY <2>3, <2>4, <2>9
    <3>2. PICK k \in 1..c : at[k] = j - 1
      BY <2>6, <2>7, <2>9, <3>1
    <3> QED BY <2>8, <3>1, <3>2
  <2>10. \A j \in DOMAIN parts : Waits(parts[j]) => ~Hides(parts[j])
    <3>1. \A j \in DOMAIN parts : Waits(parts[j]) =>
            \A i \in 1..j : parts[i].form # "named"
      BY <1>1 DEF PartsInOrder
    <3> QED BY <1>1, <2>3, <3>1 DEF Hides
  <2>11. ASSUME NEW j \in DOMAIN parts, Waits(parts[j])
         PROVE  \E k \in DOMAIN parts' : at[k] + 1 = j /\ parts'[k] = parts[j]
    <3>1. j # 1
      BY <1>1, <2>11
    <3> QED BY <2>7, <2>9, <2>10, <2>11, <3>1
  <2>12. /\ skipped' \in Seq(PartRecords)
         /\ \A i \in DOMAIN skipped' : \/ i \in DOMAIN skipped /\ skipped'[i] = skipped[i]
                                       \/ Hides(skipped'[i])
    <3>1. PICK b, from, t :
            /\ b \in Nat /\ from \in [1..b -> hidden] /\ t \in Seq(PartRecords)
            /\ t = ElementsAt(rest, hidden) /\ Len(t) = b /\ \A k \in 1..b : t[k] = rest[from[k]]
      <4>1. PICK s, P : s = rest /\ P = hidden
        OBVIOUS
      <4>2. s \in Seq(PartRecords) /\ P \in SUBSET (DOMAIN s)
        BY <2>4, <2>5, <4>1
      <4>3. PICK from \in [1..Cardinality(P) -> P] :
              /\ Cardinality(P) \in Nat
              /\ ElementsAt(s, P) \in Seq(PartRecords)
              /\ Len(ElementsAt(s, P)) = Cardinality(P)
              /\ \A k \in 1..Cardinality(P) : ElementsAt(s, P)[k] = s[from[k]]
        <5>1. PICK from : SelectedFrom(from, PartRecords, s, P)
          BY <4>2, ElementsAtProperties
        <5> QED BY <5>1 DEF SelectedFrom
      <4>4. WITNESS Cardinality(P), from, ElementsAt(s, P)
      <4> QED BY <4>1, <4>3
    <3>2. ASSUME NEW k \in 1..b PROVE Hides(t[k])
      <4>1. from[k] \in hidden /\ from[k] \in DOMAIN rest
        BY <2>5, <3>1
      <4>2. t[k] = parts[from[k] + 1]
        BY <2>4, <3>1, <4>1
      <4> QED BY <2>6, <4>1, <4>2
    <3>3. skipped' = skipped \o t /\ skipped \in Seq(PartRecords)
      BY <1>1, <1>2, <3>1 DEF LaterTypes
    <3>4. PICK a \in Nat : a = Len(skipped) /\ DOMAIN skipped = 1..a
      BY <3>3, LenProperties
    <3>5. /\ skipped' \in Seq(PartRecords) /\ DOMAIN skipped' = 1..(a + b)
          /\ \A i \in 1..(a + b) : skipped'[i] = IF i <= a THEN skipped[i] ELSE t[i - a]
      <4>1. Len(skipped') = a + b /\ skipped' \in Seq(PartRecords)
            /\ \A i \in 1..(a + b) : skipped'[i] = IF i <= a THEN skipped[i] ELSE t[i - a]
        <5>1. /\ skipped \o t \in Seq(PartRecords) /\ Len(skipped \o t) = Len(skipped) + Len(t)
              /\ \A i \in 1..Len(skipped) + Len(t) : (skipped \o t)[i] =
                   IF i <= Len(skipped) THEN skipped[i] ELSE t[i - Len(skipped)]
          BY <3>1, <3>3, ConcatProperties, ZenonT(60)
        <5>2. Len(skipped) = a /\ Len(t) = b
          BY <3>1, <3>4
        <5> QED BY <3>3, <5>1, <5>2
      <4> QED BY <4>1, LenProperties
    <3>6. \A i \in 1..(a + b) : ~(i <= a) => i - a \in 1..b
      BY <3>4, <3>1
    <3> QED BY <3>2, <3>4, <3>5, <3>6
  <2>13. /\ shared \in Seq((DOMAIN nodes) \X (DOMAIN nodes))
         /\ shared' \in Seq((DOMAIN nodes) \X (DOMAIN nodes))
         /\ Len(shared) \in Nat /\ Len(shared') = Len(shared) + 1
         /\ \A i \in DOMAIN shared : i \in DOMAIN shared' /\ shared'[i] = shared[i]
         /\ \E i \in DOMAIN shared' : shared'[i][2] = objectToNode[This.of]
    <3>1. objectToNode[This.of] \in DOMAIN nodes
      BY <1>1, <1>2 DEF LoopTypes
    <3>2. shared \in Seq((DOMAIN nodes) \X (DOMAIN nodes))
      BY <1>1 DEF LaterRefs
    <3>3. PICK s \in (DOMAIN nodes) \X (DOMAIN nodes) :
            s = <<This.node, objectToNode[This.of]>> /\ s[2] = objectToNode[This.of]
      <4>1. PICK a \in DOMAIN nodes, b \in DOMAIN nodes : a = This.node /\ b = objectToNode[This.of]
        BY <1>1, <3>1
      <4>2. <<a, b>> \in (DOMAIN nodes) \X (DOMAIN nodes) /\ <<a, b>>[2] = b
        OBVIOUS
      <4> QED BY <4>1, <4>2
    <3>4. /\ shared' \in Seq((DOMAIN nodes) \X (DOMAIN nodes))
          /\ Len(shared) \in Nat /\ Len(shared') = Len(shared) + 1
          /\ DOMAIN shared = 1..Len(shared) /\ DOMAIN shared' = 1..(Len(shared) + 1)
          /\ \A i \in DOMAIN shared : shared'[i] = shared[i]
          /\ shared'[Len(shared) + 1] = s
      BY <1>2, <3>2, <3>3, AppendProperties, LenProperties
    <3>5. Len(shared) + 1 \in DOMAIN shared' /\ \A i \in DOMAIN shared : i \in DOMAIN shared'
      BY <3>4
    <3> QED BY <3>2, <3>3, <3>4, <3>5
  <2>14. LaterTypes'
    <3>1. ~Looping' /\ pc' # "done"
      BY <1>1, <2>1 DEF Looping, Loading, Linking
    <3> QED BY <1>1, <2>1, <2>7, <2>12, <3>1 DEF LaterTypes
  <2>15. LaterRefs'
    <3>1. \A k \in DOMAIN parts' : /\ parts'[k].node \in DOMAIN nodes
                                   /\ parts'[k].made \in 0..Len(derived)
      <4>1. \A j \in DOMAIN parts : /\ parts[j].node \in DOMAIN nodes
                                    /\ parts[j].made \in 0..Len(derived)
        BY <1>1 DEF LaterRefs
      <4>2. \A k \in DOMAIN parts' : \E j \in DOMAIN parts : parts'[k] = parts[j]
        BY <2>7, <2>8
      <4> QED BY <4>1, <4>2
    <3> QED BY <2>1, <2>13, <3>1 DEF LaterRefs
  <2>16. PartsInOrder'
    <3>1. ASSUME NEW k \in 1..c
          PROVE  /\ PartFits(parts'[k])
                 /\ Waits(parts'[k]) => NodeFits(parts'[k], derived[parts'[k].made])
      <4>1. \A j \in DOMAIN parts :
              /\ PartFits(parts[j])
              /\ Waits(parts[j]) => NodeFits(parts[j], derived[parts[j].made])
        BY <1>1 DEF PartsInOrder
      <4> QED BY <2>8, <4>1
    <3>2. ASSUME NEW k \in 1..c, Waits(parts'[k]), NEW j \in 1..k
          PROVE  parts'[j].form # "named"
      <4>1. \A i \in 1..(at[k] + 1) : parts[i].form # "named"
        <5>1. PICK m \in DOMAIN parts : m = at[k] + 1 /\ parts'[k] = parts[m]
          BY <2>8
        <5>2. \A i \in 1..m : parts[i].form # "named"
          BY <1>1, <3>2, <5>1 DEF PartsInOrder
        <5> QED BY <5>1, <5>2
      <4>2. j \in 1..c /\ (j < k \/ j = k)
        <5>1. c \in Nat /\ k \in 1..c /\ j \in 1..k
          BY <2>7, <3>2
        <5> QED BY <5>1
      <4>3. at[j] + 1 \in 1..(at[k] + 1)
        <5>1. at[j] \in 1..(n - 1) /\ at[k] \in 1..(n - 1) /\ (at[j] < at[k] \/ at[j] = at[k])
          BY <2>7, <2>8, <4>2
        <5> QED BY <5>1
      <4> QED BY <2>8, <4>1, <4>2, <4>3
    <3>3. ASSUME NEW k \in 1..c, parts'[k].under # 0
          PROVE  \E l \in 1..c : l > k /\ parts'[l].made = parts'[k].under
      <4>1. PICK m \in DOMAIN parts : m = at[k] + 1 /\ parts'[k] = parts[m]
        BY <2>8
      <4>2. PICK j \in DOMAIN parts : j > m /\ parts[j].made = parts[m].under
        BY <1>1, <3>3, <4>1 DEF PartsInOrder
      <4>3. Waits(parts[j])
        BY <1>1, <3>3, <4>1, <4>2 DEF PartsInOrder, PartFits
      <4>4. PICK l \in 1..c : at[l] + 1 = j /\ parts'[l] = parts[j]
        BY <2>7, <2>11, <4>3
      <4>5. at[k] < at[l]
        <5>1. at[k] \in 1..(n - 1) /\ at[l] \in 1..(n - 1) /\ at[l] + 1 > at[k] + 1
          BY <2>8, <4>1, <4>2, <4>4
        <5> QED BY <5>1
      <4>6. ~(l < k) /\ l # k
        <5>1. ~(at[l] < at[k]) /\ at[l] # at[k]
          <6>1. at[k] \in 1..(n - 1) /\ at[l] \in 1..(n - 1)
            BY <2>8
          <6> QED BY <4>5, <6>1
        <5> QED BY <2>7, <5>1
      <4> QED BY <2>7, <4>1, <4>2, <4>4, <4>6
    <3>4. ASSUME NEW k \in 1..c, NEW l \in 1..c,
                 Waits(parts'[k]), parts'[l].made = parts'[k].made
          PROVE  k = l
      <4>0. \A i, j \in DOMAIN parts :
              Waits(parts[i]) /\ parts[j].made = parts[i].made => i = j
        BY <1>1 DEF PartsInOrder
      <4>1. at[k] + 1 = at[l] + 1
        BY <2>8, <3>4, <4>0
      <4>2. at[k] \in 1..(n - 1) /\ at[l] \in 1..(n - 1)
        BY <2>8
      <4>3. ~(at[k] < at[l]) /\ ~(at[l] < at[k])
        BY <4>1, <4>2
      <4>4. ~(k < l) /\ ~(l < k)
        BY <2>7, <4>3
      <4>5. k \in Nat /\ l \in Nat
        BY <2>7
      <4> QED BY <4>4, <4>5
    <3>5. \A k : /\ Waits(parts[k])' = Waits(parts'[k]) /\ PartFits(parts[k])' = PartFits(parts'[k])
                 /\ NodeFits(parts[k], derived[parts[k].made])' =
                      NodeFits(parts'[k], derived[parts'[k].made])
      BY <2>1 DEF Waits, PartFits, NodeFits
    <3> QED BY <2>7, <3>1, <3>2, <3>3, <3>4, <3>5 DEF PartsInOrder
  <2>17. DerivedAreAttached'
    <3>1. ASSUME NEW i \in DOMAIN derived, ~derived[i].attached
          PROVE  (\E k \in DOMAIN parts' : parts'[k].made = i) \/ Abandoned(i)'
      <4>1. CASE \E j \in DOMAIN parts : parts[j].made = i
        <5>1. PICK j \in DOMAIN parts : parts[j].made = i
          BY <4>1
        <5>2. i # 0
          BY <1>1, LenProperties, <3>1 DEF LaterTypes
        <5>3. Waits(parts[j])
          BY <1>1, <5>1, <5>2 DEF PartsInOrder, PartFits
        <5> QED BY <2>11, <5>1, <5>3
      <4>2. CASE Abandoned(i)
        BY <1>1, <1>2, <2>1, <2>2, <4>2, AbandonedRemain DEF LaterTypes
      <4> QED BY <1>1, <3>1, <4>1, <4>2 DEF DerivedAreAttached
    <3> QED BY <2>1, <3>1 DEF DerivedAreAttached
  <2>18. LaterAreExplained'
    <3>1. UNCHANGED <<input, nodes, objectToNode, stopped>>
      BY <1>2, <2>1
    <3>2. ASSUME NEW i \in DOMAIN skipped' PROVE PartExcused(skipped[i])'
      <4>1. PICK p : p = skipped'[i]
        OBVIOUS
      <4>2. CASE i \in DOMAIN skipped /\ skipped'[i] = skipped[i]
        <5>1. PartExcused(p)
          BY <1>1, <4>1, <4>2 DEF LaterAreExplained
        <5> QED BY <1>1, <2>2, <2>13, <3>1, <4>1, <5>1, PartStaysExcused
      <4>3. CASE Hides(skipped'[i])
        <5>1. p.node = objectToNode[This.of]
          BY <4>1, <4>3 DEF Hides
        <5>2. PartExcused(p)'
          BY <2>13, <5>1 DEF PartExcused
        <5> QED BY <4>1, <5>2
      <4> QED BY <2>12, <4>2, <4>3
    <3>3. /\ \A d \in Charges : Short(d) => Short(d)'
          /\ \A o : HasValue(o)' = HasValue(o)
          /\ tolerant' = tolerant
      BY <1>1, <2>1, <2>2, <3>1, ReasonsRemain
    <3>4. \A i \in DOMAIN derived' : NullIsExcused(derived[i].null, derived[i].of)'
      BY <1>1, <2>1, <3>3 DEF NullIsExcused, LaterAreExplained, Charges
    <3>5. \A k \in 1..c : NullIsExcused(parts[at[k] + 1].null, parts[at[k] + 1].of)
      BY <1>1, <2>8 DEF LaterAreExplained
    <3>6. ASSUME NEW k \in DOMAIN parts' PROVE NullIsExcused(parts[k].null, parts[k].of)'
      <4>1. k \in 1..c /\ parts'[k] = parts[at[k] + 1]
        BY <2>7, <2>8
      <4> QED BY <3>3, <3>5, <4>1 DEF NullIsExcused, Charges
    <3> QED BY <3>2, <3>4, <3>6 DEF LaterAreExplained
  <2>19. LaterInv'
    BY <2>14, <2>15, <2>16, <2>17, <2>18 DEF LaterInv
  <2>20. LoopInv'
    BY <1>1, <1>2, <2>1, <2>2, PassKeepsLoop DEF LoopTypes
  <2>21. GraphIsCharged'
    <3>1. /\ Attached' = Attached /\ Attached \in Nat /\ EdgeCosts \in Nat /\ MadeCount' = MadeCount
          /\ Len(edges) \in Nat
      BY <1>1, <2>1, AttachedIsNat, LenProperties DEF Attached, Count, MadeCount, LoopTypes
    <3>2. EdgeCosts' = 2 * Len(edges) + Attached + (Len(shared) + 1)
      BY <2>1, <2>13, <3>1 DEF EdgeCosts
    <3>3. EdgeCosts' = EdgeCosts + 1
      BY <2>13, <3>1, <3>2 DEF EdgeCosts
    <3>4. charged["edges"] = EdgeCosts
      BY <1>1, <3>1 DEF GraphIsCharged
    <3>5. charged'["edges"] = EdgeCosts' + 0 /\ EdgeCosts' \in Nat
      BY <2>2, <3>1, <3>3, <3>4
    <3> QED BY <1>1, <2>1, <2>2, <3>1, <3>5 DEF GraphIsCharged
  <2>22. FailureIsExplained'
    BY <1>1, <2>1 DEF FailureIsExplained
  <2> QED BY <2>19, <2>20, <2>21, <2>22, NextHalves
<1>3. CASE /\ This.of \notin DOMAIN objectToNode \/ ~Affords("edges")
           /\ UNCHANGED charged
           /\ Skip
  <2>1. Spends
    BY <1>1, <1>3, NothingCharged
  <2>2. PartExcused(This)
    <3>1. This.of \notin DOMAIN objectToNode \/ Short("edges")
      BY <1>1, <1>3, RefusedIsShort
    <3> QED BY <1>1, <3>1 DEF PartExcused
  <2> QED BY <1>1, <1>3, <2>1, <2>2, SkipStep
<1>4. CASE ~Affords("edges") /\ Fail
  <2>1. Short("edges") /\ Spends /\ Abort
    BY <1>1, <1>4, RefusedIsShort, NothingCharged DEF Fail
  <2>2. Short("edges")'
    BY <1>4, <2>1 DEF Short, Fail, Abort, input
  <2> QED BY <1>1, <1>4, <2>1, <2>2, PassFails DEF Fail
<1> QED BY <1>2, <1>3, <1>4 DEF SharePart
-----------------------------------------------------------------------------
(* The inductive invariant holds                                           *)

LEMMA InitIInv ==
  ASSUME Init
  PROVE  IInv
<1> DEFINE roots == document.roots
           Refs == {r \in Refers : IsReferenceOf(r.from, r.to)}
           lists == [n \in DOMAIN roots |-> Collect(n, roots[n])]
<1>1. /\ document \in Document /\ limit \in [Charges -> Nat]
      /\ roots \in Seq(Objects) /\ nodes = roots
      /\ \A o \in Objects : document.refs[o] \in Seq(Objects)
  BY DocumentAssumption, BudgetAssumption DEF Init, Document
<1>2. /\ Len(roots) \in Nat /\ DOMAIN roots = 1..Len(roots)
      /\ \A n \in DOMAIN roots : roots[n] \in Objects /\ n \in Nat
  BY <1>1, LenProperties, ElementOfSeq
<1>3. pending \in Seq(Refs)
  <2>1. ASSUME NEW n \in DOMAIN roots PROVE Collect(n, roots[n]) \in Seq(Refs)
    <3>1. document.refs[roots[n]] \in Seq(Objects)
      BY <1>1, <1>2
    <3>2. /\ Len(document.refs[roots[n]]) \in Nat
          /\ DOMAIN document.refs[roots[n]] = 1..Len(document.refs[roots[n]])
          /\ \A i \in DOMAIN document.refs[roots[n]] : document.refs[roots[n]][i] \in Objects
      BY <3>1, LenProperties, ElementOfSeq
    <3>3. ASSUME NEW i \in DOMAIN document.refs[roots[n]]
          PROVE  Reference(n, document.refs[roots[n]][i]) \in Refs
      <4>1. document.refs[roots[n]][i] \in Objects /\ n \in Nat /\ n \in DOMAIN nodes
            /\ nodes[n] = roots[n]
        BY <1>1, <1>2, <3>2
      <4>2. IsReferenceOf(n, document.refs[roots[n]][i])
        BY <4>1 DEF IsReferenceOf
      <4> QED BY <4>1, <4>2 DEF Reference, Refers
    <3> HIDE DEF Refs
    <3> QED BY <3>2, <3>3 DEF Collect
  <2>2. DOMAIN lists = 1..Len(roots) /\ \A n \in 1..Len(roots) : lists[n] \in Seq(Refs)
    <3> HIDE DEF Refs
    <3> QED BY <1>2, <2>1
  <2>3. lists \in Seq(Seq(Refs))
    <3> HIDE DEF Refs
    <3>1. lists = [n \in 1..Len(roots) |-> lists[n]]
      BY <1>2
    <3>2. lists \in [1..Len(roots) -> Seq(Refs)]
      <4> HIDE DEF lists
      <4> QED BY <2>2, <3>1
    <3> HIDE DEF lists
    <3> QED BY <1>2, <3>2, SeqDef
  <2>4. pending = FlattenSeq(lists)
    BY DEF Init
  <2> HIDE DEF Refs, lists
  <2> QED BY <2>3, <2>4, FlattenType
<1>4. pending \in Seq(Refers) /\ \A i \in DOMAIN pending : IsReferenceOf(pending[i].from, pending[i].to)
  <2>1. DOMAIN pending = 1..Len(pending) /\ Len(pending) \in Nat
        /\ \A i \in DOMAIN pending : pending[i] \in Refs
    <3> HIDE DEF Refs
    <3> QED BY <1>3, LenProperties, ElementOfSeq
  <2>2. \A i \in DOMAIN pending : pending[i] \in Refers
    BY <2>1
  <2>3. pending = [i \in 1..Len(pending) |-> pending[i]]
    <3> HIDE DEF Refs
    <3> QED BY <1>3, SeqDef, LenProperties
  <2> QED BY <2>1, <2>2, <2>3
<1> HIDE DEF lists, Refs
<1>5. reference \in Refers
  <2>1. (CHOOSE o \in Objects : TRUE) \in Objects
    BY ObjectsAssumption
  <2> QED BY <2>1 DEF Init, Reference, Refers
<1>6. \A c \in Charges : charged[c] = 0 /\ limit[c] \in Nat /\ charged[c] <= limit[c]
  BY <1>1 DEF Init
<1>7. LoopTypes
  <2>1. charged \in [Charges -> Nat] /\ stopped \in BOOLEAN /\ pc \in Places
        /\ document \in Documents /\ tolerant \in BOOLEAN /\ limit \in Budgets
    BY DEF Init, Places
  <2>2. /\ DOMAIN objectToNode \subseteq Objects
        /\ objectToNode \in [DOMAIN objectToNode -> DOMAIN nodes]
    BY DEF Init
  <2>3. /\ edges \in Seq((DOMAIN nodes) \X (DOMAIN nodes))
        /\ lengths \subseteq DOMAIN nodes /\ dropped \in Seq(Refers)
    BY DEF Init
  <2> QED BY <1>1, <1>4, <1>5, <1>6, <2>1, <2>2, <2>3 DEF LoopTypes
<1>8. /\ parts = <<>> /\ derived = <<>> /\ shared = <<>> /\ skipped = <<>>
      /\ edges = <<>> /\ dropped = <<>> /\ pc = "next" /\ objectToNode = [o \in {} |-> 0]
      /\ DOMAIN parts = {} /\ DOMAIN derived = {} /\ DOMAIN skipped = {} /\ DOMAIN dropped = {}
  BY DEF Init
<1>9. LaterTypes /\ LaterRefs
  <2>1. parts \in Seq(PartRecords) /\ derived \in Seq(DerivedRecords)
        /\ skipped \in Seq(PartRecords) /\ shared \in Seq((DOMAIN nodes) \X (DOMAIN nodes))
    BY <1>8
  <2> QED BY <1>8, <2>1 DEF LaterTypes, LaterRefs
<1>10. WorkIsFromValues /\ NodesAreNeeded
  <2>1. ~Loading /\ ~Linking /\ pc # "node"
    BY <1>8 DEF Loading, Linking
  <2>2. Len(document.roots) <= Len(nodes)
    BY <1>1, <1>2
  <2> QED BY <1>4, <1>8, <2>1, <2>2 DEF WorkIsFromValues, NodesAreNeeded
<1>11. OneNodePerObject
  <2>1. DOMAIN objectToNode = {}
    BY <1>8
  <2>2. Made = {}
    BY <1>1, <1>2 DEF Made
  <2> QED BY <2>1, <2>2 DEF OneNodePerObject
<1>12. FailuresArePermanent /\ DroppedAreDoomed /\ DroppedAreExcused
  BY <1>8 DEF FailuresArePermanent, DroppedAreDoomed, DroppedAreExcused
<1>13. GraphIsCharged
  <2>1. "objects" \in Charges /\ "nodes" \in Charges /\ "edges" \in Charges
    BY DEF Charges
  <2>2. MadeCount = 0
    BY <1>1, <1>2 DEF MadeCount
  <2>3. Attached = 0
    <3>1. {i \in DOMAIN derived : derived[i].attached} = {}
      BY <1>8
    <3> QED BY <3>1, FS_EmptySet DEF Attached, Count
  <2>4. Len(edges) = 0 /\ Len(shared) = 0 /\ Len(derived) = 0
    BY <1>8
  <2> QED BY <1>6, <1>8, <2>1, <2>2, <2>3, <2>4 DEF GraphIsCharged, EdgeCosts
<1>14. PartsInOrder /\ DerivedAreAttached /\ LaterAreExplained /\ FailureIsExplained
  BY <1>8 DEF PartsInOrder, DerivedAreAttached, LaterAreExplained, FailureIsExplained
<1> QED BY <1>7, <1>9, <1>10, <1>11, <1>12, <1>13, <1>14, TypeHalves DEF IInv

LEMMA NextIInv ==
  ASSUME IInv, [Next]_vars
  PROVE  IInv'
<1>1. CASE UNCHANGED vars
  <2>1. UNCHANGED <<document, tolerant, limit, charged, stopped, pc, pending, reference,
                    nodes, objectToNode, edges, lengths, dropped, parts, derived, shared,
                    skipped>>
    BY <1>1 DEF vars
  <2>2. LoopTypes' /\ LaterRefs'
    <3>1. LoopTypes /\ LaterRefs
      BY TypeHalves DEF IInv
    <3> QED BY <2>1, <3>1 DEF LoopTypes, LaterRefs
  <2>3. LaterTypes' /\ WorkIsFromValues' /\ NodesAreNeeded' /\ OneNodePerObject'
        /\ FailuresArePermanent'
    BY <2>1 DEF IInv, LaterTypes, Looping, Loading, Linking, WorkIsFromValues, IsReferenceOf,
                NodesAreNeeded, kind, Repairable, OneNodePerObject, Made, FailuresArePermanent
  <2>4. DroppedAreDoomed' /\ DroppedAreExcused'
    BY <2>1 DEF IInv, DroppedAreDoomed, Doomed, DroppedAreExcused, ReferenceExcused,
                kind, Repairable, Loading, Linking
  <2>5. GraphIsCharged' /\ PartsInOrder' /\ DerivedAreAttached'
    <3>1. GraphIsCharged'
      BY <2>1, EdgeCostsFrame DEF IInv, GraphIsCharged, MadeCount
    <3>2. PartsInOrder'
      BY <2>1 DEF IInv, PartsInOrder, PartFits, NodeFits, Waits
    <3>3. DerivedAreAttached'
      BY <2>1 DEF IInv, DerivedAreAttached, Abandoned, Short
    <3> QED BY <3>1, <3>2, <3>3
  <2>6. LaterAreExplained'
    BY <2>1 DEF IInv, LaterAreExplained, PartExcused, NullIsExcused, Short, kind, HasValue,
                IsStreamNode
  <2>7. FailureIsExplained'
    BY <2>1 DEF IInv, FailureIsExplained, Short, kind, HasValue, StreamsWithLength, This
  <2> QED BY <2>2, <2>3, <2>4, <2>5, <2>6, <2>7, NextHalves DEF LoopInv, LaterInv
<1>2. CASE Next
  BY <1>2, StopStep, PopStep, ConsumeObjectStep, ReadObjectStep, ReadStreamStep,
     ReadCompressedStep, CreateNodeStep, ChargeEdgeStep, AddEdgeStep,
     ResolveStreamLengthsStep, PutGlobalsStep, LoadPartStep, DecodePartStep, MakePartStep,
     MakeTintStep, AttachPartStep, SharePartStep, EndPassesStep DEF Next, Step
<1> QED BY <1>1, <1>2

LEMMA SpecIInv == Spec => []IInv
<1>1. Init => IInv
  BY InitIInv
<1>2. IInv /\ [Next]_vars => IInv'
  BY NextIInv
<1> QED BY <1>1, <1>2, PTL DEF Spec
-----------------------------------------------------------------------------
(* What follows from it                                                    *)

(* The nodes that the resolver has made are those after the file parser's. *)
LEMMA MadeAreCounted ==
  ASSUME LoopTypes, NodesAreNeeded
  PROVE  Cardinality(Made) = MadeCount /\ MadeCount \in Nat
<1> DEFINE a == Len(document.roots)
           b == Len(nodes)
<1>1. a \in Nat /\ b \in Nat /\ a <= b /\ DOMAIN nodes = 1..b
  BY InputTypes, LenProperties DEF LoopTypes, NodesAreNeeded
<1>2. Made = (a + 1)..b
  <2> SUFFICES {n \in DOMAIN nodes : n > a} = (a + 1)..b
    BY DEF Made
  <2> HIDE DEF a, b
  <2> QED BY <1>1
<1> HIDE DEF a, b
<1>3. Cardinality((a + 1)..b) = IF a + 1 > b THEN 0 ELSE b - (a + 1) + 1
  BY <1>1, FS_Interval
<1>4. MadeCount = b - a
  BY DEF MadeCount, a, b
<1> QED BY <1>1, <1>2, <1>3, <1>4

LEMMA IInvCoversGraph ==
  ASSUME IInv
  PROVE  BudgetCoversGraph
<1>1. /\ LoopTypes /\ LaterTypes /\ LaterRefs /\ NodesAreNeeded /\ GraphIsCharged
      /\ DerivedAreAttached /\ LaterInv /\ LoopInv
  BY IInvHalves DEF LoopInv, LaterInv
<1>2. Cardinality(Made) = MadeCount /\ MadeCount \in Nat
  BY <1>1, MadeAreCounted
<1>3. charged["objects"] \in Nat /\ charged["edges"] \in Nat
  BY <1>1, InputTypes
<1>4. Attached \in Nat /\ Len(edges) \in Nat /\ Len(shared) \in Nat
  BY <1>1, AttachedIsNat, LenProperties DEF LoopTypes, LaterRefs
<1>5. charged["nodes"] = Cardinality(Made) + Len(derived)
  BY <1>1, <1>2 DEF GraphIsCharged
<1>6. charged["edges"] - 2 * Len(edges) - Attached - Len(shared) \in {0, 1}
  <2>1. charged["edges"] = EdgeCosts \/ charged["edges"] = EdgeCosts + 1
    <3>1. EdgeCosts \in Nat
      BY <1>1, AttachedIsNat
    <3> QED BY <1>1, <3>1 DEF GraphIsCharged
  <2> QED BY <1>3, <1>4, <2>1 DEF EdgeCosts
<1>7. charged["objects"] >= Cardinality(Made)
  BY <1>1, <1>2, <1>3 DEF GraphIsCharged
<1>8. ASSUME NEW i \in DOMAIN derived
      PROVE  \/ derived[i].attached
             \/ pc # "done" /\ \E k \in DOMAIN parts : parts[k].made = i
             \/ Abandoned(i)
  <2>1. pc = "done" => DOMAIN parts = {}
    BY <1>1 DEF LaterTypes
  <2> QED BY <1>1, <2>1 DEF DerivedAreAttached
<1> QED BY <1>5, <1>6, <1>7, <1>8 DEF BudgetCoversGraph, Abandoned

(* The types: what the resolver keeps refers to nodes that exist and       *)
(* objects of the file, and no counter of the budget ever passes its limit *)
(* (resolve_references and its helpers).                                   *)
THEOREM ResolverIsTyped == Spec => []TypeOK
<1>1. IInv => TypeOK
  BY DEF IInv
<1> QED BY <1>1, SpecIInv, PTL

(* resolve_object makes one node for an object, however often and from     *)
(* however many places it is referred to, in cycles too; object_to_node    *)
(* names that node, and an earlier node refers to it.                      *)
THEOREM NoObjectHasTwoNodes == Spec => []OneNodePerObject
<1>1. IInv => OneNodePerObject
  BY DEF IInv
<1> QED BY <1>1, SpecIInv, PTL

(* An object given up for one referrer never gets a node through another:  *)
(* the retries of resolve_object fail as the first attempt did.            *)
THEOREM RefusalsAreFinal == Spec => []FailuresArePermanent
<1>1. IInv => FailuresArePermanent
  BY DEF IInv
<1> QED BY <1>1, SpecIInv, PTL

(* The shared budget has been charged for exactly the nodes and edges that *)
(* are there, whichever pass made them and wherever one gave up. A node    *)
(* that a later pass has made is attached, or waits for its edge while the *)
(* run goes on or after it failed. The only nodes that an Ok leaves alone  *)
(* are those of Separation and DeviceN spaces without a node for the tint  *)
(* function, nodes having run out, and the nodes below such a space that   *)
(* is not attached, edges having run out.                                  *)
THEOREM EveryNodeIsPaidFor == Spec => []BudgetCoversGraph
<1>1. IInv => BudgetCoversGraph
  BY IInvCoversGraph
<1> QED BY <1>1, SpecIInv, PTL

(* After an Ok of resolve_references, each reference without an edge, each *)
(* part that is missing and each that is Null has one of the reasons       *)
(* listed, and so has each failure.                                        *)
THEOREM NothingIsLostWithoutReason == Spec => []LossesAreExplained
<1>1. IInv => LossesAreExplained
  BY DEF IInv, DroppedAreExcused, LaterAreExplained, NullIsExcused, FailureIsExplained,
         LossesAreExplained
<1> QED BY <1>1, SpecIInv, PTL
-----------------------------------------------------------------------------
(* The work list neither forgets nor repeats a reference                   *)

InTransit == Loading \/ Linking
Due(n, o) == Count(document.refs[nodes[n]], LAMBDA p : p = o)
Booked(n, o) == Linked(n, o) + Waiting(n, o) + Lost(n, o)
Kept(n, o) ==
  \/ Booked(n, o) + InFlight(n, o) = Due(n, o)
  \/ pc = "failed" /\ Booked(n, o) + InFlight(n, o) + 1 = Due(n, o) /\ reference = Reference(n, o)

LEMMA ReferenceIsPair ==
  ASSUME NEW n, NEW m, NEW o, NEW p
  PROVE  Reference(n, o) = Reference(m, p) <=> n = m /\ o = p
<1>1. /\ Reference(n, o).from = n /\ Reference(n, o).to = o
      /\ Reference(m, p).from = m /\ Reference(m, p).to = p
  BY DEF Reference
<1> QED BY <1>1

LEMMA ConservedForms ==
  /\ ReferencesConserved <=> \A n \in DOMAIN nodes, o \in Objects : Kept(n, o)
  /\ ReferencesConserved' <=> \A n \in DOMAIN nodes', o \in Objects : Kept(n, o)'
BY DEF ReferencesConserved, Kept, Booked, Due

Links(n, o) == {e \in (DOMAIN nodes) \X (DOMAIN nodes) : e[1] = n /\ nodes[e[2]] = o}

LEMMA BookNumbers ==
  ASSUME LoopTypes, NEW n \in DOMAIN nodes, NEW o \in Objects
  PROVE  /\ Linked(n, o) = Cardinality(HitsIn(edges, Links(n, o)))
         /\ Waiting(n, o) = Cardinality(HitsIn(pending, {Reference(n, o)}))
         /\ Lost(n, o) = Cardinality(HitsIn(dropped, {Reference(n, o)}))
         /\ Due(n, o) = Cardinality(HitsIn(document.refs[nodes[n]], {o}))
         /\ Linked(n, o) \in Nat /\ Waiting(n, o) \in Nat /\ Lost(n, o) \in Nat
         /\ Booked(n, o) \in Nat /\ Due(n, o) \in Nat
         /\ InFlight(n, o) = IF InTransit /\ reference = Reference(n, o) THEN 1 ELSE 0
<1>1. \A i \in DOMAIN edges : edges[i] \in (DOMAIN nodes) \X (DOMAIN nodes)
  BY LenProperties, ElementOfSeq DEF LoopTypes
<1>2. HitsIn(edges, Links(n, o))
        = {i \in DOMAIN edges : edges[i][1] = n /\ nodes[edges[i][2]] = o}
  BY <1>1 DEF HitsIn, Links
<1>3. Linked(n, o) = Cardinality(HitsIn(edges, Links(n, o)))
  BY <1>2 DEF Linked, Count
<1>4. Waiting(n, o) = Cardinality(HitsIn(pending, {Reference(n, o)}))
  BY DEF Waiting, Count, HitsIn
<1>5. Lost(n, o) = Cardinality(HitsIn(dropped, {Reference(n, o)}))
  BY DEF Lost, Count, HitsIn
<1>6. Due(n, o) = Cardinality(HitsIn(document.refs[nodes[n]], {o}))
  BY DEF Due, Count, HitsIn
<1>7. nodes[n] \in Objects
  BY ElementOfSeq, LenProperties DEF LoopTypes
<1>8. document.refs[nodes[n]] \in Seq(Objects)
  BY <1>7, InputTypes
<1>9. Linked(n, o) \in Nat
  BY <1>3, HitsAreFinite DEF LoopTypes
<1>10. Waiting(n, o) \in Nat
  BY <1>4, HitsAreFinite DEF LoopTypes
<1>11. Lost(n, o) \in Nat
  BY <1>5, HitsAreFinite DEF LoopTypes
<1>12. Due(n, o) \in Nat
  BY <1>6, <1>8, HitsAreFinite
<1>13. InFlight(n, o) = IF InTransit /\ reference = Reference(n, o) THEN 1 ELSE 0
  BY DEF InFlight, InTransit, Loading, Linking
<1> QED BY <1>3, <1>4, <1>5, <1>6, <1>9, <1>10, <1>11, <1>12, <1>13 DEF Booked

(* A step that leaves the books alone may fail on the reference that is    *)
(* being resolved, and no other.                                           *)
LEMMA BooksUntouched ==
  ASSUME LoopTypes, ReferencesConserved, pc # "failed",
         UNCHANGED <<document, nodes, edges, pending, dropped, reference>>,
         InTransit' => InTransit, InTransit => InTransit' \/ pc' = "failed"
  PROVE  ReferencesConserved'
<1> SUFFICES ASSUME NEW n \in DOMAIN nodes, NEW o \in Objects PROVE Kept(n, o)'
  BY ConservedForms
<1>1. Booked(n, o)' = Booked(n, o) /\ Due(n, o)' = Due(n, o)
  BY DEF Booked, Due, Count, Linked, Waiting, Lost
<1>2. Booked(n, o) + InFlight(n, o) = Due(n, o)
  BY ConservedForms DEF Kept
<1>3. /\ Booked(n, o) \in Nat /\ Due(n, o) \in Nat
      /\ InFlight(n, o) = IF InTransit /\ reference = Reference(n, o) THEN 1 ELSE 0
  BY BookNumbers
<1>4. InFlight(n, o)' = IF InTransit' /\ reference = Reference(n, o) THEN 1 ELSE 0
  BY DEF InFlight, InTransit, Loading, Linking
<1>5. CASE InTransit' <=> InTransit
  BY <1>1, <1>2, <1>3, <1>4, <1>5 DEF Kept
<1>6. CASE InTransit /\ ~InTransit' /\ pc' = "failed"
  BY <1>1, <1>2, <1>3, <1>4, <1>6 DEF Kept
<1> QED BY <1>5, <1>6

(* A reference is taken from the front of the list to be resolved.         *)
LEMMA PopKeepsBooks ==
  ASSUME IInv, ReferencesConserved, Pop
  PROVE  ReferencesConserved'
<1>1. LoopTypes /\ pc = "next" /\ pending # <<>> /\ ~InTransit /\ pending \in Seq(Refers)
  BY IInvHalves DEF LoopInv, Pop, InTransit, Loading, Linking, LoopTypes
<1>2. CASE stopped /\ Fail
  <2>1. UNCHANGED <<document, nodes, edges, pending, dropped, reference>> /\ pc' = "failed"
    BY <1>2 DEF Fail, Abort, Goto, input, graph
  <2>2. ~InTransit'
    BY <2>1 DEF InTransit, Loading, Linking
  <2> QED BY <1>1, <2>1, <2>2, BooksUntouched
<1>3. CASE ~(stopped /\ Fail)
  <2>1. /\ reference' = Head(pending) /\ pending' = Tail(pending)
        /\ UNCHANGED <<document, nodes, edges, dropped>>
        /\ pc' \in {"edge", "object"}
    BY <1>3 DEF Pop, Goto, input, graph
  <2> SUFFICES ASSUME NEW n \in DOMAIN nodes, NEW o \in Objects PROVE Kept(n, o)'
    BY <2>1, ConservedForms
  <2> DEFINE r == Reference(n, o)
  <2>2. /\ Linked(n, o) \in Nat /\ Waiting(n, o) \in Nat /\ Lost(n, o) \in Nat /\ Due(n, o) \in Nat
        /\ InFlight(n, o) = 0
        /\ Waiting(n, o) = Cardinality(HitsIn(pending, {r}))
    BY <1>1, BookNumbers
  <2>3. Linked(n, o) + Waiting(n, o) + Lost(n, o) = Due(n, o)
    BY <1>1, <2>2, ConservedForms DEF Kept, Booked
  <2>4. Linked(n, o)' = Linked(n, o) /\ Lost(n, o)' = Lost(n, o) /\ Due(n, o)' = Due(n, o)
    BY <2>1 DEF Linked, Lost, Due, Count
  <2>5. Waiting(n, o)' = Cardinality(HitsIn(Tail(pending), {r}))
    BY <2>1 DEF Waiting, Count, HitsIn
  <2>6. InFlight(n, o)' = IF Head(pending) = r THEN 1 ELSE 0
    BY <2>1 DEF InFlight
  <2>7. Cardinality(HitsIn(pending, {r}))
          = Cardinality(HitsIn(Tail(pending), {r})) + (IF Head(pending) \in {r} THEN 1 ELSE 0)
    BY <1>1, HitsOfTail
  <2>8. Cardinality(HitsIn(Tail(pending), {r})) \in Nat
    BY <1>1, HeadTailProperties, HitsAreFinite
  <2>9. Booked(n, o)' + InFlight(n, o)' = Due(n, o)'
    <3>1. Booked(n, o)' = Linked(n, o)' + Waiting(n, o)' + Lost(n, o)'
      BY DEF Booked
    <3> QED BY <2>2, <2>3, <2>4, <2>5, <2>6, <2>7, <2>8, <3>1
  <2> QED BY <2>9 DEF Kept
<1> QED BY <1>2, <1>3

(* One that cannot be resolved is given up with a warning.                 *)
LEMMA DropKeepsBooks ==
  ASSUME LoopTypes, ReferencesConserved, InTransit, Drop
  PROVE  ReferencesConserved'
<1>1. /\ pc' = "next" /\ dropped' = Append(dropped, reference) /\ reference \in Refers
      /\ UNCHANGED <<document, nodes, edges, pending, reference>> /\ dropped \in Seq(Refers)
      /\ pc # "failed"
  BY DEF Drop, Goto, input, graph, LoopTypes, InTransit, Loading, Linking
<1> SUFFICES ASSUME NEW n \in DOMAIN nodes, NEW o \in Objects PROVE Kept(n, o)'
  BY <1>1, ConservedForms
<1> DEFINE r == Reference(n, o)
<1>2. /\ Linked(n, o) \in Nat /\ Waiting(n, o) \in Nat /\ Lost(n, o) \in Nat /\ Due(n, o) \in Nat
      /\ InFlight(n, o) = IF reference = r THEN 1 ELSE 0
      /\ Lost(n, o) = Cardinality(HitsIn(dropped, {r}))
  BY BookNumbers
<1>3. Linked(n, o) + Waiting(n, o) + Lost(n, o) + InFlight(n, o) = Due(n, o)
  BY <1>1, ConservedForms DEF Kept, Booked
<1>4. Linked(n, o)' = Linked(n, o) /\ Waiting(n, o)' = Waiting(n, o) /\ Due(n, o)' = Due(n, o)
  BY <1>1 DEF Linked, Waiting, Due, Count
<1>5. Lost(n, o)' = Cardinality(HitsIn(Append(dropped, reference), {r}))
  BY <1>1 DEF Lost, Count, HitsIn
<1>6. InFlight(n, o)' = 0
  BY <1>1 DEF InFlight
<1>7. Cardinality(HitsIn(Append(dropped, reference), {r}))
        = Cardinality(HitsIn(dropped, {r})) + (IF reference \in {r} THEN 1 ELSE 0)
  BY <1>1, HitsOfAppend
<1>8. Booked(n, o)' + InFlight(n, o)' = Due(n, o)'
  <2>1. Booked(n, o)' = Linked(n, o)' + Waiting(n, o)' + Lost(n, o)'
    BY DEF Booked
  <2> QED BY <1>2, <1>3, <1>4, <1>5, <1>6, <1>7, <2>1
<1> QED BY <1>8 DEF Kept

(* One whose object has a node gets its edge.                              *)
LEMMA AddEdgeKeepsBooks ==
  ASSUME IInv, ReferencesConserved, AddEdge
  PROVE  ReferencesConserved'
<1>1. LoopTypes /\ pc = "link" /\ InTransit /\ pc # "failed"
      /\ WorkIsFromValues /\ NodesAreNeeded /\ OneNodePerObject /\ Linking
  BY IInvHalves DEF LoopInv, AddEdge, InTransit, Linking
<1>2. CASE Fail
  <2>1. UNCHANGED <<document, nodes, edges, pending, dropped, reference>> /\ pc' = "failed"
    BY <1>2 DEF Fail, Abort, Goto, input, graph
  <2>2. ~InTransit'
    BY <2>1 DEF InTransit, Loading, Linking
  <2> QED BY <1>1, <2>1, <2>2, BooksUntouched
<1>3. CASE ~Fail
  <2> DEFINE e == <<reference.from, objectToNode[reference.to]>>
  <2>1. /\ edges' = Append(edges, e) /\ pc' = "next"
        /\ UNCHANGED <<document, nodes, pending, dropped, reference>>
    BY <1>3 DEF AddEdge, Goto, input
  <2>2. /\ reference \in Refers /\ reference.from \in DOMAIN nodes
        /\ objectToNode[reference.to] \in DOMAIN nodes
        /\ nodes[objectToNode[reference.to]] = reference.to
    BY <1>1 DEF LoopTypes, WorkIsFromValues, IsReferenceOf, NodesAreNeeded, OneNodePerObject, Made
  <2>3. e \in (DOMAIN nodes) \X (DOMAIN nodes) /\ e[1] = reference.from
        /\ nodes[e[2]] = reference.to
    BY <2>2
  <2> HIDE DEF e
  <2> SUFFICES ASSUME NEW n \in DOMAIN nodes, NEW o \in Objects PROVE Kept(n, o)'
    BY <2>1, ConservedForms
  <2>4. /\ Linked(n, o) \in Nat /\ Waiting(n, o) \in Nat /\ Lost(n, o) \in Nat /\ Due(n, o) \in Nat
        /\ InFlight(n, o) = IF reference = Reference(n, o) THEN 1 ELSE 0
        /\ Linked(n, o) = Cardinality(HitsIn(edges, Links(n, o)))
    BY <1>1, BookNumbers
  <2>5. Linked(n, o) + Waiting(n, o) + Lost(n, o) + InFlight(n, o) = Due(n, o)
    BY <1>1, ConservedForms DEF Kept, Booked
  <2>6. Lost(n, o)' = Lost(n, o) /\ Waiting(n, o)' = Waiting(n, o) /\ Due(n, o)' = Due(n, o)
    BY <2>1 DEF Lost, Waiting, Due, Count
  <2>7. edges \in Seq((DOMAIN nodes) \X (DOMAIN nodes))
        /\ Append(edges, e) \in Seq((DOMAIN nodes) \X (DOMAIN nodes))
    BY <1>1, <2>3, AppendProperties DEF LoopTypes
  <2>8. Linked(n, o)' = Cardinality(HitsIn(Append(edges, e), Links(n, o)))
    <3>1. \A i \in DOMAIN Append(edges, e) : Append(edges, e)[i] \in (DOMAIN nodes) \X (DOMAIN nodes)
      BY <2>7, LenProperties, ElementOfSeq
    <3>2. HitsIn(Append(edges, e), Links(n, o))
            = {i \in DOMAIN Append(edges, e) : Append(edges, e)[i][1] = n
                                               /\ nodes[Append(edges, e)[i][2]] = o}
      BY <3>1 DEF HitsIn, Links
    <3> QED BY <2>1, <3>2 DEF Linked, Count
  <2>9. Cardinality(HitsIn(Append(edges, e), Links(n, o)))
          = Cardinality(HitsIn(edges, Links(n, o))) + (IF e \in Links(n, o) THEN 1 ELSE 0)
    BY <2>3, <2>7, HitsOfAppend
  <2>10. e \in Links(n, o) <=> reference = Reference(n, o)
    BY <2>2, <2>3 DEF Links, Reference, Refers
  <2>11. InFlight(n, o)' = 0
    BY <2>1 DEF InFlight
  <2>12. Booked(n, o)' + InFlight(n, o)' = Due(n, o)'
    <3>1. Booked(n, o)' = Linked(n, o)' + Waiting(n, o)' + Lost(n, o)'
      BY DEF Booked
    <3> QED BY <2>4, <2>5, <2>6, <2>8, <2>9, <2>10, <2>11, <3>1
  <2> QED BY <2>12 DEF Kept
<1> QED BY <1>2, <1>3

(* A new node brings the references in its value, and nothing else in the  *)
(* books is about it.                                                      *)
LEMMA CreateNodeKeepsBooks ==
  ASSUME IInv, ReferencesConserved, CreateNode, ~Drop
  PROVE  ReferencesConserved'
<1> DEFINE N == Len(nodes) + 1
           new == Collect(N, reference.to)
<1>1. LoopTypes /\ pc = "node" /\ InTransit /\ Loading /\ WorkIsFromValues
  BY IInvHalves DEF LoopInv, CreateNode, InTransit, Loading
<1>2. /\ nodes' = Append(nodes, reference.to) /\ pending' = pending \o new
      /\ pc' = "edge" /\ UNCHANGED <<document, reference, edges, dropped>>
  BY <1>1 DEF CreateNode, AddNode, Goto, input
<1>3. /\ reference \in Refers /\ reference.to \in Objects /\ reference.from \in DOMAIN nodes
      /\ N \in Nat /\ nodes \in Seq(Objects) /\ DOMAIN nodes = 1..Len(nodes) /\ Len(nodes) \in Nat
  BY <1>1, LenProperties DEF LoopTypes, Refers, WorkIsFromValues, IsReferenceOf
<1>4. /\ DOMAIN nodes' = 1..N /\ nodes'[N] = reference.to /\ N \notin DOMAIN nodes
      /\ \A n \in DOMAIN nodes : n \in DOMAIN nodes' /\ nodes'[n] = nodes[n]
  BY <1>2, <1>3, AppendProperties
<1>5. /\ new \in Seq(Refers) /\ DOMAIN new = DOMAIN document.refs[reference.to]
      /\ \A i \in DOMAIN new : new[i] = Reference(N, document.refs[reference.to][i])
  BY <1>1, <1>3, CollectType
<1>6. pending \in Seq(Refers) /\ dropped \in Seq(Refers)
  BY <1>1 DEF LoopTypes
<1>7. /\ \A i \in DOMAIN edges : edges[i] \in (DOMAIN nodes) \X (DOMAIN nodes)
  BY <1>1, LenProperties, ElementOfSeq DEF LoopTypes
<1> HIDE DEF new
<1> SUFFICES ASSUME NEW n \in 1..N, NEW o \in Objects PROVE Kept(n, o)'
  BY <1>4, ConservedForms
<1> DEFINE r == Reference(n, o)
<1>8. Waiting(n, o)' = Cardinality(HitsIn(pending \o new, {r}))
  BY <1>2 DEF Waiting, Count, HitsIn
<1>9. Cardinality(HitsIn(pending \o new, {r}))
        = Cardinality(HitsIn(pending, {r})) + Cardinality(HitsIn(new, {r}))
  BY <1>5, <1>6, HitsOfConcat
<1>10. Lost(n, o)' = Lost(n, o)
  BY <1>2 DEF Lost, Count
<1>11. InFlight(n, o)' = IF reference = r THEN 1 ELSE 0
  BY <1>2 DEF InFlight
<1>12. Booked(n, o)' = Linked(n, o)' + Waiting(n, o)' + Lost(n, o)'
  BY DEF Booked
<1>13. CASE n # N
  <2>1. n \in DOMAIN nodes
    BY <1>3, <1>13
  <2>2. /\ Linked(n, o) \in Nat /\ Waiting(n, o) \in Nat /\ Lost(n, o) \in Nat /\ Due(n, o) \in Nat
        /\ InFlight(n, o) = IF reference = r THEN 1 ELSE 0
        /\ Waiting(n, o) = Cardinality(HitsIn(pending, {r}))
    BY <1>1, <2>1, BookNumbers
  <2>3. Linked(n, o) + Waiting(n, o) + Lost(n, o) + InFlight(n, o) = Due(n, o)
    BY <1>1, <2>1, ConservedForms DEF Kept, Booked
  <2>4. Linked(n, o)' = Linked(n, o)
    <3>1. \A i \in DOMAIN edges : nodes'[edges[i][2]] = nodes[edges[i][2]]
      BY <1>4, <1>7
    <3>2. {i \in DOMAIN edges : edges[i][1] = n /\ nodes'[edges[i][2]] = o}
            = {i \in DOMAIN edges : edges[i][1] = n /\ nodes[edges[i][2]] = o}
      BY <3>1
    <3> QED BY <1>2, <3>2 DEF Linked, Count
  <2>5. Due(n, o)' = Due(n, o)
    BY <1>2, <1>4, <2>1 DEF Due, Count
  <2>6. Cardinality(HitsIn(new, {r})) = 0
    <3>1. \A i \in DOMAIN new : new[i] # r
      <4>1. ASSUME NEW i \in DOMAIN new PROVE new[i] # r
        <5>1. new[i] = Reference(N, document.refs[reference.to][i])
          BY <1>5
        <5> QED BY <1>13, <5>1, ReferenceIsPair
      <4> QED BY <4>1
    <3>2. HitsIn(new, {r}) = {}
      BY <3>1 DEF HitsIn
    <3> QED BY <3>2, FS_EmptySet
  <2>7. Booked(n, o)' + InFlight(n, o)' = Due(n, o)'
    BY <1>8, <1>9, <1>10, <1>11, <1>12, <2>2, <2>3, <2>4, <2>5, <2>6
  <2> QED BY <2>7 DEF Kept
<1>14. CASE n = N
  <2>1. Linked(n, o)' = 0
    <3>1. \A i \in DOMAIN edges : edges[i][1] # n
      BY <1>4, <1>7, <1>14
    <3>2. {i \in DOMAIN edges : edges[i][1] = n /\ nodes'[edges[i][2]] = o} = {}
      BY <3>1
    <3> QED BY <1>2, <3>2, FS_EmptySet DEF Linked, Count
  <2>2. Lost(n, o) = 0
    <3>1. \A i \in DOMAIN dropped : dropped[i] # r
      BY <1>1, <1>4, <1>14 DEF WorkIsFromValues, Reference
    <3>2. {i \in DOMAIN dropped : dropped[i] = r} = {}
      BY <3>1
    <3> QED BY <3>2, FS_EmptySet DEF Lost, Count
  <2>3. Cardinality(HitsIn(pending, {r})) = 0
    <3>1. \A i \in DOMAIN pending : pending[i] # r
      BY <1>1, <1>4, <1>14 DEF WorkIsFromValues, IsReferenceOf, Reference
    <3>2. HitsIn(pending, {r}) = {}
      BY <3>1 DEF HitsIn
    <3> QED BY <3>2, FS_EmptySet
  <2>4. reference # r
    BY <1>3, <1>4, <1>14 DEF Reference
  <2>5. HitsIn(new, {r}) = {i \in DOMAIN document.refs[reference.to] : document.refs[reference.to][i] = o}
    <3>1. ASSUME NEW i \in DOMAIN new
          PROVE  new[i] \in {r} <=> document.refs[reference.to][i] = o
      <4>1. new[i] = Reference(N, document.refs[reference.to][i])
        BY <1>5
      <4> QED BY <1>14, <4>1, ReferenceIsPair
    <3> QED BY <1>5, <3>1 DEF HitsIn
  <2>6. Due(n, o)' = Cardinality(HitsIn(new, {r}))
    BY <1>2, <1>4, <1>14, <2>5 DEF Due, Count
  <2>7. Cardinality(HitsIn(new, {r})) \in Nat
    BY <1>5, HitsAreFinite
  <2>8. Booked(n, o)' + InFlight(n, o)' = Due(n, o)'
    BY <1>8, <1>9, <1>10, <1>11, <1>12, <2>1, <2>2, <2>3, <2>4, <2>6, <2>7
  <2> QED BY <2>8 DEF Kept
<1> QED BY <1>13, <1>14

(* The first pass collects the references of each node once.               *)
LEMMA InitKeepsBooks ==
  ASSUME Init
  PROVE  ReferencesConserved
<1> DEFINE roots == document.roots
           lists == [n \in DOMAIN roots |-> Collect(n, roots[n])]
<1>1. LoopTypes
  BY InitIInv, IInvHalves DEF LoopInv
<1>2. /\ roots \in Seq(Objects) /\ nodes = roots /\ Len(roots) \in Nat
      /\ DOMAIN roots = 1..Len(roots) /\ \A n \in DOMAIN roots : roots[n] \in Objects
  BY <1>1, InputTypes, LenProperties, ElementOfSeq DEF Init
<1>3. \A n \in DOMAIN roots : Collect(n, roots[n]) \in Seq(Refers)
  BY <1>1, <1>2, CollectType
<1>4. lists \in Seq(Seq(Refers)) /\ Len(lists) = Len(roots)
      /\ \A n \in DOMAIN roots : lists[n] = Collect(n, roots[n])
  <2>1. lists \in [1..Len(roots) -> Seq(Refers)]
    BY <1>2, <1>3
  <2>2. DOMAIN lists = 1..Len(roots) /\ \A n \in DOMAIN roots : lists[n] = Collect(n, roots[n])
    BY <1>2
  <2> HIDE DEF lists
  <2>3. lists \in Seq(Seq(Refers))
    BY <1>2, <2>1, SeqDef
  <2> QED BY <1>2, <2>2, <2>3, LenProperties
<1>5. pending = FlattenSeq(lists)
  BY DEF Init
<1> HIDE DEF lists
<1> SUFFICES ASSUME NEW n \in DOMAIN roots, NEW o \in Objects PROVE Kept(n, o)
  BY <1>2, ConservedForms
<1> DEFINE r == Reference(n, o)
<1>6. n \in 1..Len(lists) /\ n \in Nat /\ roots[n] \in Objects
  BY <1>2, <1>4
<1>7. \A m \in 1..Len(lists) : /\ DOMAIN lists[m] = DOMAIN document.refs[roots[m]]
                               /\ \A i \in DOMAIN lists[m] :
                                    lists[m][i] = Reference(m, document.refs[roots[m]][i])
  <2>1. ASSUME NEW m \in DOMAIN roots
        PROVE  /\ DOMAIN Collect(m, roots[m]) = DOMAIN document.refs[roots[m]]
               /\ \A i \in DOMAIN document.refs[roots[m]] :
                    Collect(m, roots[m])[i] = Reference(m, document.refs[roots[m]][i])
    BY <1>1, <1>2, CollectType
  <2> QED BY <1>2, <1>4, <2>1
<1>8. \A m \in 1..Len(lists) : m # n => HitsIn(lists[m], {r}) = {}
  <2>1. ASSUME NEW m \in 1..Len(lists), m # n, NEW i \in DOMAIN lists[m]
        PROVE  lists[m][i] # r
    <3>1. lists[m][i] = Reference(m, document.refs[roots[m]][i])
      BY <1>7
    <3> QED BY <2>1, <3>1, ReferenceIsPair
  <2> QED BY <2>1 DEF HitsIn
<1>9. Cardinality(HitsIn(FlattenSeq(lists), {r})) = Cardinality(HitsIn(lists[n], {r}))
  BY <1>4, <1>6, <1>8, HitsOfFlatten
<1>10. HitsIn(lists[n], {r}) = HitsIn(document.refs[roots[n]], {o})
  <2>1. ASSUME NEW i \in DOMAIN lists[n]
        PROVE  lists[n][i] \in {r} <=> document.refs[roots[n]][i] \in {o}
    <3>1. lists[n][i] = Reference(n, document.refs[roots[n]][i])
      BY <1>6, <1>7
    <3> QED BY <3>1, ReferenceIsPair
  <2>2. DOMAIN lists[n] = DOMAIN document.refs[roots[n]]
    BY <1>6, <1>7
  <2> QED BY <2>1, <2>2 DEF HitsIn
<1>11. edges = <<>> /\ dropped = <<>> /\ pc = "next" /\ DOMAIN edges = {} /\ DOMAIN dropped = {}
  BY DEF Init
<1>12. Linked(n, o) = 0 /\ Lost(n, o) = 0
  <2>1. {i \in DOMAIN edges : edges[i][1] = n /\ nodes[edges[i][2]] = o} = {}
        /\ {i \in DOMAIN dropped : dropped[i] = r} = {}
    BY <1>11
  <2> QED BY <2>1, FS_EmptySet DEF Linked, Lost, Count
<1>13. /\ Waiting(n, o) = Cardinality(HitsIn(pending, {r}))
       /\ Due(n, o) = Cardinality(HitsIn(document.refs[roots[n]], {o})) /\ Due(n, o) \in Nat
  BY <1>1, <1>2, BookNumbers
<1>14. InFlight(n, o) = 0
  BY <1>11 DEF InFlight
<1> QED BY <1>5, <1>9, <1>10, <1>12, <1>13, <1>14 DEF Kept, Booked

(* A step of the later passes neither takes nor books a reference.         *)
LEMMA PassKeepsBooks ==
  ASSUME IInv, ReferencesConserved,
         \/ PutGlobals \/ LoadPart \/ DecodePart \/ MakePart \/ MakeTint
         \/ AttachPart \/ SharePart \/ EndPasses
  PROVE  ReferencesConserved'
<1>1. LoopTypes /\ pc = "passes" /\ ~InTransit
  BY IInvHalves DEF LoopInv, PutGlobals, LoadPart, DecodePart, MakePart, MakeTint,
                    AttachPart, SharePart, EndPasses, At, InTransit, Loading, Linking
<1>2. /\ UNCHANGED <<document, nodes, edges, pending, dropped, reference>>
      /\ pc' \in {"passes", "failed", "done"}
  <2>1. CASE PutGlobals \/ LoadPart
    BY <1>1, <2>1 DEF PutGlobals, LoadPart, Continue, GoOn, Abort, Goto, input, graph
  <2>2. CASE DecodePart
    <3>1. \/ Continue([i \in 1..document.operators[This.of] |-> [This EXCEPT !.stage = "make"]])
          \/ GoOn("make") \/ Skip
      <4> HIDE DEF This
      <4> QED BY <2>2 DEF DecodePart
    <3>2. UNCHANGED <<input, pc, pending, reference, graph, dropped>>
      BY <3>1 DEF Continue, Skip, GoOn
    <3> QED BY <1>1, <3>2 DEF input, graph
  <2>3. CASE MakePart
    BY <1>1, <2>3 DEF MakePart, Continue, Skip, Fail, Abort, Goto, input, graph
  <2>4. CASE AttachPart
    BY <1>1, <2>4 DEF AttachPart, Continue, Skip, Fail, Abort, Goto, input, graph
  <2>5. CASE SharePart
    BY <1>1, <2>5 DEF SharePart, Continue, Skip, Fail, Abort, Goto, input, graph
  <2>6. CASE EndPasses
    BY <2>6 DEF EndPasses, Proceed, Goto, input, graph
  <2>7. CASE MakeTint
    BY <1>1, <2>7 DEF MakeTint, Continue, Skip, input, graph
  <2> QED BY <2>1, <2>2, <2>3, <2>4, <2>5, <2>6, <2>7
<1>3. ~InTransit'
  BY <1>2 DEF InTransit, Loading, Linking
<1> QED BY <1>1, <1>2, <1>3, BooksUntouched

LEMMA NextKeepsBooks ==
  ASSUME IInv, ReferencesConserved, [Next]_vars
  PROVE  ReferencesConserved'
<1>1. LoopTypes
  BY IInvHalves DEF LoopInv
<1> DEFINE Same == UNCHANGED <<document, nodes, edges, pending, dropped, reference>>
<1>2. CASE UNCHANGED vars
  <2>1. Same /\ UNCHANGED pc
    BY <1>2 DEF vars
  <2> QED BY <2>1, ConservedForms DEF Kept, Booked, Due, Linked, Waiting, Lost, Count, InFlight
<1>3. CASE Stop
  <2>1. Same /\ UNCHANGED pc /\ pc # "failed"
    BY <1>3 DEF Stop, input, graph
  <2>2. InTransit' <=> InTransit
    BY <2>1 DEF InTransit, Loading, Linking
  <2> QED BY <1>1, <2>1, <2>2, BooksUntouched
<1>4. CASE ConsumeObject \/ ReadObject \/ ReadStream \/ ReadCompressed
  <2>1. InTransit /\ pc # "failed"
    BY <1>4 DEF ConsumeObject, ReadObject, ReadStream, ReadCompressed, InTransit, Loading
  <2>2. Drop \/ Proceed("read") \/ Proceed("node")
    BY <1>4 DEF ConsumeObject, ReadObject, ReadStream, ReadCompressed, Repair
  <2>3. CASE Drop
    BY <1>1, <2>1, <2>3, DropKeepsBooks
  <2>4. CASE Proceed("read") \/ Proceed("node")
    <3>1. Same /\ pc' \in {"read", "node"}
      BY <2>4 DEF Proceed, Goto, input, graph
    <3>2. InTransit'
      BY <3>1 DEF InTransit, Loading
    <3> QED BY <1>1, <2>1, <3>1, <3>2, BooksUntouched
  <2> QED BY <2>2, <2>3, <2>4
<1>5. CASE CreateNode
  <2>1. InTransit
    BY <1>5 DEF CreateNode, InTransit, Loading
  <2> QED BY <1>1, <1>5, <2>1, DropKeepsBooks, CreateNodeKeepsBooks
<1>6. CASE ChargeEdge
  <2>1. InTransit /\ pc # "failed" /\ Same /\ pc' \in {"link", "failed"}
    BY <1>6 DEF ChargeEdge, InTransit, Linking, Proceed, Fail, Abort, Goto, input, graph
  <2>2. InTransit' \/ pc' = "failed"
    BY <2>1 DEF InTransit, Linking
  <2> QED BY <1>1, <2>1, <2>2, BooksUntouched
<1>7. CASE ResolveStreamLengths
  <2>1. Same /\ pc = "next" /\ pc' \in {"passes", "failed"}
    BY <1>7 DEF ResolveStreamLengths, Fail, Abort, Goto, input, graph
  <2>2. ~InTransit /\ ~InTransit'
    BY <2>1 DEF InTransit, Loading, Linking
  <2> QED BY <1>1, <2>1, <2>2, BooksUntouched
<1> QED BY <1>2, <1>3, <1>4, <1>5, <1>6, <1>7, PopKeepsBooks, AddEdgeKeepsBooks, PassKeepsBooks
        DEF Next, Step

(* The work list of resolve_references neither forgets nor repeats a       *)
(* reference: each one in the value of a node has an edge, waits, is being *)
(* resolved or was given up with a warning; a failed run has lost the one  *)
(* it failed on.                                                           *)
THEOREM NoReferenceIsForgotten == Spec => []ReferencesConserved
<1>1. Init => IInv /\ ReferencesConserved
  BY InitIInv, InitKeepsBooks
<1>2. IInv /\ ReferencesConserved /\ [Next]_vars => (IInv /\ ReferencesConserved)'
  BY NextIInv, NextKeepsBooks
<1> QED BY <1>1, <1>2, PTL DEF Spec
=============================================================================
