--------------------------- MODULE AstGraphProofs ---------------------------
(***************************************************************************)
(* Proofs about AstGraph, for any contents and hashes and any number of    *)
(* nodes and edges. They are made of one lemma per operation, about any    *)
(* graph and not only those of the state machine: an operation that is     *)
(* composed of these ones keeps what they keep.                            *)
(***************************************************************************)
EXTENDS AstGraph, SequenceLemmas
-----------------------------------------------------------------------------
(* The inductive invariant, of one graph                                   *)

Indexes     == Nat \ {0}
NodeRecords == [id : Nat, content : Contents, children : Seq(Nat), references : Seq(Nat)]
EdgeRecords == [from : Indexes, to : Indexes, type : EdgeTypes]

IsGraphRecord(g) ==
  DOMAIN g = {"slots", "edges", "map", "known", "next", "derived", "exact", "panicked"}

GraphTypes(g) ==
  /\ IsGraphRecord(g)
  /\ g.slots \in Seq(NodeRecords)
  /\ g.edges \in Seq(EdgeRecords)
  /\ DOMAIN g.map \subseteq Nat
  /\ IsFiniteSet(DOMAIN g.map)
  /\ g.map \in [DOMAIN g.map -> Indexes]
  /\ g.known \in [Contents -> Nat \cup {NoId}]
  /\ g.next \in Nat
  /\ g.derived \in BOOLEAN
  /\ g.exact \in BOOLEAN
  /\ g.panicked \in BOOLEAN

(* The ids in use are no more than the nodes, so a free one is found after *)
(* at most so many; and a content that was given an id may be given it     *)
(* again, although its node is gone.                                       *)
IdsAreFresh(g) ==
  /\ Cardinality(DOMAIN g.map) <= Len(g.slots)
  /\ \A id \in DOMAIN g.map : id < g.next
  /\ \A c \in Contents : g.known[c] # NoId => g.known[c] < g.next

(* The three parts of MapIsExact: ids and nodes are one to one, edges      *)
(* connect nodes, and Child edges are in the lists.                        *)
IdsAreNodes(g) ==
  /\ \A id \in DOMAIN g.map : g.map[id] \in DOMAIN g.slots /\ g.slots[g.map[id]].id = id
  /\ \A i \in DOMAIN g.slots : g.slots[i].id \in DOMAIN g.map /\ g.map[g.slots[i].id] = i

EdgesConnect(g) ==
  \A k \in DOMAIN g.edges :
    g.edges[k].from \in DOMAIN g.slots /\ g.edges[k].to \in DOMAIN g.slots

IsListed(parent, node) == \E x \in DOMAIN parent.children : parent.children[x] = node.id

ChildrenAreListed(g) ==
  \A k \in DOMAIN g.edges :
    g.edges[k].type = "child" =>
      IsListed(g.slots[g.edges[k].from], g.slots[g.edges[k].to])

ExactGraph(g) ==
  /\ ~g.panicked
  /\ IdsAreNodes(g)
  /\ EdgesConnect(g)
  /\ ChildrenAreListed(g)

GraphInv(g) ==
  /\ GraphTypes(g)
  /\ IdsAreFresh(g)
  /\ g.exact => ExactGraph(g)

LEMMA InvIsEnough ==
  ASSUME GraphInv(graph)
  PROVE  NextIdIsFresh /\ MapIsExact
<1>1. NextIdIsFresh
  BY DEF GraphInv, IdsAreFresh, NextIdIsFresh
<1>2. ASSUME graph.exact
      PROVE  /\ ~graph.panicked
             /\ \A id \in DOMAIN graph.map : Found(graph, id) /\ GetNode(graph, id).id = id
             /\ \A i \in DOMAIN graph.slots : /\ Has(graph, graph.slots[i].id)
                                              /\ graph.map[graph.slots[i].id] = i
  BY <1>2 DEF GraphInv, ExactGraph, IdsAreNodes, Found, Has, InRange, GetNode
<1>3. ASSUME graph.exact, NEW k \in DOMAIN graph.edges
      PROVE  LET e == graph.edges[k] IN
             /\ InRange(graph, e.from) /\ InRange(graph, e.to)
             /\ e.type = "child" =>
                  graph.slots[e.to].id \in Range(graph.slots[e.from].children)
  BY <1>3 DEF GraphInv, ExactGraph, EdgesConnect, ChildrenAreListed, IsListed, InRange, Range
<1> QED BY <1>1, <1>2, <1>3 DEF MapIsExact
-----------------------------------------------------------------------------
(* Sequences                                                               *)

LEMMA FrontOfSeq ==
  ASSUME NEW S, NEW s \in Seq(S), s # <<>>
  PROVE  /\ Front(s) \in Seq(S) /\ Len(Front(s)) = Len(s) - 1
         /\ DOMAIN Front(s) = 1 .. Len(s) - 1
         /\ \A i \in 1 .. Len(s) - 1 : Front(s)[i] = s[i]
<1>1. Len(s) \in Nat /\ Len(s) # 0 /\ Front(s) = SubSeq(s, 1, Len(s) - 1)
  BY EmptySeq, LenProperties DEF Front
<1>2. \A i \in 1 .. Len(s) - 1 : s[i] \in S
  BY <1>1, ElementOfSeq
<1>3. /\ Front(s) \in Seq(S)
      /\ Len(Front(s)) = IF 1 <= Len(s) - 1 THEN Len(s) - 1 - 1 + 1 ELSE 0
      /\ \A i \in 1 .. Len(s) - 1 - 1 + 1 : Front(s)[i] = s[1 + i - 1]
  BY <1>1, <1>2, SubSeqProperties
<1>4. Len(Front(s)) = Len(s) - 1
  <2> DEFINE n == Len(s)
  <2>1. Len(Front(s)) = IF 1 <= n - 1 THEN n - 1 - 1 + 1 ELSE 0
    BY <1>3
  <2>2. n \in Nat /\ n # 0
    BY <1>1
  <2> HIDE DEF n
  <2>3. Len(Front(s)) = n - 1
    BY <2>1, <2>2
  <2> QED BY <2>3 DEF n
<1>5. DOMAIN Front(s) = 1..Len(Front(s))
  BY <1>3, LenProperties
<1>6. \A i \in 1 .. Len(s) - 1 : Front(s)[i] = s[i]
  BY <1>1, <1>3
<1> QED BY <1>3, <1>4, <1>5, <1>6

(* Every element of a sequence without one is an element of it.            *)
LEMMA ElementsOfRemoveAt ==
  ASSUME NEW S, NEW s \in Seq(S), NEW k \in DOMAIN s
  PROVE  /\ RemoveAt(s, k) \in Seq(S)
         /\ \A i \in DOMAIN RemoveAt(s, k) : \E j \in DOMAIN s : RemoveAt(s, k)[i] = s[j]
<1> DEFINE a == SubSeq(s, 1, k - 1)
           b == SubSeq(s, k + 1, Len(s))
           T == {s[j] : j \in DOMAIN s}
<1>1. Len(s) \in Nat /\ DOMAIN s = 1..Len(s) /\ k \in Nat /\ 1 <= k /\ k <= Len(s)
  BY LenProperties
<1>2. \A i \in 1 .. k - 1 : s[i] \in T
  BY <1>1
<1>3. \A i \in k + 1 .. Len(s) : s[i] \in T
  BY <1>1
<1> HIDE DEF T
<1>4. a \in Seq(T)
  BY <1>1, <1>2, SubSeqProperties
<1>5. b \in Seq(T)
  BY <1>1, <1>3, SubSeqProperties
<1> HIDE DEF a, b
<1>6. a \o b \in Seq(T)
  BY <1>4, <1>5, ConcatProperties
<1>7. RemoveAt(s, k) = a \o b
  BY DEF RemoveAt, a, b
<1>8. /\ Len(a \o b) \in Nat /\ DOMAIN (a \o b) = 1..Len(a \o b)
      /\ \A i \in DOMAIN (a \o b) : (a \o b)[i] \in T
  BY <1>6, LenProperties, ElementOfSeq
<1>9. \A x \in T : x \in S /\ \E j \in DOMAIN s : x = s[j]
  BY <1>1, ElementOfSeq DEF T
<1>10. a \o b \in Seq(S)
  <2> DEFINE c == a \o b
  <2>1. c \in Seq(T) /\ Len(c) \in Nat /\ \A i \in 1..Len(c) : c[i] \in S
    BY <1>6, <1>8, <1>9
  <2> HIDE DEF c
  <2>2. c \in [1..Len(c) -> T]
    BY <2>1, LenProperties
  <2>3. c = [i \in 1..Len(c) |-> c[i]]
    BY <2>2
  <2>4. c \in Seq(S)
    BY <2>1, <2>3
  <2> QED BY <2>4 DEF c
<1> QED BY <1>7, <1>8, <1>9, <1>10
-----------------------------------------------------------------------------
(* The operations on nodes                                                 *)

LEMMA GraphParts ==
  ASSUME NEW g, GraphTypes(g)
  PROVE  /\ Len(g.slots) \in Nat /\ DOMAIN g.slots = 1..Len(g.slots)
         /\ Len(g.edges) \in Nat /\ DOMAIN g.edges = 1..Len(g.edges)
         /\ \A i \in DOMAIN g.slots : g.slots[i] \in NodeRecords
         /\ \A k \in DOMAIN g.edges : g.edges[k] \in EdgeRecords
         /\ \A id \in DOMAIN g.map : id \in Nat /\ g.map[id] \in Indexes
         /\ Cardinality(DOMAIN g.map) \in Nat
<1>1. /\ g.slots \in Seq(NodeRecords) /\ g.edges \in Seq(EdgeRecords)
      /\ IsFiniteSet(DOMAIN g.map) /\ DOMAIN g.map \subseteq Nat
      /\ g.map \in [DOMAIN g.map -> Indexes]
  BY DEF GraphTypes
<1>2. /\ Len(g.slots) \in Nat /\ DOMAIN g.slots = 1..Len(g.slots)
      /\ \A i \in DOMAIN g.slots : g.slots[i] \in NodeRecords
  BY <1>1, LenProperties, ElementOfSeq
<1>3. /\ Len(g.edges) \in Nat /\ DOMAIN g.edges = 1..Len(g.edges)
      /\ \A k \in DOMAIN g.edges : g.edges[k] \in EdgeRecords
  BY <1>1, LenProperties, ElementOfSeq
<1>4. Cardinality(DOMAIN g.map) \in Nat
  BY <1>1, FS_CardinalityType
<1> QED BY <1>1, <1>2, <1>3, <1>4

LEMMA InsertKeepsInv ==
  ASSUME NEW g, GraphInv(g), NEW id \in Nat, NEW c \in Contents, id < g.next
  PROVE  GraphInv(Insert(g, id, c))
<1> DEFINE h == Insert(g, id, c)
           D == DOMAIN g.map
           N == Len(g.slots) + 1
<1>1. GraphTypes(g) /\ IdsAreFresh(g) /\ (g.exact => ExactGraph(g))
  BY DEF GraphInv
<1>2. /\ h.slots = Append(g.slots, Node(id, c)) /\ h.map = Put(g.map, id, N)
      /\ h.exact = (g.exact /\ ~Has(g, id))
      /\ h.edges = g.edges /\ h.known = g.known /\ h.next = g.next
      /\ h.derived = g.derived /\ h.panicked = g.panicked
      /\ IsGraphRecord(h)
  <2>1. IsGraphRecord(g)
    BY <1>1 DEF GraphTypes
  <2> QED BY <2>1 DEF Insert, IsGraphRecord
<1> HIDE DEF h
<1>3. /\ Len(g.slots) \in Nat /\ DOMAIN g.slots = 1..Len(g.slots) /\ D \subseteq Nat
      /\ IsFiniteSet(D) /\ g.map \in [D -> Indexes] /\ Cardinality(D) \in Nat
      /\ g.slots \in Seq(NodeRecords) /\ g.next \in Nat
  BY <1>1, GraphParts DEF GraphTypes
<1>4. Node(id, c) \in NodeRecords /\ Node(id, c).id = id
  BY DEF Node, NodeRecords
<1>5. /\ h.slots \in Seq(NodeRecords) /\ Len(h.slots) = N /\ DOMAIN h.slots = 1..N
      /\ h.slots[N] = Node(id, c)
      /\ \A i \in DOMAIN g.slots : h.slots[i] = g.slots[i]
  <2>1. /\ h.slots \in Seq(NodeRecords) /\ Len(h.slots) = N
        /\ h.slots[N] = Node(id, c)
        /\ \A i \in 1..Len(g.slots) : h.slots[i] = g.slots[i]
    BY <1>2, <1>3, <1>4, AppendProperties
  <2> QED BY <1>3, <2>1, LenProperties
<1>6. /\ DOMAIN h.map = D \cup {id} /\ h.map[id] = N
      /\ \A x \in D : x # id => h.map[x] = g.map[x]
      /\ h.map \in [D \cup {id} -> Indexes]
  BY <1>2, <1>3 DEF Put, Indexes
<1>7. GraphTypes(h)
  <2>1. IsFiniteSet(D \cup {id})
    BY <1>3, FS_AddElement
  <2> QED BY <1>1, <1>2, <1>5, <1>6, <2>1 DEF GraphTypes
<1>8. IdsAreFresh(h)
  <2>1. Cardinality(D \cup {id}) <= Cardinality(D) + 1
    <3>1. Cardinality(D \cup {id}) = IF id \in D THEN Cardinality(D) ELSE Cardinality(D) + 1
      BY <1>3, FS_AddElement
    <3> QED BY <1>3, <3>1
  <2>2. Cardinality(DOMAIN h.map) <= Len(h.slots)
    <3>1. Cardinality(D) <= Len(g.slots)
      BY <1>1 DEF IdsAreFresh
    <3>2. Cardinality(D \cup {id}) \in Nat
      BY <1>3, FS_AddElement, FS_CardinalityType
    <3> QED BY <1>3, <1>5, <1>6, <2>1, <3>1, <3>2
  <2> QED BY <1>1, <1>2, <1>6, <2>2 DEF IdsAreFresh
<1>9. ASSUME h.exact PROVE ExactGraph(h)
  <2>1. g.exact /\ id \notin D /\ ExactGraph(g)
    BY <1>1, <1>2, <1>9 DEF Has
  <2>2. IdsAreNodes(h)
    <3>1. ASSUME NEW x \in D \cup {id}
          PROVE  h.map[x] \in DOMAIN h.slots /\ h.slots[h.map[x]].id = x
      <4>1. CASE x = id
        BY <1>3, <1>4, <1>5, <1>6, <4>1
      <4>2. CASE x # id
        <5>1. g.map[x] \in DOMAIN g.slots /\ g.slots[g.map[x]].id = x /\ h.map[x] = g.map[x]
          BY <1>6, <2>1, <4>2 DEF ExactGraph, IdsAreNodes
        <5> QED BY <1>3, <1>5, <5>1
      <4> QED BY <4>1, <4>2
    <3>2. ASSUME NEW i \in 1..N
          PROVE  h.slots[i].id \in DOMAIN h.map /\ h.map[h.slots[i].id] = i
      <4>1. CASE i = N
        BY <1>4, <1>5, <1>6, <4>1
      <4>2. CASE i # N
        <5>1. i \in DOMAIN g.slots
          BY <1>3, <4>2
        <5>2. g.slots[i].id \in D /\ g.map[g.slots[i].id] = i
          BY <2>1, <5>1 DEF ExactGraph, IdsAreNodes
        <5> QED BY <1>5, <1>6, <2>1, <5>1, <5>2
      <4> QED BY <4>1, <4>2
    <3> QED BY <1>5, <1>6, <3>1, <3>2 DEF IdsAreNodes
  <2>3. EdgesConnect(h)
    BY <1>2, <1>3, <1>5, <2>1 DEF ExactGraph, EdgesConnect
  <2>4. ChildrenAreListed(h)
    <3>1. ASSUME NEW k \in DOMAIN g.edges
          PROVE  /\ h.slots[g.edges[k].from] = g.slots[g.edges[k].from]
                 /\ h.slots[g.edges[k].to] = g.slots[g.edges[k].to]
      BY <1>5, <2>1 DEF ExactGraph, EdgesConnect
    <3>2. ChildrenAreListed(g)
      BY <2>1 DEF ExactGraph
    <3> QED BY <1>2, <3>1, <3>2 DEF ChildrenAreListed
  <2> QED BY <1>2, <2>1, <2>2, <2>3, <2>4 DEF ExactGraph
<1>10. GraphInv(h)
  BY <1>7, <1>8, <1>9 DEF GraphInv
<1> QED BY <1>10 DEF h

(* There is an id for every content: as many ids are tried from its hash   *)
(* on as there are nodes, and one more.                                    *)
LEMMA NewIdExists ==
  ASSUME NEW g, GraphInv(g), NEW c \in Contents
  PROVE  NewId(g, c) \in Nat
<1> DEFINE a == Hash[c]
           n == Len(g.slots)
           D == DOMAIN g.map
           R == a .. a + n
           Free == {id \in R : id \notin D}
<1>1. /\ a \in Nat /\ n \in Nat /\ D \subseteq Nat /\ IsFiniteSet(D)
      /\ Cardinality(D) \in Nat /\ Cardinality(D) <= n
      /\ g.next \in Nat /\ g.known[c] \in Nat \cup {NoId}
  <2>1. GraphTypes(g) /\ Cardinality(D) <= n
    BY DEF GraphInv, IdsAreFresh
  <2>2. n \in Nat /\ Cardinality(D) \in Nat
    BY <2>1, GraphParts
  <2>3. D \subseteq Nat /\ IsFiniteSet(D) /\ g.next \in Nat /\ g.known[c] \in Nat \cup {NoId}
    BY <2>1 DEF GraphTypes
  <2>4. a \in Nat
    BY GraphAssumption
  <2> QED BY <2>1, <2>2, <2>3, <2>4
<1>2. Free # {}
  <2>1. SUFFICES ASSUME R \subseteq D PROVE FALSE
    OBVIOUS
  <2> HIDE DEF a, n, D
  <2>2. Cardinality(R) = n + 1
    <3>1. Cardinality(a .. a + n) = IF a > a + n THEN 0 ELSE (a + n) - a + 1
      BY <1>1, FS_Interval
    <3> QED BY <1>1, <3>1
  <2>3. Cardinality(R) <= Cardinality(D)
    <3> HIDE DEF R
    <3> QED BY <1>1, <2>1, FS_Subset
  <2> QED BY <1>1, <2>2, <2>3
<1>3. PICK id \in Free : \A j \in Free : id <= j
  <2> HIDE DEF a, n, D
  <2>1. Free \in SUBSET Nat
    BY <1>1
  <2> HIDE DEF Free
  <2> QED BY <1>2, <2>1, SetHasLeast
<1>4. id \in R /\ id \notin D /\ \A lower \in a .. id - 1 : lower \in D
  <2> HIDE DEF n, D, a
  <2>1. id \in R /\ id \notin D
    OBVIOUS
  <2>2. ASSUME NEW lower \in a .. id - 1, lower \notin D PROVE FALSE
    <3>1. lower \in R /\ ~(id <= lower)
      BY <1>1, <2>1
    <3> QED BY <1>3, <2>2, <3>1
  <2> QED BY <2>1, <2>2
<1>5. DerivedId(g, c) \in Nat
  <2>1. CASE g.known[c] # NoId
    BY <1>1, <2>1 DEF DerivedId
  <2>2. CASE g.known[c] = NoId
    <3>1. DerivedId(g, c) = CHOOSE i \in R : i \notin D /\ \A lower \in a .. i - 1 : lower \in D
      BY <2>2 DEF DerivedId, Has
    <3> HIDE DEF D, n, a
    <3>2. DerivedId(g, c) \in R
      BY <1>4, <3>1
    <3> QED BY <1>1, <3>2
  <2> QED BY <2>1, <2>2
<1> QED BY <1>1, <1>5 DEF NewId

(* A graph that differs only in its counters is as exact as it was.        *)
LEMMA CountersKeepExact ==
  ASSUME NEW g, NEW h, ExactGraph(g), h.slots = g.slots, h.edges = g.edges, h.map = g.map,
         h.panicked = g.panicked
  PROVE  ExactGraph(h)
BY DEF ExactGraph, IdsAreNodes, EdgesConnect, ChildrenAreListed

LEMMA CreateNodeKeepsInv ==
  ASSUME NEW g, GraphInv(g), NEW c \in Contents
  PROVE  GraphInv(CreateNode(g, c))
<1> DEFINE id == NewId(g, c)
           reused == g.derived /\ g.known[c] # NoId
           h == [g EXCEPT !.known = IF g.derived THEN [@ EXCEPT ![c] = id] ELSE @,
                          !.next  = IF reused \/ id < @ THEN @ ELSE id + 1]
<1>1. GraphTypes(g) /\ IdsAreFresh(g) /\ (g.exact => ExactGraph(g)) /\ id \in Nat
  BY NewIdExists DEF GraphInv
<1>2. CreateNode(g, c) = Insert(h, id, c)
  BY DEF CreateNode
<1>3. reused => id = g.known[c]
  BY DEF NewId, DerivedId
<1> HIDE DEF id
<1>4. /\ h.known = (IF g.derived THEN [g.known EXCEPT ![c] = id] ELSE g.known)
      /\ h.next = (IF reused \/ id < g.next THEN g.next ELSE id + 1)
      /\ h.slots = g.slots /\ h.edges = g.edges /\ h.map = g.map /\ h.derived = g.derived
      /\ h.exact = g.exact /\ h.panicked = g.panicked
      /\ IsGraphRecord(h)
  <2>1. IsGraphRecord(g)
    BY <1>1 DEF GraphTypes
  <2> HIDE DEF reused
  <2> QED BY <2>1 DEF IsGraphRecord
<1> HIDE DEF h
<1>5. g.next \in Nat /\ g.known \in [Contents -> Nat \cup {NoId}]
  BY <1>1 DEF GraphTypes
<1>6. id < h.next /\ g.next <= h.next /\ h.next \in Nat
  <2>1. reused => id < g.next
    BY <1>1, <1>3 DEF IdsAreFresh
  <2> HIDE DEF reused
  <2> QED BY <1>1, <1>4, <1>5, <2>1
<1>7. /\ h.known \in [Contents -> Nat \cup {NoId}]
      /\ \A d \in Contents : h.known[d] = g.known[d] \/ h.known[d] = id
  BY <1>1, <1>4, <1>5
<1>8. GraphTypes(h)
  BY <1>1, <1>4, <1>6, <1>7 DEF GraphTypes
<1>9. IdsAreFresh(h)
  <2>1. ASSUME NEW x \in DOMAIN g.map PROVE x < h.next
    <3>1. x \in Nat /\ x < g.next
      BY <1>1 DEF GraphTypes, IdsAreFresh
    <3> QED BY <1>5, <1>6, <3>1
  <2>2. ASSUME NEW d \in Contents, h.known[d] # NoId PROVE h.known[d] < h.next
    <3>1. CASE h.known[d] = id
      BY <1>6, <3>1
    <3>2. CASE h.known[d] = g.known[d]
      <4>1. g.known[d] \in Nat /\ g.known[d] < g.next
        BY <1>1, <1>5, <2>2, <3>2 DEF IdsAreFresh
      <4> QED BY <1>5, <1>6, <3>2, <4>1
    <3> QED BY <1>7, <3>1, <3>2
  <2> QED BY <1>1, <1>4, <2>1, <2>2 DEF IdsAreFresh
<1>10. h.exact => ExactGraph(h)
  BY <1>1, <1>4, CountersKeepExact
<1>11. GraphInv(h)
  BY <1>8, <1>9, <1>10 DEF GraphInv
<1> QED BY <1>1, <1>2, <1>6, <1>11, InsertKeepsInv

LEMMA AddNodeKeepsInv ==
  ASSUME NEW g, GraphInv(g), NEW id \in Nat, NEW c \in Contents
  PROVE  GraphInv(AddNode(g, id, c))
<1> DEFINE h == [g EXCEPT !.next = IF @ <= id THEN id + 1 ELSE @]
<1>1. GraphTypes(g) /\ IdsAreFresh(g) /\ (g.exact => ExactGraph(g))
  BY DEF GraphInv
<1>2. AddNode(g, id, c) = Insert(h, id, c)
  BY DEF AddNode
<1>3. /\ h.next = (IF g.next <= id THEN id + 1 ELSE g.next) /\ h.known = g.known
      /\ h.slots = g.slots /\ h.edges = g.edges /\ h.map = g.map /\ h.derived = g.derived
      /\ h.exact = g.exact /\ h.panicked = g.panicked
      /\ IsGraphRecord(h)
  <2>1. IsGraphRecord(g)
    BY <1>1 DEF GraphTypes
  <2> QED BY <2>1 DEF IsGraphRecord
<1> HIDE DEF h
<1>4. g.next \in Nat /\ h.next \in Nat /\ id < h.next /\ g.next <= h.next
  BY <1>1, <1>3 DEF GraphTypes
<1>5. GraphTypes(h)
  BY <1>1, <1>3, <1>4 DEF GraphTypes
<1>6. IdsAreFresh(h)
  BY <1>1, <1>3, <1>4 DEF IdsAreFresh, GraphTypes
<1>7. h.exact => ExactGraph(h)
  BY <1>1, <1>3, CountersKeepExact
<1>8. GraphInv(h)
  BY <1>5, <1>6, <1>7 DEF GraphInv
<1> QED BY <1>2, <1>4, <1>8, InsertKeepsInv

(* Removing a node of petgraph: when it is the last one, no other moves,   *)
(* and the edges that stay are as they were.                               *)
LEMMA RemoveSlotParts ==
  ASSUME NEW g, GraphTypes(g), NEW i \in DOMAIN g.slots
  PROVE  LET h == RemoveSlot(g, i)
             last == Len(g.slots)
         IN /\ IsGraphRecord(h)
            /\ h.map = g.map /\ h.known = g.known /\ h.next = g.next
            /\ h.derived = g.derived /\ h.exact = g.exact /\ h.panicked = g.panicked
            /\ h.slots \in Seq(NodeRecords) /\ Len(h.slots) = last - 1
            /\ h.edges \in Seq(EdgeRecords)
            /\ i = last => /\ \A j \in 1 .. last - 1 : h.slots[j] = g.slots[j]
                           /\ \A k \in DOMAIN h.edges : \E l \in DOMAIN g.edges :
                                /\ h.edges[k] = g.edges[l]
                                /\ g.edges[l].from # i /\ g.edges[l].to # i
<1> DEFINE h == RemoveSlot(g, i)
           last == Len(g.slots)
           End(j) == IF j = last THEN i ELSE j
           P == {k \in DOMAIN g.edges : g.edges[k].from # i /\ g.edges[k].to # i}
           kept == ElementsAt(g.edges, P)
           moved == IF i = last THEN g.slots ELSE [g.slots EXCEPT ![i] = g.slots[last]]
           ends == [k \in DOMAIN kept |-> [kept[k] EXCEPT !.from = End(@), !.to = End(@)]]
<1>1. /\ IsGraphRecord(g) /\ g.slots \in Seq(NodeRecords) /\ g.edges \in Seq(EdgeRecords)
      /\ last \in Nat /\ DOMAIN g.slots = 1..last /\ i \in 1..last
      /\ \A j \in 1..last : g.slots[j] \in NodeRecords
  BY GraphParts DEF GraphTypes
<1>2. /\ IsGraphRecord(h)
      /\ h.map = g.map /\ h.known = g.known /\ h.next = g.next
      /\ h.derived = g.derived /\ h.exact = g.exact /\ h.panicked = g.panicked
      /\ h.slots = Front(moved) /\ h.edges = ends
  <2>1. h = [g EXCEPT !.slots = Front(IF i = last THEN @ ELSE [@ EXCEPT ![i] = g.slots[last]]),
                      !.edges = ends]
    BY DEF RemoveSlot, InRange
  <2> HIDE DEF h, ends, last
  <2> QED BY <1>1, <2>1 DEF IsGraphRecord
<1>3. moved \in Seq(NodeRecords) /\ Len(moved) = last /\ (i = last => moved = g.slots)
  <2>1. i # last => /\ [g.slots EXCEPT ![i] = g.slots[last]] \in Seq(NodeRecords)
                    /\ Len([g.slots EXCEPT ![i] = g.slots[last]]) = last
    <3>1. last \in 1..last
      BY <1>1
    <3>2. g.slots[last] \in NodeRecords
      BY <1>1, <3>1
    <3> QED BY <1>1, <3>2, ExceptSeq
  <2> QED BY <1>1, <2>1
<1>4. /\ Front(moved) \in Seq(NodeRecords) /\ Len(Front(moved)) = last - 1
      /\ i = last => \A j \in 1 .. last - 1 : Front(moved)[j] = g.slots[j]
  <2> HIDE DEF moved, last
  <2>1. moved # <<>>
    BY <1>1, <1>3
  <2> QED BY <1>3, <2>1, FrontOfSeq
<1>5. /\ kept \in Seq(EdgeRecords) /\ Len(kept) \in Nat /\ DOMAIN kept = 1..Len(kept)
      /\ \A k \in DOMAIN kept : \E l \in P : kept[k] = g.edges[l]
  <2>1. P \in SUBSET (DOMAIN g.edges)
    OBVIOUS
  <2> HIDE DEF P, kept
  <2>2. PICK at \in [1..Cardinality(P) -> P] :
          /\ ElementsAt(g.edges, P) \in Seq(EdgeRecords)
          /\ DOMAIN ElementsAt(g.edges, P) = 1..Cardinality(P)
          /\ \A k \in 1..Cardinality(P) : ElementsAt(g.edges, P)[k] = g.edges[at[k]]
    <3>1. PICK at : SelectedFrom(at, EdgeRecords, g.edges, P)
      BY <1>1, <2>1, ElementsAtProperties
    <3> QED BY <3>1 DEF SelectedFrom
  <2>3. kept \in Seq(EdgeRecords) /\ \A k \in DOMAIN kept : \E l \in P : kept[k] = g.edges[l]
    BY <2>2 DEF kept
  <2> QED BY <2>3, LenProperties
<1> HIDE DEF kept
<1>6. ends \in Seq(EdgeRecords)
  <2>1. ASSUME NEW k \in 1..Len(kept) PROVE ends[k] \in EdgeRecords
    <3>1. kept[k] \in EdgeRecords /\ i \in Indexes /\ k \in DOMAIN kept
      BY <1>1, <1>5, ElementOfSeq DEF Indexes
    <3>2. ends[k] = [kept[k] EXCEPT !.from = End(kept[k].from), !.to = End(kept[k].to)]
      BY <3>1
    <3>3. \A x \in Indexes : End(x) \in Indexes
      BY <3>1
    <3> HIDE DEF ends, End
    <3> QED BY <3>1, <3>2, <3>3 DEF EdgeRecords
  <2>2. DOMAIN ends = 1..Len(kept) /\ ends = [k \in 1..Len(kept) |-> ends[k]]
    BY <1>5
  <2> HIDE DEF ends
  <2>3. ends \in [1..Len(kept) -> EdgeRecords]
    BY <2>1, <2>2
  <2> QED BY <1>5, <2>3, SeqDef
<1>7. ASSUME i = last, NEW k \in DOMAIN ends
      PROVE  \E l \in DOMAIN g.edges : /\ ends[k] = g.edges[l]
                                       /\ g.edges[l].from # i /\ g.edges[l].to # i
  <2>1. PICK l \in P : kept[k] = g.edges[l]
    BY <1>5
  <2>2. kept[k] \in EdgeRecords
    <3>1. \A m \in 1..Len(kept) : kept[m] \in EdgeRecords
      BY <1>5, ElementOfSeq
    <3> QED BY <1>5, <3>1
  <2>3. ends[k] = kept[k]
    <3>1. \A j : End(j) = j
      BY <1>7
    <3>2. ends[k] = [kept[k] EXCEPT !.from = kept[k].from, !.to = kept[k].to]
      BY <3>1
    <3> HIDE DEF ends
    <3> QED BY <2>2, <3>2 DEF EdgeRecords
  <2> QED BY <2>1, <2>3
<1> HIDE DEF h, ends, moved
<1>8. /\ h.slots \in Seq(NodeRecords) /\ Len(h.slots) = last - 1
      /\ h.edges \in Seq(EdgeRecords)
      /\ i = last => /\ \A j \in 1 .. last - 1 : h.slots[j] = g.slots[j]
                     /\ \A k \in DOMAIN h.edges : \E l \in DOMAIN g.edges :
                          /\ h.edges[k] = g.edges[l]
                          /\ g.edges[l].from # i /\ g.edges[l].to # i
  BY <1>2, <1>4, <1>6, <1>7
<1> QED BY <1>2, <1>8 DEF h

LEMMA RemoveNodeKeepsInv ==
  ASSUME NEW g, GraphInv(g), NEW id
  PROVE  GraphInv(RemoveNode(g, id))
<1> DEFINE i == g.map[id]
           D == DOMAIN g.map
           last == Len(g.slots)
           m == [g EXCEPT !.map = Without(@, id), !.exact = @ /\ g.map[id] = Len(g.slots)]
           h == RemoveSlot(m, i)
<1>1. GraphTypes(g) /\ IdsAreFresh(g) /\ (g.exact => ExactGraph(g))
  BY DEF GraphInv
<1>2. CASE id \notin D
  BY <1>2 DEF RemoveNode, Has
<1>3. CASE id \in D
  <2>1. RemoveNode(g, id) = h
    BY <1>3 DEF RemoveNode, Has
  <2>2. /\ IsGraphRecord(m)
        /\ m.map = Without(g.map, id) /\ m.exact = (g.exact /\ i = last)
        /\ m.slots = g.slots /\ m.edges = g.edges /\ m.known = g.known /\ m.next = g.next
        /\ m.derived = g.derived /\ m.panicked = g.panicked
    <3>1. IsGraphRecord(g)
      BY <1>1 DEF GraphTypes
    <3> QED BY <3>1 DEF IsGraphRecord
  <2> HIDE DEF m
  <2>3. /\ D \subseteq Nat /\ IsFiniteSet(D) /\ g.map \in [D -> Indexes] /\ g.next \in Nat
        /\ last \in Nat /\ DOMAIN g.slots = 1..last /\ Cardinality(D) \in Nat /\ i \in Indexes
    BY <1>1, <1>3, GraphParts DEF GraphTypes
  <2>4. /\ DOMAIN m.map = D \ {id} /\ \A x \in D \ {id} : m.map[x] = g.map[x]
        /\ m.map \in [D \ {id} -> Indexes]
    BY <2>2, <2>3 DEF Without
  <2>5. IsFiniteSet(D \ {id}) /\ Cardinality(D \ {id}) = Cardinality(D) - 1
    BY <1>3, <2>3, FS_RemoveElement
  <2>6. GraphTypes(m)
    BY <1>1, <2>2, <2>3, <2>4, <2>5 DEF GraphTypes
  <2>7. Cardinality(DOMAIN m.map) <= last - 1
    <3>1. Cardinality(D) <= last
      BY <1>1 DEF IdsAreFresh
    <3> QED BY <2>3, <2>4, <2>5, <3>1
  <2>8. CASE i \notin DOMAIN g.slots
    <3>1. h = m
      BY <2>2, <2>8 DEF RemoveSlot, InRange
    <3>2. IdsAreFresh(m)
      <4>1. Cardinality(DOMAIN m.map) <= Len(m.slots)
        BY <2>2, <2>3, <2>4, <2>5, <2>7
      <4> QED BY <1>1, <2>2, <2>4, <4>1 DEF IdsAreFresh
    <3>3. ~m.exact
      BY <1>1, <1>3, <2>2, <2>8 DEF ExactGraph, IdsAreNodes
    <3> QED BY <2>1, <2>6, <3>1, <3>2, <3>3 DEF GraphInv
  <2>9. CASE i \in DOMAIN g.slots
    <3>1. /\ IsGraphRecord(h)
          /\ h.map = m.map /\ h.known = g.known /\ h.next = g.next
          /\ h.derived = g.derived /\ h.exact = m.exact /\ h.panicked = g.panicked
          /\ h.slots \in Seq(NodeRecords) /\ Len(h.slots) = last - 1
          /\ h.edges \in Seq(EdgeRecords)
          /\ i = last => /\ \A j \in 1 .. last - 1 : h.slots[j] = g.slots[j]
                         /\ \A k \in DOMAIN h.edges : \E l \in DOMAIN g.edges :
                              /\ h.edges[k] = g.edges[l]
                              /\ g.edges[l].from # i /\ g.edges[l].to # i
      <4> HIDE DEF i
      <4>1. i \in DOMAIN m.slots
        BY <2>2, <2>9
      <4>2. /\ IsGraphRecord(h)
            /\ h.map = m.map /\ h.known = m.known /\ h.next = m.next
            /\ h.derived = m.derived /\ h.exact = m.exact /\ h.panicked = m.panicked
            /\ h.slots \in Seq(NodeRecords) /\ Len(h.slots) = Len(m.slots) - 1
            /\ h.edges \in Seq(EdgeRecords)
            /\ i = Len(m.slots) =>
                 /\ \A j \in 1 .. Len(m.slots) - 1 : h.slots[j] = m.slots[j]
                 /\ \A k \in DOMAIN h.edges : \E l \in DOMAIN m.edges :
                      /\ h.edges[k] = m.edges[l]
                      /\ m.edges[l].from # i /\ m.edges[l].to # i
        BY <2>6, <4>1, RemoveSlotParts, SMTT(60)
      <4> HIDE DEF h
      <4> QED BY <2>2, <4>2
    <3> HIDE DEF h
    <3>2. GraphTypes(h)
      BY <1>1, <2>2, <2>6, <3>1 DEF GraphTypes
    <3>3. IdsAreFresh(h)
      <4>1. Cardinality(DOMAIN h.map) <= Len(h.slots)
        BY <2>7, <3>1
      <4> QED BY <1>1, <2>4, <3>1, <4>1 DEF IdsAreFresh
    <3>4. ASSUME h.exact PROVE ExactGraph(h)
      <4>1. g.exact /\ i = last /\ IdsAreNodes(g) /\ EdgesConnect(g) /\ ChildrenAreListed(g)
            /\ ~g.panicked
        BY <1>1, <2>2, <3>1, <3>4 DEF ExactGraph
      <4>2. DOMAIN h.slots = 1 .. last - 1 /\ \A j \in 1 .. last - 1 : h.slots[j] = g.slots[j]
        BY <3>1, <4>1, LenProperties
      <4>3. g.slots[last].id = id
        BY <1>3, <4>1 DEF IdsAreNodes
      <4>4. IdsAreNodes(h)
        <5>1. ASSUME NEW x \in D \ {id}
              PROVE  h.map[x] \in DOMAIN h.slots /\ h.slots[h.map[x]].id = x
          <6>1. g.map[x] \in DOMAIN g.slots /\ g.slots[g.map[x]].id = x /\ h.map[x] = g.map[x]
            BY <2>4, <3>1, <4>1 DEF IdsAreNodes
          <6>2. g.map[x] # last
            BY <4>3, <6>1
          <6> HIDE DEF D, last
          <6> QED BY <2>3, <4>2, <6>1, <6>2
        <5>2. ASSUME NEW j \in 1 .. last - 1
              PROVE  h.slots[j].id \in D \ {id} /\ h.map[h.slots[j].id] = j
          <6>1. j \in DOMAIN g.slots /\ j # last
            BY <2>3
          <6>2. g.slots[j].id \in D /\ g.map[g.slots[j].id] = j /\ g.slots[j] = h.slots[j]
            BY <4>1, <4>2, <6>1 DEF IdsAreNodes
          <6>3. g.slots[j].id # id
            BY <4>1, <6>1, <6>2
          <6> HIDE DEF D, last
          <6> QED BY <2>4, <3>1, <6>2, <6>3
        <5> QED BY <2>4, <3>1, <4>2, <5>1, <5>2 DEF IdsAreNodes
      <4>5. ASSUME NEW k \in DOMAIN h.edges
            PROVE  /\ h.edges[k].from \in DOMAIN h.slots /\ h.edges[k].to \in DOMAIN h.slots
                   /\ h.edges[k].type = "child" =>
                        IsListed(h.slots[h.edges[k].from], h.slots[h.edges[k].to])
        <5>1. PICK l \in DOMAIN g.edges : /\ h.edges[k] = g.edges[l]
                                          /\ g.edges[l].from # last /\ g.edges[l].to # last
          BY <3>1, <4>1
        <5>2. /\ g.edges[l].from \in 1..last /\ g.edges[l].to \in 1..last
              /\ g.edges[l].type = "child" =>
                   IsListed(g.slots[g.edges[l].from], g.slots[g.edges[l].to])
          BY <2>3, <4>1 DEF EdgesConnect, ChildrenAreListed
        <5>3. g.edges[l].from \in 1 .. last - 1 /\ g.edges[l].to \in 1 .. last - 1
          <6> HIDE DEF last
          <6> QED BY <2>3, <5>1, <5>2
        <5> HIDE DEF last
        <5> QED BY <4>2, <5>1, <5>2, <5>3
      <4> QED BY <3>1, <4>1, <4>4, <4>5 DEF ExactGraph, EdgesConnect, ChildrenAreListed
    <3> QED BY <2>1, <3>2, <3>3, <3>4 DEF GraphInv
  <2> QED BY <2>8, <2>9
<1> QED BY <1>2, <1>3

LEMMA ReplaceNodeKeepsInv ==
  ASSUME NEW g, GraphInv(g), NEW id, NEW c \in Contents
  PROVE  GraphInv(ReplaceNode(g, id, c))
<1> DEFINE i == g.map[id]
           h == [g EXCEPT !.slots[i].content = c]
<1>1. GraphTypes(g) /\ IdsAreFresh(g) /\ (g.exact => ExactGraph(g)) /\ IsGraphRecord(g)
  BY DEF GraphInv, GraphTypes
<1>2. CASE ~Found(g, id)
  BY <1>2 DEF ReplaceNode
<1>3. CASE Found(g, id)
  <2>1. ReplaceNode(g, id, c) = h /\ i \in DOMAIN g.slots
    BY <1>3 DEF ReplaceNode, Found, InRange
  <2> HIDE DEF i
  <2>2. /\ IsGraphRecord(h) /\ h.slots = [g.slots EXCEPT ![i].content = c]
        /\ h.map = g.map /\ h.edges = g.edges /\ h.known = g.known /\ h.next = g.next
        /\ h.derived = g.derived /\ h.exact = g.exact /\ h.panicked = g.panicked
    BY <1>1 DEF IsGraphRecord
  <2> HIDE DEF h
  <2>3. /\ g.slots \in Seq(NodeRecords) /\ DOMAIN g.slots = 1..Len(g.slots) /\ Len(g.slots) \in Nat
        /\ \A j \in DOMAIN g.slots : g.slots[j] \in NodeRecords
    BY <1>1, GraphParts DEF GraphTypes
  <2>4. /\ DOMAIN h.slots = DOMAIN g.slots
        /\ \A j \in DOMAIN g.slots : /\ h.slots[j] \in NodeRecords
                                     /\ h.slots[j].id = g.slots[j].id
                                     /\ h.slots[j].children = g.slots[j].children
    <3>1. DOMAIN h.slots = DOMAIN g.slots
      BY <2>2
    <3>2. ASSUME NEW j \in DOMAIN g.slots
          PROVE  /\ h.slots[j] \in NodeRecords
                 /\ h.slots[j].id = g.slots[j].id
                 /\ h.slots[j].children = g.slots[j].children
      <4>1. h.slots[j] = IF j = i THEN [g.slots[j] EXCEPT !.content = c] ELSE g.slots[j]
        BY <2>1, <2>2
      <4>2. g.slots[j] \in NodeRecords
        BY <2>3
      <4> QED BY <4>1, <4>2 DEF NodeRecords
    <3> QED BY <3>1, <3>2
  <2>5. h.slots \in Seq(NodeRecords) /\ Len(h.slots) = Len(g.slots)
    <3>1. h.slots \in [1..Len(g.slots) -> NodeRecords]
      <4>1. h.slots = [j \in 1..Len(g.slots) |-> h.slots[j]]
        BY <2>1, <2>2, <2>3
      <4> QED BY <2>3, <2>4, <4>1
    <3>2. h.slots \in Seq(NodeRecords)
      BY <2>3, <3>1, SeqDef
    <3> QED BY <2>3, <2>4, <3>2, LenProperties
  <2>6. GraphTypes(h) /\ IdsAreFresh(h)
    BY <1>1, <2>2, <2>5 DEF GraphTypes, IdsAreFresh
  <2>7. g.exact => ExactGraph(h)
    <3> SUFFICES ASSUME ExactGraph(g) PROVE ExactGraph(h)
      BY <1>1
    <3>1. IdsAreNodes(h) /\ EdgesConnect(h)
      BY <2>2, <2>4 DEF ExactGraph, IdsAreNodes, EdgesConnect
    <3>2. ChildrenAreListed(h)
      <4>1. EdgesConnect(g) /\ ChildrenAreListed(g) /\ h.edges = g.edges
        BY <2>2 DEF ExactGraph
      <4> QED BY <2>4, <4>1 DEF EdgesConnect, ChildrenAreListed, IsListed
    <3> QED BY <2>2, <3>1, <3>2 DEF ExactGraph
  <2> QED BY <2>1, <2>2, <2>6, <2>7 DEF GraphInv
<1> QED BY <1>2, <1>3
-----------------------------------------------------------------------------
(* The operations on edges                                                 *)

(* What is in a list stays where it is when something is appended.         *)
LEMMA AppendedList ==
  ASSUME NEW old \in Seq(Nat), NEW to \in Nat
  PROVE  /\ Append(old, to) \in Seq(Nat)
         /\ \A x \in DOMAIN old : /\ x \in DOMAIN Append(old, to)
                                  /\ Append(old, to)[x] = old[x]
         /\ \E x \in DOMAIN Append(old, to) : Append(old, to)[x] = to
<1>1. DOMAIN old = 1..Len(old) /\ Len(old) \in Nat
  BY LenProperties
<1>2. /\ Append(old, to) \in Seq(Nat) /\ Len(Append(old, to)) = Len(old) + 1
      /\ \A x \in 1..Len(old) : Append(old, to)[x] = old[x]
      /\ Append(old, to)[Len(old) + 1] = to
  BY AppendProperties
<1>3. DOMAIN Append(old, to) = 1 .. Len(old) + 1
  BY <1>2, LenProperties
<1> QED BY <1>1, <1>2, <1>3

LEMMA AddEdgeKeepsInv ==
  ASSUME NEW g, GraphInv(g), NEW from, NEW to, NEW type \in EdgeTypes
  PROVE  GraphInv(AddEdge(g, from, to, type))
<1> DEFINE i == g.map[from]
           j == g.map[to]
           e == [from |-> i, to |-> j, type |-> type]
           node == Listing(g.slots[i], to, type)
           p == [g EXCEPT !.panicked = TRUE]
           h == AddEdge(g, from, to, type)
<1>1. GraphTypes(g) /\ IdsAreFresh(g) /\ (g.exact => ExactGraph(g)) /\ IsGraphRecord(g)
  BY DEF GraphInv, GraphTypes
<1>2. CASE ~(Has(g, from) /\ Has(g, to))
  BY <1>2 DEF AddEdge
<1>3. CASE Has(g, from) /\ Has(g, to) /\ ~(InRange(g, i) /\ InRange(g, j))
  <2>1. h = p
    BY <1>3 DEF AddEdge
  <2>2. /\ IsGraphRecord(p) /\ p.panicked = TRUE
        /\ p.slots = g.slots /\ p.edges = g.edges /\ p.map = g.map /\ p.known = g.known
        /\ p.next = g.next /\ p.derived = g.derived /\ p.exact = g.exact
    BY <1>1 DEF IsGraphRecord
  <2> HIDE DEF p
  <2>3. GraphTypes(p) /\ IdsAreFresh(p)
    BY <1>1, <2>2 DEF GraphTypes, IdsAreFresh
  <2>4. ~g.exact
    BY <1>1, <1>3 DEF ExactGraph, IdsAreNodes, Has, InRange
  <2> QED BY <2>1, <2>2, <2>3, <2>4 DEF GraphInv
<1>4. CASE Has(g, from) /\ Has(g, to) /\ InRange(g, i) /\ InRange(g, j)
  <2>1. /\ from \in DOMAIN g.map /\ to \in DOMAIN g.map /\ to \in Nat
        /\ i \in DOMAIN g.slots /\ j \in DOMAIN g.slots /\ i \in Indexes /\ j \in Indexes
    BY <1>1, <1>4 DEF Has, InRange, GraphTypes
  <2>2. /\ IsGraphRecord(h) /\ h.edges = Append(g.edges, e)
        /\ h.slots = [g.slots EXCEPT ![i] = node]
        /\ h.map = g.map /\ h.known = g.known /\ h.next = g.next
        /\ h.derived = g.derived /\ h.exact = g.exact /\ h.panicked = g.panicked
    <3>1. h = [g EXCEPT !.edges = Append(@, e), !.slots[i] = Listing(@, to, type)]
      BY <1>4 DEF AddEdge
    <3> HIDE DEF h, i, j, e
    <3> QED BY <1>1, <2>1, <3>1 DEF IsGraphRecord
  <2> HIDE DEF h
  <2>3. /\ g.slots \in Seq(NodeRecords) /\ DOMAIN g.slots = 1..Len(g.slots) /\ Len(g.slots) \in Nat
        /\ g.edges \in Seq(EdgeRecords) /\ DOMAIN g.edges = 1..Len(g.edges) /\ Len(g.edges) \in Nat
        /\ \A k \in DOMAIN g.slots : g.slots[k] \in NodeRecords
    BY <1>1, GraphParts DEF GraphTypes
  <2>4. /\ node \in NodeRecords /\ node.id = g.slots[i].id
        /\ type = "child" => node.children = Append(g.slots[i].children, to)
        /\ type # "child" => node.children = g.slots[i].children
        /\ g.slots[i].children \in Seq(Nat)
    <3>1. g.slots[i] \in NodeRecords /\ g.slots[i].children \in Seq(Nat)
          /\ g.slots[i].references \in Seq(Nat)
      BY <2>1, <2>3 DEF NodeRecords
    <3>2. Append(g.slots[i].children, to) \in Seq(Nat)
          /\ Append(g.slots[i].references, to) \in Seq(Nat)
      BY <2>1, <3>1, AppendProperties
    <3> HIDE DEF i
    <3> QED BY <3>1, <3>2 DEF NodeRecords, Listing
  <2>5. \A x \in DOMAIN g.slots[i].children :
          x \in DOMAIN node.children /\ node.children[x] = g.slots[i].children[x]
    <3> DEFINE old == g.slots[i].children
    <3>1. /\ old \in Seq(Nat) /\ to \in Nat
          /\ node.children = Append(old, to) \/ node.children = old
      BY <2>1, <2>4
    <3> HIDE DEF old, node
    <3>2. \A x \in DOMAIN old : /\ x \in DOMAIN Append(old, to)
                                /\ Append(old, to)[x] = old[x]
      BY <3>1, AppendedList
    <3>3. CASE node.children = Append(old, to)
      BY <3>2, <3>3 DEF old
    <3>4. CASE node.children = old
      BY <3>4 DEF old
    <3> QED BY <3>1, <3>3, <3>4
  <2>6. type = "child" => \E x \in DOMAIN node.children : node.children[x] = to
    <3> DEFINE old == g.slots[i].children
    <3>1. old \in Seq(Nat) /\ to \in Nat /\ (type = "child" => node.children = Append(old, to))
      BY <2>1, <2>4
    <3> HIDE DEF old, node
    <3> QED BY <3>1, AppendedList
  <2> HIDE DEF node
  <2>7. /\ h.slots \in Seq(NodeRecords) /\ DOMAIN h.slots = DOMAIN g.slots
        /\ Len(h.slots) = Len(g.slots)
        /\ \A k \in DOMAIN g.slots : /\ h.slots[k] = IF k = i THEN node ELSE g.slots[k]
                                     /\ h.slots[k].id = g.slots[k].id
    <3>1. /\ h.slots \in Seq(NodeRecords) /\ Len(h.slots) = Len(g.slots)
          /\ \A k \in 1..Len(g.slots) : h.slots[k] = IF k = i THEN node ELSE g.slots[k]
      BY <2>1, <2>2, <2>3, <2>4, ExceptSeq
    <3> QED BY <2>3, <2>4, <3>1, LenProperties
  <2>8. e \in EdgeRecords
    BY <2>1 DEF EdgeRecords
  <2> HIDE DEF e
  <2>9. /\ h.edges \in Seq(EdgeRecords)
        /\ DOMAIN h.edges = 1 .. Len(g.edges) + 1 /\ h.edges[Len(g.edges) + 1] = e
        /\ \A k \in DOMAIN g.edges : h.edges[k] = g.edges[k]
    <3>1. /\ h.edges \in Seq(EdgeRecords) /\ Len(h.edges) = Len(g.edges) + 1
          /\ h.edges[Len(g.edges) + 1] = e
          /\ \A k \in 1..Len(g.edges) : h.edges[k] = g.edges[k]
      BY <2>2, <2>3, <2>8, AppendProperties
    <3> QED BY <2>3, <3>1, LenProperties
  <2>10. GraphTypes(h) /\ IdsAreFresh(h)
    BY <1>1, <2>2, <2>7, <2>9 DEF GraphTypes, IdsAreFresh
  <2>11. ASSUME h.exact PROVE ExactGraph(h)
    <3>1. ~h.panicked /\ IdsAreNodes(g) /\ EdgesConnect(g) /\ ChildrenAreListed(g)
      BY <1>1, <2>2, <2>11 DEF ExactGraph
    <3>2. IdsAreNodes(h)
      <4>1. /\ h.map = g.map /\ DOMAIN h.slots = DOMAIN g.slots
            /\ \A k \in DOMAIN g.slots : h.slots[k].id = g.slots[k].id
        BY <2>2, <2>7
      <4> QED BY <3>1, <4>1 DEF IdsAreNodes
    <3>3. /\ e.from = i /\ e.to = j /\ e.type = type
          /\ h.slots[j].id = to
      BY <2>1, <2>7, <3>1 DEF e, IdsAreNodes
    <3>4. ASSUME NEW k \in DOMAIN h.edges
          PROVE  /\ h.edges[k].from \in DOMAIN h.slots /\ h.edges[k].to \in DOMAIN h.slots
                 /\ h.edges[k].type = "child" =>
                      IsListed(h.slots[h.edges[k].from], h.slots[h.edges[k].to])
      <4>1. CASE k = Len(g.edges) + 1
        <5>1. h.edges[k] = e
          BY <2>9, <4>1
        <5>2. h.slots[i] = node
          BY <2>1, <2>7
        <5>3. type = "child" => IsListed(node, h.slots[j])
          BY <2>6, <3>3 DEF IsListed
        <5> HIDE DEF i, j
        <5> QED BY <2>1, <2>7, <3>3, <5>1, <5>2, <5>3
      <4>2. CASE k # Len(g.edges) + 1
        <5>1. k \in DOMAIN g.edges
          BY <2>3, <2>9, <4>2
        <5> DEFINE a == g.edges[k].from
                   b == g.edges[k].to
        <5>2. /\ h.edges[k] = g.edges[k] /\ a \in DOMAIN g.slots /\ b \in DOMAIN g.slots
              /\ g.edges[k].type = "child" => IsListed(g.slots[a], g.slots[b])
          BY <2>9, <3>1, <5>1 DEF EdgesConnect, ChildrenAreListed
        <5> HIDE DEF a, b, i, j
        <5>3. IsListed(g.slots[a], g.slots[b]) => IsListed(h.slots[a], h.slots[b])
          <6>1. h.slots[b].id = g.slots[b].id
            BY <2>7, <5>2
          <6>2. CASE a = i
            <7>1. h.slots[a] = node
              BY <2>1, <2>7, <6>2
            <7> QED BY <2>5, <6>1, <6>2, <7>1 DEF IsListed
          <6>3. CASE a # i
            <7>1. h.slots[a] = g.slots[a]
              BY <2>7, <5>2, <6>3
            <7> QED BY <6>1, <7>1 DEF IsListed
          <6> QED BY <6>2, <6>3
        <5> QED BY <2>7, <5>2, <5>3 DEF a, b
      <4> QED BY <4>1, <4>2
    <3>5. EdgesConnect(h) /\ ChildrenAreListed(h)
      BY <3>4 DEF EdgesConnect, ChildrenAreListed
    <3> QED BY <3>1, <3>2, <3>5 DEF ExactGraph
  <2> QED BY <2>10, <2>11 DEF GraphInv, h
<1> QED BY <1>2, <1>3, <1>4

LEMMA RemoveEdgeKeepsInv ==
  ASSUME NEW g, GraphInv(g), NEW from, NEW to
  PROVE  GraphInv(RemoveEdge(g, from, to))
<1> DEFINE B == Between(g, g.map[from], g.map[to])
           k == FindEdge(g, g.map[from], g.map[to])
           h == [g EXCEPT !.edges = RemoveAt(@, k)]
<1>1. GraphTypes(g) /\ IdsAreFresh(g) /\ (g.exact => ExactGraph(g)) /\ IsGraphRecord(g)
  BY DEF GraphInv, GraphTypes
<1>2. CASE ~(Has(g, from) /\ Has(g, to)) \/ B = {}
  BY <1>2 DEF RemoveEdge
<1>3. CASE Has(g, from) /\ Has(g, to) /\ B # {}
  <2>1. RemoveEdge(g, from, to) = h
    BY <1>3 DEF RemoveEdge
  <2>2. k \in DOMAIN g.edges
    <3>1. Len(g.edges) \in Nat /\ DOMAIN g.edges = 1..Len(g.edges)
      BY <1>1, GraphParts
    <3>2. B \in SUBSET (0..Len(g.edges)) /\ B \subseteq DOMAIN g.edges
      BY <3>1 DEF Between
    <3>3. k = CHOOSE x \in B : \A l \in B : l <= x
      BY DEF FindEdge
    <3> HIDE DEF B, k
    <3>4. \E x \in B : \A l \in B : l <= x
      BY <1>3, <3>1, <3>2, SetHasGreatest
    <3>5. k \in B
      BY <3>3, <3>4
    <3> QED BY <3>2, <3>5
  <2> HIDE DEF k
  <2>3. /\ IsGraphRecord(h) /\ h.edges = RemoveAt(g.edges, k)
        /\ h.slots = g.slots /\ h.map = g.map /\ h.known = g.known /\ h.next = g.next
        /\ h.derived = g.derived /\ h.exact = g.exact /\ h.panicked = g.panicked
    BY <1>1 DEF IsGraphRecord
  <2> HIDE DEF h
  <2>4. /\ h.edges \in Seq(EdgeRecords)
        /\ \A x \in DOMAIN h.edges : \E l \in DOMAIN g.edges : h.edges[x] = g.edges[l]
    <3>1. g.edges \in Seq(EdgeRecords)
      BY <1>1 DEF GraphTypes
    <3> QED BY <2>2, <2>3, <3>1, ElementsOfRemoveAt
  <2>5. GraphTypes(h) /\ IdsAreFresh(h)
    BY <1>1, <2>3, <2>4 DEF GraphTypes, IdsAreFresh
  <2>6. ASSUME ExactGraph(g) PROVE ExactGraph(h)
    <3>1. IdsAreNodes(h) /\ ~h.panicked
      BY <2>3, <2>6 DEF ExactGraph, IdsAreNodes
    <3>2. ASSUME NEW x \in DOMAIN h.edges
          PROVE  /\ h.edges[x].from \in DOMAIN h.slots /\ h.edges[x].to \in DOMAIN h.slots
                 /\ h.edges[x].type = "child" =>
                      IsListed(h.slots[h.edges[x].from], h.slots[h.edges[x].to])
      <4>1. PICK l \in DOMAIN g.edges : h.edges[x] = g.edges[l]
        BY <2>4
      <4> QED BY <2>3, <2>6, <4>1 DEF ExactGraph, EdgesConnect, ChildrenAreListed
    <3> QED BY <3>1, <3>2 DEF ExactGraph, EdgesConnect, ChildrenAreListed
  <2> QED BY <1>1, <2>1, <2>3, <2>5, <2>6 DEF GraphInv
<1> QED BY <1>2, <1>3

LEMMA SetDerivedKeepsInv ==
  ASSUME NEW g, GraphInv(g), NEW on \in BOOLEAN
  PROVE  GraphInv(SetDerived(g, on))
<1> DEFINE h == SetDerived(g, on)
<1>1. GraphTypes(g) /\ IdsAreFresh(g) /\ (g.exact => ExactGraph(g)) /\ IsGraphRecord(g)
  BY DEF GraphInv, GraphTypes
<1>2. /\ IsGraphRecord(h) /\ h.derived = on
      /\ h.known = (IF on THEN g.known ELSE [c \in Contents |-> NoId])
      /\ h.slots = g.slots /\ h.map = g.map /\ h.edges = g.edges /\ h.next = g.next
      /\ h.exact = g.exact /\ h.panicked = g.panicked
  BY <1>1 DEF IsGraphRecord, SetDerived
<1> HIDE DEF h
<1>3. GraphTypes(h) /\ IdsAreFresh(h)
  BY <1>1, <1>2 DEF GraphTypes, IdsAreFresh
<1>4. g.exact => ExactGraph(h)
  BY <1>1, <1>2, CountersKeepExact
<1> QED BY <1>2, <1>3, <1>4 DEF GraphInv, h

LEMMA TakeIdKeepsInv ==
  ASSUME NEW g, GraphInv(g)
  PROVE  GraphInv([g EXCEPT !.next = @ + 1])
<1> DEFINE h == [g EXCEPT !.next = @ + 1]
<1>1. GraphTypes(g) /\ IdsAreFresh(g) /\ (g.exact => ExactGraph(g)) /\ IsGraphRecord(g)
  BY DEF GraphInv, GraphTypes
<1>2. /\ IsGraphRecord(h) /\ h.next = g.next + 1
      /\ h.slots = g.slots /\ h.map = g.map /\ h.edges = g.edges /\ h.known = g.known
      /\ h.exact = g.exact /\ h.panicked = g.panicked /\ h.derived = g.derived
  BY <1>1 DEF IsGraphRecord
<1> HIDE DEF h
<1>3. GraphTypes(h)
  BY <1>1, <1>2 DEF GraphTypes
<1>4. IdsAreFresh(h)
  BY <1>1, <1>2 DEF GraphTypes, IdsAreFresh
<1>5. g.exact => ExactGraph(h)
  BY <1>1, <1>2, CountersKeepExact
<1>6. GraphInv(h)
  BY <1>2, <1>3, <1>4, <1>5 DEF GraphInv
<1> QED BY <1>6 DEF h
-----------------------------------------------------------------------------
(* The state machine                                                       *)

LEMMA InitInv ==
  ASSUME Init
  PROVE  GraphInv(graph)
<1>1. GraphInv(Empty)
  <2>1. /\ IsGraphRecord(Empty) /\ Empty.slots = <<>> /\ Empty.edges = <<>>
        /\ Empty.map = [x \in {} |-> 0] /\ Empty.known = [c \in Contents |-> NoId]
        /\ Empty.next = 0 /\ Empty.derived = FALSE /\ Empty.exact = TRUE
        /\ Empty.panicked = FALSE
    BY DEF Empty, IsGraphRecord
  <2>2. /\ DOMAIN Empty.map = {} /\ DOMAIN Empty.slots = {} /\ DOMAIN Empty.edges = {}
        /\ Len(Empty.slots) = 0
    BY <2>1
  <2>3. IsFiniteSet(DOMAIN Empty.map) /\ Cardinality(DOMAIN Empty.map) = 0
    BY <2>2, FS_EmptySet
  <2>4. GraphTypes(Empty)
    <3>1. /\ <<>> \in Seq(NodeRecords) /\ <<>> \in Seq(EdgeRecords)
          /\ [c \in Contents |-> NoId] \in [Contents -> Nat \cup {NoId}]
      BY EmptySeq
    <3>2. Empty.map \in [DOMAIN Empty.map -> Indexes] /\ DOMAIN Empty.map \subseteq Nat
      BY <2>1, <2>2
    <3>3. Empty.next \in Nat /\ Empty.derived \in BOOLEAN /\ Empty.exact \in BOOLEAN
          /\ Empty.panicked \in BOOLEAN
      BY DEF Empty
    <3>4. /\ Empty.slots \in Seq(NodeRecords) /\ Empty.edges \in Seq(EdgeRecords)
          /\ Empty.known \in [Contents -> Nat \cup {NoId}]
      BY <2>1, <3>1
    <3> QED BY <2>1, <2>3, <3>2, <3>3, <3>4 DEF GraphTypes
  <2>5. IdsAreFresh(Empty)
    BY <2>1, <2>2, <2>3 DEF IdsAreFresh
  <2>6. ExactGraph(Empty)
    BY <2>1, <2>2 DEF ExactGraph, IdsAreNodes, EdgesConnect, ChildrenAreListed
  <2> QED BY <2>4, <2>5, <2>6 DEF GraphInv
<1> QED BY <1>1, SetDerivedKeepsInv DEF Init

LEMMA NextInv ==
  ASSUME GraphInv(graph), [Next]_vars
  PROVE  GraphInv(graph')
<1>1. CASE UNCHANGED vars
  BY <1>1 DEF vars
<1>2. CASE TakeId
  BY <1>2, TakeIdKeepsInv DEF TakeId, Becomes
<1>3. CASE \E on \in BOOLEAN : SwitchIds(on)
  BY <1>3, SetDerivedKeepsInv DEF SwitchIds, Becomes
<1>4. CASE \E c \in Contents : Create(c)
  BY <1>4, CreateNodeKeepsInv DEF Create, Becomes
<1>5. CASE \E id \in Ids, c \in Contents : Add(id, c) \/ Replace(id, c)
  <2>1. Ids \subseteq Nat
    BY GraphAssumption DEF Ids
  <2> QED BY <1>5, <2>1, AddNodeKeepsInv, ReplaceNodeKeepsInv DEF Add, Replace, Becomes
<1>6. CASE \E id \in Ids : Delete(id)
  BY <1>6, RemoveNodeKeepsInv DEF Delete, Becomes
<1>7. CASE \E from, to \in Ids : \/ Unlink(from, to)
                                 \/ \E type \in EdgeTypes : Link(from, to, type)
  BY <1>7, RemoveEdgeKeepsInv, AddEdgeKeepsInv DEF Unlink, Link, Becomes
<1> QED BY <1>1, <1>2, <1>3, <1>4, <1>5, <1>6, <1>7 DEF Next

LEMMA SpecInv == Spec => [](NextIdIsFresh /\ MapIsExact)
<1>1. Init => GraphInv(graph)
  BY InitInv
<1>2. GraphInv(graph) /\ [Next]_vars => GraphInv(graph)'
  BY NextInv
<1>3. GraphInv(graph) => NextIdIsFresh /\ MapIsExact
  BY InvIsEnough
<1> QED BY <1>1, <1>2, <1>3, PTL DEF Spec

(* create_node in either mode, add_node and next_node_id never leave the   *)
(* next sequential id at or below an id that is in use, however nodes are  *)
(* removed, replaced and connected in between.                             *)
THEOREM SequentialIdsAreNew == Spec => []NextIdIsFresh
BY SpecInv, PTL

(* node_map is exact as long as no id is given out twice and no node but   *)
(* the last of petgraph is removed: ids and nodes are one to one, edges    *)
(* connect nodes, each Child edge is in its source's list, and add_edge    *)
(* does not panic.                                                         *)
THEOREM ExactUntilANodeMoves == Spec => []MapIsExact
BY SpecInv, PTL
=============================================================================
