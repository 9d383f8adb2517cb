------------------------------ MODULE AstGraph ------------------------------
(***************************************************************************)
(* The graph behind the AST: nodes and edges in a petgraph graph, which    *)
(* knows them by index, and beside it a map from node ids to indexes, one  *)
(* from PDF objects to ids, the next id and, when ids are derived from     *)
(* contents, the ids already given out.                                    *)
(*                                                                         *)
(* A graph is one record; an operation is a function from graphs to        *)
(* graphs, so that the transformations can compose them. Every node is the *)
(* node of a PDF object, and its content is that object.                   *)
(***************************************************************************)
EXTENDS Integers, Sequences, SequencesExt, SequenceSelection

CONSTANTS
  Contents,   \* the contents of nodes
  Hash,       \* the id a content hashes to
  MaxId,      \* bounds on the ids, the nodes, the edges and the operations
  MaxNodes,
  MaxEdges,
  MaxCalls

ASSUME GraphAssumption ==
  /\ MaxId \in Nat
  /\ MaxNodes \in Nat
  /\ MaxEdges \in Nat
  /\ MaxCalls \in Nat
  /\ Hash \in [Contents -> 0..MaxId]

Ids == 0..MaxId
EdgeTypes == {"child", "reference"}
NoId == -1

VARIABLES
  graph,   \* the graph
  calls    \* the number of operations so far

vars == <<graph, calls>>

Empty ==
  [slots    |-> <<>>,                          \* the nodes of petgraph, by index
   edges    |-> <<>>,                          \* its edges, in order of insertion
   map      |-> [x \in {} |-> 0],              \* node_map
   known    |-> [c \in Contents |-> NoId],     \* content_hash
   next     |-> 0,                             \* next_node_id
   derived  |-> FALSE,                         \* deterministic_ids
   exact    |-> TRUE,       \* history: no id was given twice, no node moved
   panicked |-> FALSE]      \* petgraph was given an index it does not have

Has(g, id) == id \in DOMAIN g.map

Put(f, x, y) == [z \in DOMAIN f \cup {x} |-> IF z = x THEN y ELSE f[z]]
Without(f, x) == [z \in DOMAIN f \ {x} |-> f[z]]
-----------------------------------------------------------------------------
(* petgraph                                                                *)

InRange(g, i) == i \in DOMAIN g.slots

(* Removing a node moves the last node to its index, and so the ends of    *)
(* that node's edges.                                                      *)
RemoveSlot(g, i) ==
  LET last == Len(g.slots)
      End(j) == IF j = last THEN i ELSE j
      kept == ElementsAt(g.edges, {k \in DOMAIN g.edges : g.edges[k].from # i
                                                          /\ g.edges[k].to # i})
  IN IF ~InRange(g, i) THEN g
     ELSE [g EXCEPT
       !.slots = Front(IF i = last THEN @ ELSE [@ EXCEPT ![i] = g.slots[last]]),
       !.edges = [k \in DOMAIN kept |->
                    [kept[k] EXCEPT !.from = End(@), !.to = End(@)]]]

(* The latest edge between two nodes, whatever its type                    *)
Between(g, i, j) == {k \in DOMAIN g.edges : g.edges[k].from = i /\ g.edges[k].to = j}
FindEdge(g, i, j) == CHOOSE k \in Between(g, i, j) : \A l \in Between(g, i, j) : l <= k
-----------------------------------------------------------------------------
(* Looking up                                                              *)

(* get_node: nothing when the id has no index, or the index no node        *)
Found(g, id) == Has(g, id) /\ InRange(g, g.map[id])
GetNode(g, id) == g.slots[g.map[id]]

GetChildren(g, id) ==
  IF ~Has(g, id) THEN <<>>
  ELSE LET out == SelectSeq(Reverse(g.edges),
                            LAMBDA e : e.from = g.map[id] /\ e.type = "child")
       IN [k \in DOMAIN out |-> g.slots[out[k].to].id]

(* get_parent: the source of the latest Child edge into the node           *)
ParentEdges(g, id) ==
  IF ~Has(g, id) THEN {}
  ELSE {k \in DOMAIN g.edges : g.edges[k].to = g.map[id] /\ g.edges[k].type = "child"}
HasParent(g, id) == ParentEdges(g, id) # {}
GetParent(g, id) ==
  LET in == ParentEdges(g, id)
  IN g.slots[g.edges[CHOOSE k \in in : \A l \in in : l <= k].from].id
-----------------------------------------------------------------------------
(* Nodes                                                                   *)

Node(id, c) == [id |-> id, content |-> c, children |-> <<>>, references |-> <<>>]

(* The node goes into petgraph and the maps, over whatever id meant there. *)
Insert(g, id, c) ==
  [g EXCEPT !.slots   = Append(@, Node(id, c)),
            !.map     = Put(@, id, Len(g.slots) + 1),
            !.exact   = @ /\ ~Has(g, id)]

(* generate_deterministic_id: the id this content had, or the first free   *)
(* one from its hash on                                                    *)
DerivedId(g, c) ==
  IF g.known[c] # NoId THEN g.known[c]
  ELSE CHOOSE id \in Hash[c] .. Hash[c] + Len(g.slots) :
         ~Has(g, id) /\ \A lower \in Hash[c] .. id - 1 : Has(g, lower)

NewId(g, c) == IF g.derived THEN DerivedId(g, c) ELSE g.next

CreateNode(g, c) ==
  LET id == NewId(g, c)
      reused == g.derived /\ g.known[c] # NoId
  IN Insert([g EXCEPT !.known = IF g.derived THEN [@ EXCEPT ![c] = id] ELSE @,
                      !.next  = IF reused \/ id < @ THEN @ ELSE id + 1], id, c)

AddNodeKeepingNext(g, id, c) == Insert(g, id, c)

(* add_node, with an id the caller chose                                   *)
AddNode(g, id, c) ==
  Insert([g EXCEPT !.next = IF @ <= id THEN id + 1 ELSE @], id, c)

RemoveNodeOnly(g, id) ==
  IF ~Has(g, id) THEN g
  ELSE RemoveSlot([g EXCEPT !.exact = @ /\ g.map[id] = Len(g.slots)], g.map[id])

(* The id leaves the node map. The object map and the lists of other nodes *)
(* keep it, and the node that petgraph moves keeps its old index.          *)
RemoveNode(g, id) ==
  IF ~Has(g, id) THEN g
  ELSE RemoveSlot([g EXCEPT !.map   = Without(@, id),
                            !.exact = @ /\ g.map[id] = Len(g.slots)], g.map[id])

ReplaceNode(g, id, c) ==
  IF ~Found(g, id) THEN g ELSE [g EXCEPT !.slots[g.map[id]].content = c]
-----------------------------------------------------------------------------
(* Edges                                                                   *)

Listing(node, to, type) ==
  IF type = "child" THEN [node EXCEPT !.children = Append(@, to)]
  ELSE [node EXCEPT !.references = Append(@, to)]

(* add_edge: petgraph panics at an index it does not have. Node lists get  *)
(* the target's id.                                                        *)
AddEdge(g, from, to, type) ==
  IF ~(Has(g, from) /\ Has(g, to)) THEN g
  ELSE LET i == g.map[from]
           j == g.map[to]
       IN IF ~(InRange(g, i) /\ InRange(g, j)) THEN [g EXCEPT !.panicked = TRUE]
          ELSE [g EXCEPT
            !.edges = Append(@, [from |-> i, to |-> j, type |-> type]),
            !.slots[i] = Listing(@, to, type)]

(* remove_edge leaves the node lists as they are.                          *)
RemoveEdge(g, from, to) ==
  IF ~(Has(g, from) /\ Has(g, to)) \/ Between(g, g.map[from], g.map[to]) = {} THEN g
  ELSE [g EXCEPT !.edges = RemoveAt(@, FindEdge(g, g.map[from], g.map[to]))]

SetDerived(g, on) ==
  [g EXCEPT !.derived = on,
            !.known   = IF on THEN @ ELSE [c \in Contents |-> NoId]]
-----------------------------------------------------------------------------
(* The state machine                                                       *)

Init ==
  /\ graph \in {Empty, SetDerived(Empty, TRUE)}
  /\ calls = 0

Fits(g) == /\ Len(g.slots) <= MaxNodes
           /\ Len(g.edges) <= MaxEdges
           /\ g.next <= MaxId + 1
           /\ DOMAIN g.map \subseteq Ids

Becomes(g) ==
  /\ calls < MaxCalls
  /\ ~graph.panicked
  /\ Fits(g)
  /\ graph' = g
  /\ calls' = calls + 1

Create(c)            == Becomes(CreateNode(graph, c))
Add(id, c)           == Becomes(AddNode(graph, id, c))
TakeId               == Becomes([graph EXCEPT !.next = @ + 1])
Delete(id)           == Becomes(RemoveNode(graph, id))
Replace(id, c)       == Becomes(ReplaceNode(graph, id, c))
Link(from, to, type) == Becomes(AddEdge(graph, from, to, type))
Unlink(from, to)     == Becomes(RemoveEdge(graph, from, to))
SwitchIds(on)        == Becomes(SetDerived(graph, on))

Next ==
  \/ TakeId
  \/ \E on \in BOOLEAN : SwitchIds(on)
  \/ \E c \in Contents : Create(c)
  \/ \E id \in Ids, c \in Contents : Add(id, c) \/ Replace(id, c)
  \/ \E id \in Ids : Delete(id)
  \/ \E from, to \in Ids : \/ Unlink(from, to)
                           \/ \E type \in EdgeTypes : Link(from, to, type)

Spec == Init /\ [][Next]_vars
-----------------------------------------------------------------------------
(* Properties                                                              *)

(* The next id is beyond every id in use, whichever of create_node (in     *)
(* either mode), add_node and next_node_id gave them out and however nodes *)
(* were removed: a sequential id never takes over a node.                  *)
NextIdIsFresh == \A id \in DOMAIN graph.map : id < graph.next

(* As long as no id was given out twice and no node but the last of        *)
(* petgraph was removed, the map is exact: each id leads to the node that  *)
(* has it, each node has its id in the map, edges connect nodes, a Child   *)
(* edge is in the list of its source, and no operation panics.             *)
MapIsExact ==
  graph.exact =>
    /\ ~graph.panicked
    /\ \A id \in DOMAIN graph.map : Found(graph, id) /\ GetNode(graph, id).id = id
    /\ \A i \in DOMAIN graph.slots : /\ Has(graph, graph.slots[i].id)
                                     /\ graph.map[graph.slots[i].id] = i
    /\ \A k \in DOMAIN graph.edges :
         LET e == graph.edges[k] IN
         /\ InRange(graph, e.from) /\ InRange(graph, e.to)
         /\ e.type = "child" =>
              graph.slots[e.to].id \in Range(graph.slots[e.from].children)

(* remove_node "removes a node and all its edges from the graph"           *)
(* (graph.rs:594), so an id that stays leads to the node it led to before. *)
IdsKeepTheirNodes ==
  [][\A id \in DOMAIN graph.map \cap DOMAIN graph'.map :
       Found(graph, id) =>
         Found(graph', id) /\ GetNode(graph', id).id = GetNode(graph, id).id]_vars
=============================================================================
