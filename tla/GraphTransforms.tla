-------------------------- MODULE GraphTransforms --------------------------
(***************************************************************************)
(* The transformations of a graph: inserting, moving, cloning, merging and *)
(* removing nodes with their subtrees. They follow the lists of children   *)
(* that nodes keep, which edges that are removed do not leave.             *)
(***************************************************************************)
EXTENDS AstGraph, FiniteSets, TLC

(* insert_node, and the InsertChild operation, which does not ask whether  *)
(* there is a parent.                                                      *)
InsertNode(g, parent, c) == AddEdge(CreateNode(g, c), parent, NewId(g, c), "child")

(* collect_subtree_nodes: depth first along the lists of children          *)
RECURSIVE Collect(_, _, _)
Collect(g, id, found) ==
  IF id \in Range(found) THEN found
  ELSE LET children == IF Found(g, id) THEN GetNode(g, id).children ELSE <<>>
       IN FoldLeft(LAMBDA all, child : Collect(g, child, all),
                   Append(found, id), children)

Subtree(g, root) == Collect(g, root, <<>>)

(* remove_subtree. Its second loop looks for the edges of a node that is   *)
(* no longer in the map, and finds none.                                   *)
RemoveSubtree(g, root) ==
  FoldLeft(LAMBDA h, id : IF Found(h, id) THEN RemoveNode(h, id) ELSE h,
           g, Subtree(g, root))

(* find_parent goes through the edges by their ids at both ends. When two  *)
(* ids have one index, either may stand for it.                            *)
FindParents(g, id) ==
  LET shared == \E other \in DOMAIN g.map \ {id} : g.map[other] = g.map[id]
      parents == {from \in DOMAIN g.map :
                    \E k \in ParentEdges(g, id) : g.edges[k].from = g.map[from]}
  IN parents \cup (IF shared \/ parents = {} THEN {NoId} ELSE {})

MoveUnder(g, id, old, new) ==
  AddEdge(IF old = NoId THEN g ELSE RemoveEdge(g, old, id), new, id, "child")

(* clone_subtree_recursive: w is the graph, the clones so far, the clone   *)
(* of the last node, and whether every node of the subtree was there.      *)
RECURSIVE CloneNode(_, _)
CloneNode(w, id) ==
  IF ~w.ok \/ id \in DOMAIN w.clone THEN w
  ELSE IF ~Found(w.graph, id) THEN [w EXCEPT !.ok = FALSE]
  ELSE
    LET original == GetNode(w.graph, id)
        new == NewId(w.graph, original.content)
        Child(v, child) ==
          LET u == CloneNode(v, child)
          IN IF ~u.ok THEN u
             ELSE [u EXCEPT !.graph = AddEdge(@, new, u.clone[child], "child")]
        Reference(v, target) ==
          IF ~v.ok \/ target \notin DOMAIN v.clone THEN v
          ELSE [v EXCEPT !.graph = AddEdge(@, new, v.clone[target], "reference")]
        created == [w EXCEPT !.graph = CreateNode(@, original.content),
                             !.clone = Put(@, id, new)]
    IN FoldLeft(Reference, FoldLeft(Child, created, original.children),
                original.references)

(* clone_subtree: what was cloned before an error stays in the graph.      *)
CloneSubtree(g, root, parent) ==
  LET w == CloneNode([graph |-> g, clone |-> [x \in {} |-> 0], ok |-> TRUE], root)
  IN IF w.ok THEN AddEdge(w.graph, parent, w.clone[root], "child") ELSE w.graph

(* merge_nodes: the source's list still names the children that were given *)
(* to the target, and remove_subtree follows it.                           *)
MergeNodes(g, target, source) ==
  LET Take(type, h, id) == AddEdge(RemoveEdge(h, source, id), target, id, type)
      node == GetNode(g, source)
      children == FoldLeft(LAMBDA h, id : Take("child", h, id), g, node.children)
  IN RemoveSubtree(FoldLeft(LAMBDA h, id : Take("reference", h, id), children,
                            node.references), source)

(* The RemoveNode operation may give the children to the parent first.     *)
RemoveKeepingChildren(g, id) ==
  LET Lift(h, child) == AddEdge(RemoveEdge(h, id, child), GetParent(g, id), child, "child")
  IN RemoveNode(IF HasParent(g, id) THEN FoldLeft(Lift, g, GetChildren(g, id)) ELSE g, id)
-----------------------------------------------------------------------------
InsertUnder(parent, c) == Becomes(InsertNode(graph, parent, c))
DeleteSubtree(root)    == Becomes(RemoveSubtree(graph, root))
Lift(id)               == Becomes(RemoveKeepingChildren(graph, id))

Move(id, new) ==
  /\ Has(graph, id)
  /\ Has(graph, new)
  /\ \E old \in FindParents(graph, id) : Becomes(MoveUnder(graph, id, old, new))

(* The MoveNode operation: with a new parent that is not there, the node   *)
(* only loses its old one.                                                 *)
MoveNode(id, new) ==
  LET old == IF HasParent(graph, id) THEN GetParent(graph, id) ELSE NoId
  IN Becomes(MoveUnder(graph, id, old, new))

Clone(root, parent) ==
  /\ Has(graph, root) /\ Has(graph, parent)
  /\ Becomes(CloneSubtree(graph, root, parent))

Merge(target, source) ==
  /\ Has(graph, target) /\ Found(graph, source) /\ target # source
  /\ Becomes(MergeNodes(graph, target, source))

TransformNext ==
  \/ Next
  \/ \E id \in Ids : DeleteSubtree(id) \/ Lift(id)
  \/ \E id \in Ids, c \in Contents : InsertUnder(id, c)
  \/ \E id, other \in Ids : \/ Move(id, other)
                             \/ MoveNode(id, other)
                             \/ Clone(id, other)
                             \/ Merge(id, other)

TransformSpec == Init /\ [][TransformNext]_vars
=============================================================================
