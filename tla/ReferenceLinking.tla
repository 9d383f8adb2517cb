-------------------------- MODULE ReferenceLinking --------------------------
(***************************************************************************)
(* What a progressive reader of indirect objects promises about the graph  *)
(* it builds, whatever the order the objects arrive in: a node is linked   *)
(* to an object it refers to if and only if that object has been read, and *)
(* the step that reads an object links everything that was waiting for it. *)
(* IncrementalProcessor implements this specification.                     *)
(***************************************************************************)
CONSTANTS Nodes,   \* identifiers of nodes
          Objects  \* identifiers of indirect objects

VARIABLES defined,  \* objects read so far
          demands,  \* <<n, o>>: node n refers to object o
          links     \* <<n, o>>: node n has been linked to a node of o

vars == <<defined, demands, links>>

Init == defined = {} /\ demands = {} /\ links = {}

(* Object o is read into the fresh node n, which refers to the objects R.  *)
Define(n, o, R) ==
  /\ \A d \in demands : d[1] # n
  /\ defined' = defined \cup {o}
  /\ demands' = demands \cup ({n} \X R)
  /\ links' = {d \in demands' : d[2] \in defined'}

Next == \E n \in Nodes, o \in Objects, R \in SUBSET Objects : Define(n, o, R)

Spec == Init /\ [][Next]_vars
=============================================================================
