------------------------ MODULE IncrementalProcessor ------------------------
(***************************************************************************)
(* The incremental document processor: a priority queue of tasks, an index *)
(* from objects to the nodes built for them, the references that wait for  *)
(* an object nobody has parsed yet, and the edges of the AST.              *)
(*                                                                         *)
(* The bytes of a task are abstracted to a payload: what the parsers make  *)
(* of them ("object": an indirect object; "value": a bare value;           *)
(* "reference": the text `n g R`; "garbage": none of these, or nothing),   *)
(* the object it names and how often its value refers to each object.      *)
(***************************************************************************)
EXTENDS Integers, Sequences, SequencesExt

CONSTANTS
  Objects,   \* object identifiers
  NoObject,  \* marks a node that was not parsed from an indirect object
  NoNode,    \* marks a task without a parent node
  MaxTasks,  \* bound on the tasks that are ever queued
  Tasks,     \* the tasks a client may queue directly
  Chunks     \* the tasks `analyze_chunk` may find in one chunk of data

TaskTypes  == {"ParseObject", "ResolveReference", "BuildNode",
               "ValidateStructure", "IndexContent"}
Priorities == 1..4      \* Low, Normal, High, Critical
Nodes      == 1..MaxTasks

Payload == [kind : {"object", "value", "reference", "garbage"},
            obj  : Objects,
            refs : [Objects -> Nat]]

Task == [type : TaskTypes, priority : Priorities, data : Payload,
         parent : Nodes \cup {NoNode}]

ASSUME BoundAssumption == MaxTasks \in Nat

ASSUME MarkerAssumption == NoObject \notin Objects /\ NoNode \notin Nodes

ASSUME InputAssumption ==
  /\ Tasks \subseteq Task
  /\ Chunks \subseteq Seq(Task)

VARIABLES
  tolerant,    \* chosen when the processor is made
  queue,       \* processing_queue: each task with the ticket it was queued under
  incoming,    \* tasks of the current chunk that add_data_chunk has yet to queue
  draining,    \* process_all_tasks is running
  index,       \* object_index: object -> the node of its latest definition
  pending,     \* pending_references: object -> how often each node waits for it
  nodes,       \* the nodes of the AST, in creation order
  refEdges,    \* number of Reference edges from one node to another
  childEdges,  \* Child edges
  stats        \* processing_statistics

graph == <<tolerant, index, pending, nodes, refEdges, childEdges>>
vars  == <<tolerant, queue, incoming, draining, index, pending, nodes,
           refEdges, childEdges, stats>>

NoWaiters == [n \in Nodes |-> 0]

Init ==
  /\ tolerant \in BOOLEAN
  /\ queue = <<>>
  /\ incoming = <<>>
  /\ draining = FALSE
  /\ index = [o \in {} |-> 0]
  /\ pending = [o \in {} |-> NoWaiters]
  /\ nodes = <<>>
  /\ refEdges = [e \in Nodes \X Nodes |-> 0]
  /\ childEdges = {}
  /\ stats = [queued |-> 0, completed |-> 0, failed |-> 0, created |-> 0]

Idle == ~draining /\ incoming = <<>>
-----------------------------------------------------------------------------
(* queue_task                                                              *)

NotMoreUrgent(q, p) == {i \in DOMAIN q : q[i].task.priority <= p}

LessUrgent(q, p) == {i \in DOMAIN q : q[i].task.priority < p}

(* The first place whose task is less urgent, or the end of the queue.     *)
InsertPosition(q, p) ==
  IF LessUrgent(q, p) = {} THEN Len(q) + 1
  ELSE CHOOSE i \in LessUrgent(q, p) : \A j \in LessUrgent(q, p) : i <= j

Enqueue(t) ==
  /\ stats.queued < MaxTasks
  /\ stats' = [stats EXCEPT !.queued = @ + 1]
  /\ queue' = InsertAt(queue, InsertPosition(queue, t.priority),
                       [task |-> t, ticket |-> stats.queued + 1])

QueueTask ==
  /\ Idle
  /\ \E t \in Tasks : Enqueue(t)
  /\ UNCHANGED <<incoming, draining, graph>>

(* add_data_chunk: analyse the chunk, then queue its tasks one by one; it  *)
(* holds the processor exclusively until the last one is queued.           *)
AddDataChunk ==
  /\ Idle
  /\ incoming' \in {c \in Chunks : c # <<>> /\ stats.queued + Len(c) <= MaxTasks}
  /\ UNCHANGED <<queue, draining, graph, stats>>

QueueIncoming ==
  /\ incoming # <<>>
  /\ Enqueue(Head(incoming))
  /\ incoming' = Tail(incoming)
  /\ UNCHANGED <<draining, graph>>
-----------------------------------------------------------------------------
(* process_next_task and the loop of process_all_tasks                     *)

StartProcessAll ==
  /\ Idle
  /\ queue # <<>>
  /\ draining' = TRUE
  /\ UNCHANGED <<queue, incoming, graph, stats>>

FinishAndRetry(ok, made) ==
  /\ incoming = <<>>
  /\ queue # <<>>
  /\ queue' = IF ok THEN Tail(queue) ELSE queue
  /\ draining' = (draining /\ queue' # <<>>)
  /\ stats' = [stats EXCEPT !.completed = IF ok THEN @ + 1 ELSE @,
                            !.created   = @ + made]
  /\ UNCHANGED incoming

FinishOnlySuccess(ok, made) ==
  /\ incoming = <<>>
  /\ queue # <<>>
  /\ queue' = Tail(queue)
  /\ draining' = (draining /\ ok /\ Tail(queue) # <<>>)
  /\ stats' = [stats EXCEPT !.completed = IF ok THEN @ + 1 ELSE @,
                            !.created   = @ + made]
  /\ UNCHANGED incoming

(* The task at the head leaves the queue whatever becomes of it. An error  *)
(* ends process_all_tasks with the rest of the queue still in place.       *)
FinishTask(ok, made) ==
  /\ incoming = <<>>
  /\ queue # <<>>
  /\ queue' = Tail(queue)
  /\ draining' = (draining /\ ok /\ Tail(queue) # <<>>)
  /\ stats' = [queued    |-> stats.queued,
               completed |-> stats.completed + (IF ok THEN 1 ELSE 0),
               failed    |-> stats.failed + (IF ok THEN 0 ELSE 1),
               created   |-> stats.created + made]
  /\ UNCHANGED incoming

current == Head(queue).task

NodeCount == Len(nodes)

(* The identifier the AST gives to the next node it creates.               *)
NewNode == Len(nodes) + 1
-----------------------------------------------------------------------------
(* The graph updates of process_parse_object and track_reference           *)

Waiting(o) == IF o \in DOMAIN pending THEN pending[o] ELSE NoWaiters

IndexKeepingFirst(o, n) ==
  [p \in DOMAIN index \cup {o} |-> IF p \in DOMAIN index THEN index[p] ELSE n]

Indexed(o, n) ==
  [p \in DOMAIN index \cup {o} |-> IF p = o THEN n ELSE index[p]]

PendingNotDrained(o, n, refs) ==
  LET unresolved == {p \in Objects : refs[p] > 0 /\ p \notin DOMAIN Indexed(o, n)} IN
  [p \in DOMAIN pending \cup unresolved |->
     [Waiting(p) EXCEPT ![n] = IF p \in unresolved THEN @ + refs[p] ELSE @]]

(* Node n of object o is complete: nobody waits for o any more, and n      *)
(* waits for each object it refers to that is not indexed, o included.     *)
PendingAfter(o, n, refs) ==
  LET unresolved == {p \in Objects : refs[p] > 0 /\ p \notin DOMAIN Indexed(o, n)} IN
  [p \in (DOMAIN pending \ {o}) \cup unresolved |->
     [Waiting(p) EXCEPT ![n] = IF p \in unresolved THEN @ + refs[p] ELSE @]]

LinksOnlyToEarlier(o, n, refs) ==
  [e \in Nodes \X Nodes |->
     refEdges[e]
     + (IF e[2] = n THEN Waiting(o)[e[1]] ELSE 0)
     + (IF e[1] = n /\ \E p \in DOMAIN index : index[p] = e[2]
        THEN refs[CHOOSE p \in DOMAIN index : index[p] = e[2]] ELSE 0)]

LinksForgettingWaiters(o, n, refs) ==
  [e \in Nodes \X Nodes |->
     refEdges[e]
     + (IF e[1] = n /\ \E p \in DOMAIN Indexed(o, n) : Indexed(o, n)[p] = e[2]
        THEN refs[CHOOSE p \in DOMAIN Indexed(o, n) : Indexed(o, n)[p] = e[2]]
        ELSE 0)]

(* Every node that waited for o gets its edges to n, and n gets an edge to *)
(* the latest node of each object it refers to that has one.               *)
LinksAfter(o, n, refs) ==
  [e \in Nodes \X Nodes |->
     refEdges[e]
     + (IF e[2] = n THEN Waiting(o)[e[1]] ELSE 0)
     + (IF e[1] = n /\ \E p \in DOMAIN Indexed(o, n) : Indexed(o, n)[p] = e[2]
        THEN refs[CHOOSE p \in DOMAIN Indexed(o, n) : Indexed(o, n)[p] = e[2]]
        ELSE 0)]
-----------------------------------------------------------------------------
(* process_parse_object                                                    *)

ParseIndirectObject ==
  LET d == current.data
      n == NewNode IN
  /\ FinishTask(TRUE, 1)
  /\ current.type = "ParseObject"
  /\ d.kind = "object"
  /\ nodes' = Append(nodes, [obj |-> d.obj, refs |-> d.refs])
  /\ index' = Indexed(d.obj, n)
  /\ pending' = PendingAfter(d.obj, n, d.refs)
  /\ refEdges' = LinksAfter(d.obj, n, d.refs)
  /\ UNCHANGED <<tolerant, childEdges>>

(* A value without an object header becomes a node nobody can refer to,    *)
(* and its own references are not tracked.                                 *)
ParseBareValue ==
  /\ FinishTask(TRUE, 1)
  /\ current.type = "ParseObject"
  /\ current.data.kind \in {"value", "reference"}
  /\ nodes' = Append(nodes, [obj |-> NoObject, refs |-> current.data.refs])
  /\ UNCHANGED <<tolerant, index, pending, refEdges, childEdges>>

ParseGarbage ==
  /\ FinishTask(tolerant, 0)
  /\ current.type = "ParseObject"
  /\ current.data.kind = "garbage"
  /\ UNCHANGED graph
-----------------------------------------------------------------------------
(* process_resolve_reference                                               *)

ResolveMalformed ==
  /\ FinishTask(TRUE, 0)
  /\ current.type = "ResolveReference"
  /\ current.data.kind # "reference"
  /\ UNCHANGED graph

ResolveIndexed ==
  LET o == current.data.obj IN
  /\ FinishTask(TRUE, 0)
  /\ current.type = "ResolveReference"
  /\ current.data.kind = "reference"
  /\ o \in DOMAIN index
  /\ pending' = [p \in DOMAIN pending \ {o} |-> pending[p]]
  /\ refEdges' = [e \in Nodes \X Nodes |->
                    refEdges[e] + (IF e[2] = index[o] THEN Waiting(o)[e[1]] ELSE 0)]
  /\ UNCHANGED <<tolerant, index, nodes, childEdges>>

(* The request itself names no source node: the entry it leaves is empty.  *)
ResolveUnknown ==
  LET o == current.data.obj IN
  /\ FinishTask(TRUE, 0)
  /\ current.type = "ResolveReference"
  /\ current.data.kind = "reference"
  /\ o \notin DOMAIN index
  /\ pending' = [p \in DOMAIN pending \cup {o} |-> Waiting(p)]
  /\ UNCHANGED <<tolerant, index, nodes, refEdges, childEdges>>
-----------------------------------------------------------------------------
(* process_build_node                                                      *)

BuildNode ==
  LET n == NewNode
      parent == current.parent IN
  /\ FinishTask(TRUE, 0)
  /\ current.type = "BuildNode"
  /\ current.data.kind # "garbage"
  /\ nodes' = Append(nodes, [obj |-> NoObject, refs |-> current.data.refs])
  /\ childEdges' = childEdges \cup
       (IF parent \in Nodes /\ parent <= n THEN {<<parent, n>>} ELSE {})
  /\ UNCHANGED <<tolerant, index, pending, refEdges>>

BuildNodeFails ==
  /\ FinishTask(FALSE, 0)
  /\ current.type = "BuildNode"
  /\ current.data.kind = "garbage"
  /\ UNCHANGED graph

(* process_validate_structure and process_index_content read the document. *)
ReadOnlyTask ==
  /\ FinishTask(TRUE, 0)
  /\ current.type \in {"ValidateStructure", "IndexContent"}
  /\ UNCHANGED graph
-----------------------------------------------------------------------------
ProcessNextTask ==
  \/ ParseIndirectObject \/ ParseBareValue \/ ParseGarbage
  \/ ResolveMalformed \/ ResolveIndexed \/ ResolveUnknown
  \/ BuildNode \/ BuildNodeFails
  \/ ReadOnlyTask

Next == QueueTask \/ AddDataChunk \/ QueueIncoming \/ StartProcessAll
        \/ ProcessNextTask

(* A call runs to its end: only the client decides whether to make one.    *)
Spec == /\ Init /\ [][Next]_vars
        /\ WF_vars(QueueIncoming)
        /\ WF_vars(draining /\ ProcessNextTask)

IsCompleteIgnoringPending == queue = <<>>

IsComplete == queue = <<>> /\ DOMAIN pending = {}
-----------------------------------------------------------------------------
(* Properties                                                              *)

Queued == [task : Task, ticket : 1..MaxTasks]
Node   == [obj : Objects \cup {NoObject}, refs : [Objects -> Nat]]
Stats  == [queued : 0..MaxTasks, completed : Nat, failed : Nat, created : Nat]

(* Types, and the bound on nodes: a task makes one node at most.           *)
TypeOK ==
  /\ tolerant \in BOOLEAN
  /\ queue \in Seq(Queued)
  /\ incoming \in Seq(Task)
  /\ draining \in BOOLEAN
  /\ DOMAIN index \subseteq Objects
  /\ index \in [DOMAIN index -> Nodes]
  /\ DOMAIN pending \subseteq Objects
  /\ pending \in [DOMAIN pending -> [Nodes -> Nat]]
  /\ nodes \in Seq(Node)
  /\ refEdges \in [Nodes \X Nodes -> Nat]
  /\ childEdges \subseteq Nodes \X Nodes
  /\ stats \in Stats

(* process_next_task drops no task and counts each exactly once: what was  *)
(* queued has completed, has failed or is still in the queue; every task   *)
(* makes at most one node, so nodes never outnumber completed tasks.       *)
TasksConserved ==
  /\ stats.queued = stats.completed + stats.failed + Len(queue)
  /\ Len(nodes) <= stats.completed
  /\ stats.created <= Len(nodes)

(* queue_task keeps the queue so that the head is always the most urgent   *)
(* task and, among equally urgent ones, the one that was queued first.     *)
QueueOrdered ==
  \A i, j \in DOMAIN queue : i < j =>
    LET a == queue[i]
        b == queue[j] IN
    \/ a.task.priority > b.task.priority
    \/ a.task.priority = b.task.priority /\ a.ticket < b.ticket

(* An object is indexed or waited for, never both: process_parse_object    *)
(* and process_resolve_reference leave no waiter behind on an object that  *)
(* has a node.                                                             *)
NobodyWaitsForIndexed == DOMAIN index \cap DOMAIN pending = {}

NodesOf(o)   == {n \in DOMAIN nodes : nodes[n].obj = o}
Wanted(n, o) == IF nodes[n].obj = NoObject THEN 0 ELSE nodes[n].refs[o]

Accounted(n, o) ==
  IF NodesOf(o) = {}
  THEN Waiting(o)[n] = Wanted(n, o)
  ELSE /\ Waiting(o)[n] = 0
       /\ \E m \in NodesOf(o) :
            /\ refEdges[<<n, m>>] = Wanted(n, o)
            /\ \A k \in NodesOf(o) \ {m} : refEdges[<<n, k>>] = 0

(* No reference is lost, doubled or split by the order in which objects    *)
(* arrive: all references of a parsed node to an object wait together, or  *)
(* all of them are edges to one node of that object; an object that has    *)
(* been parsed is waited for by nobody.                                    *)
EveryReferenceAccounted == \A n \in DOMAIN nodes, o \in Objects : Accounted(n, o)

(* is_complete can be believed: when it says so, every reference of every  *)
(* parsed object leads to an edge.                                         *)
CompleteMeansLinked ==
  Idle /\ IsComplete =>
    \A n \in DOMAIN nodes, o \in Objects :
      Wanted(n, o) > 0 => \E m \in NodesOf(o) : refEdges[<<n, m>>] > 0

(* When an object is defined again, no step links anybody to the node of   *)
(* the superseded definition: a new edge leads to the latest node of its   *)
(* object, the new one included.                                           *)
NewLinksTargetLatest ==
  [][\A e \in Nodes \X Nodes : refEdges'[e] > refEdges[e] =>
        /\ e[2] \in DOMAIN nodes'
        /\ nodes'[e[2]].obj # NoObject
        /\ \A k \in DOMAIN nodes' : nodes'[k].obj = nodes'[e[2]].obj => k <= e[2]]_vars

(* process_all_tasks returns, and when it does either the queue is empty   *)
(* or another task has failed.                                             *)
DrainTerminates ==
  \A k \in 0..MaxTasks :
    (draining /\ stats.failed = k) ~>
      (~draining /\ (queue = <<>> \/ stats.failed > k))

(* The processor implements ReferenceLinking, whatever the task order: the *)
(* step that parses an object links, at once, all that can be linked.      *)
Demands == {d \in (DOMAIN nodes) \X Objects : Wanted(d[1], d[2]) > 0}
Links   == {d \in (DOMAIN nodes) \X Objects :
              \E m \in NodesOf(d[2]) : refEdges[<<d[1], m>>] > 0}

Linking == INSTANCE ReferenceLinking
             WITH defined <- DOMAIN index, demands <- Demands, links <- Links

ImplementsLinking == Linking!Spec
=============================================================================
