--------------------------- MODULE StreamingProofs ---------------------------
(***************************************************************************)
(* Proofs about the two machines of src/streaming: IncrementalProcessor,   *)
(* for any objects, tasks and chunks, and Pipeline, for any stages, what-  *)
(* ever they make of items, any buffers and any number of retries. They    *)
(* share no variable.                                                      *)
(***************************************************************************)
EXTENDS IncrementalProcessor, Pipeline, SequenceTheorems, FiniteSetTheorems,
        WellFoundedInduction, TLAPS
-----------------------------------------------------------------------------
(* A non-empty set of positions has a least one.                           *)
LEMMA LeastPosition ==
  ASSUME NEW S \in SUBSET Nat, S # {}
  PROVE  \E i \in S : \A j \in S : i <= j
<1>1. IsWellFoundedOn(OpToRel(<, Nat), Nat)
  BY NatLessThanWellFounded
<1>2. PICK x \in S : \A y \in S : ~(<<y, x>> \in OpToRel(<, Nat))
  BY <1>1, WFMin, Zenon
<1>3. ASSUME NEW y \in S PROVE x <= y
  <2>1. x \in Nat /\ y \in Nat
    OBVIOUS
  <2>2. ~(y < x)
    <3>1. SUFFICES ASSUME y < x PROVE <<y, x>> \in OpToRel(<, Nat)
      BY <1>2
    <3> QED BY <2>1, <3>1 DEF OpToRel
  <2> QED BY <2>1, <2>2
<1> QED BY <1>3

(* queue_task inserts at a position of the queue or just behind it: all    *)
(* tasks before that position are at least as urgent, and the one that is  *)
(* there, if any, is less urgent.                                          *)
LEMMA InsertPositionProperties ==
  ASSUME NEW q \in Seq(Queued), NEW p \in Priorities
  PROVE  /\ InsertPosition(q, p) \in 1 .. Len(q) + 1
         /\ \A i \in 1 .. InsertPosition(q, p) - 1 : q[i].task.priority >= p
         /\ InsertPosition(q, p) <= Len(q) =>
              q[InsertPosition(q, p)].task.priority < p
<1>0. /\ DOMAIN q = 1..Len(q) /\ Len(q) \in Nat
      /\ \A i \in 1..Len(q) : q[i].task.priority \in Priorities
  <2>1. DOMAIN q = 1..Len(q) /\ Len(q) \in Nat
    OBVIOUS
  <2>2. ASSUME NEW i \in 1..Len(q) PROVE q[i].task.priority \in Priorities
    <3>1. q[i] \in Queued
      BY ElementOfSeq
    <3>2. q[i].task \in Task
      BY <3>1 DEF Queued
    <3> QED BY <3>2 DEF Task
  <2> QED BY <2>1, <2>2
<1>1. CASE LessUrgent(q, p) = {}
  <2>1. InsertPosition(q, p) = Len(q) + 1
    BY <1>1 DEF InsertPosition
  <2>2. \A i \in 1..Len(q) : q[i].task.priority >= p
    BY <1>0, <1>1 DEF LessUrgent, Priorities
  <2> QED BY <1>0, <2>1, <2>2
<1>2. CASE LessUrgent(q, p) # {}
  <2>1. LessUrgent(q, p) \in SUBSET Nat
    BY <1>0 DEF LessUrgent
  <2>2. /\ InsertPosition(q, p) \in LessUrgent(q, p)
        /\ \A j \in LessUrgent(q, p) : InsertPosition(q, p) <= j
    BY <1>2, <2>1, LeastPosition DEF InsertPosition
  <2>3. /\ InsertPosition(q, p) \in 1..Len(q)
        /\ q[InsertPosition(q, p)].task.priority < p
    BY <1>0, <2>2 DEF LessUrgent
  <2>4. ASSUME NEW i \in 1 .. InsertPosition(q, p) - 1
        PROVE  q[i].task.priority >= p
    <3>1. i \in 1..Len(q) /\ i < InsertPosition(q, p)
      BY <1>0, <2>3
    <3>2. i \notin LessUrgent(q, p)
      BY <2>2, <2>3, <3>1
    <3> QED BY <1>0, <3>1, <3>2 DEF LessUrgent, Priorities
  <2> QED BY <1>0, <2>3, <2>4
<1> QED BY <1>1, <1>2

(* What inserting one element does to a sequence.                          *)
LEMMA InsertAtProperties ==
  ASSUME NEW S, NEW q \in Seq(S), NEW x \in S, NEW i \in 1 .. Len(q) + 1
  PROVE  /\ InsertAt(q, i, x) \in Seq(S)
         /\ Len(InsertAt(q, i, x)) = Len(q) + 1
         /\ \A k \in 1 .. Len(q) + 1 :
              InsertAt(q, i, x)[k] = IF k < i THEN q[k]
                                     ELSE IF k = i THEN x ELSE q[k - 1]
<1> DEFINE a == SubSeq(q, 1, i - 1)
           b == <<x>>
           c == SubSeq(q, i, Len(q))
<1>0. Len(q) \in Nat /\ i \in Nat
  BY LenProperties
<1>1. /\ a \in Seq(S) /\ Len(a) = i - 1
      /\ \A k \in 1 .. i - 1 : a[k] = q[k]
  BY <1>0, SubSeqProperties
<1>2. b \in Seq(S) /\ Len(b) = 1 /\ b[1] = x
  OBVIOUS
<1>3. /\ c \in Seq(S) /\ Len(c) = Len(q) - i + 1
      /\ \A k \in 1 .. Len(q) - i + 1 : c[k] = q[i + k - 1]
  BY <1>0, SubSeqProperties
<1>4. /\ a \o b \in Seq(S) /\ Len(a \o b) = i
      /\ \A k \in 1..i : (a \o b)[k] = IF k < i THEN q[k] ELSE x
  <2> HIDE DEF a, b
  <2>1. /\ a \o b \in Seq(S) /\ Len(a \o b) = Len(a) + Len(b)
        /\ \A k \in 1 .. Len(a) + Len(b) :
             (a \o b)[k] = IF k <= Len(a) THEN a[k] ELSE b[k - Len(a)]
    BY <1>1, <1>2, ConcatProperties
  <2>2. Len(a) + Len(b) = i
    BY <1>0, <1>1, <1>2
  <2>3. ASSUME NEW k \in 1..i PROVE (a \o b)[k] = IF k < i THEN q[k] ELSE x
    BY <1>0, <1>1, <1>2, <2>1, <2>2
  <2> QED BY <2>1, <2>2, <2>3
<1>5. InsertAt(q, i, x) = (a \o b) \o c
  BY DEF InsertAt
<1> DEFINE ab == a \o b
<1>6. /\ ab \o c \in Seq(S) /\ Len(ab \o c) = Len(q) + 1
      /\ \A k \in 1 .. Len(q) + 1 :
           (ab \o c)[k] = IF k <= i THEN ab[k] ELSE c[k - i]
  <2> HIDE DEF a, b, c
  <2>1. ab \in Seq(S) /\ Len(ab) = i
    BY <1>4
  <2> HIDE DEF ab
  <2>2. /\ ab \o c \in Seq(S) /\ Len(ab \o c) = Len(ab) + Len(c)
        /\ \A k \in 1 .. Len(ab) + Len(c) :
             (ab \o c)[k] = IF k <= Len(ab) THEN ab[k] ELSE c[k - Len(ab)]
    BY <1>3, <2>1, ConcatProperties
  <2>3. Len(ab) + Len(c) = Len(q) + 1
    BY <1>0, <1>3, <2>1
  <2> QED BY <2>1, <2>2, <2>3
<1>7. InsertAt(q, i, x) = ab \o c
  BY <1>5
<1>8. \A k \in 1..i : ab[k] = IF k < i THEN q[k] ELSE x
  BY <1>4
<1> HIDE DEF a, b, c, ab
<1>9. ASSUME NEW k \in 1 .. Len(q) + 1
      PROVE  (ab \o c)[k] = IF k < i THEN q[k] ELSE IF k = i THEN x ELSE q[k - 1]
  <2>1. CASE k <= i
    BY <1>0, <1>6, <1>8, <2>1
  <2>2. CASE k > i
    <3>1. k - i \in 1 .. Len(q) - i + 1 /\ i + (k - i) - 1 = k - 1
      BY <1>0, <2>2
    <3>2. c[k - i] = q[k - 1]
      BY <1>3, <3>1
    <3> QED BY <1>0, <1>6, <2>2, <3>2
  <2>3. k <= i \/ k > i
    BY <1>0
  <2> QED BY <2>1, <2>2, <2>3
<1> QED BY <1>6, <1>7, <1>9
-----------------------------------------------------------------------------
(* Types and conservation of tasks                                         *)

Accounting == TypeOK /\ TasksConserved

LEMMA EnqueueLemma ==
  ASSUME Accounting, NEW t \in Task, Enqueue(t)
  PROVE  /\ queue' \in Seq(Queued)
         /\ Len(queue') = Len(queue) + 1
         /\ stats' \in Stats
         /\ stats' = [stats EXCEPT !.queued = @ + 1]
<1> USE BoundAssumption
<1>1. queue \in Seq(Queued) /\ stats \in Stats /\ t.priority \in Priorities
  BY DEF Accounting, TypeOK, Task
<1>2. InsertPosition(queue, t.priority) \in 1 .. Len(queue) + 1
  BY <1>1, InsertPositionProperties
<1>3. stats.queued + 1 \in 1..MaxTasks
  BY <1>1 DEF Enqueue, Stats
<1>4. [task |-> t, ticket |-> stats.queued + 1] \in Queued
  BY <1>3 DEF Queued
<1>5. queue' = InsertAt(queue, InsertPosition(queue, t.priority),
                        [task |-> t, ticket |-> stats.queued + 1])
  BY DEF Enqueue
<1>6. /\ queue' \in Seq(Queued)
      /\ Len(queue') = Len(queue) + 1
  BY <1>1, <1>2, <1>4, <1>5, InsertAtProperties
<1>7. stats' = [stats EXCEPT !.queued = @ + 1]
  BY DEF Enqueue
<1>8. stats' \in Stats
  BY <1>1, <1>3, <1>7 DEF Stats
<1> QED BY <1>6, <1>7, <1>8

LEMMA FinishLemma ==
  ASSUME Accounting, NEW ok \in BOOLEAN, NEW made \in {0, 1}, FinishTask(ok, made)
  PROVE  /\ queue' \in Seq(Queued)
         /\ Len(queue') = Len(queue) - 1
         /\ current \in Task
         /\ draining' \in BOOLEAN
         /\ incoming' = incoming
         /\ stats' \in Stats
         /\ stats'.queued = stats'.completed + stats'.failed + Len(queue')
         /\ stats'.completed = IF ok THEN stats.completed + 1 ELSE stats.completed
         /\ stats'.created = stats.created + made
         /\ NewNode \in Nodes
         /\ Len(nodes) \in Nat /\ Len(nodes) <= stats.completed
         /\ stats.completed \in Nat /\ stats.created \in Nat
         /\ stats.created <= Len(nodes)
<1> USE BoundAssumption
<1>1. /\ queue \in Seq(Queued) /\ queue # <<>> /\ stats \in Stats
      /\ nodes \in Seq(Node) /\ draining \in BOOLEAN
  BY DEF Accounting, TypeOK, FinishTask
<1>2. /\ queue' = Tail(queue)
      /\ queue' \in Seq(Queued)
      /\ Len(queue') = Len(queue) - 1
      /\ Head(queue) \in Queued
  BY <1>1, HeadTailProperties DEF FinishTask
<1>3. current \in Task
  BY <1>2 DEF current, Queued
<1>4. draining' \in BOOLEAN /\ incoming' = incoming
  BY <1>1 DEF FinishTask
<1>5. stats' = [queued    |-> stats.queued,
                completed |-> stats.completed + (IF ok THEN 1 ELSE 0),
                failed    |-> stats.failed + (IF ok THEN 0 ELSE 1),
                created   |-> stats.created + made]
  BY DEF FinishTask
<1>6. /\ stats' \in Stats
      /\ stats'.queued = stats.queued
      /\ stats'.completed = IF ok THEN stats.completed + 1 ELSE stats.completed
      /\ stats'.failed = IF ok THEN stats.failed ELSE stats.failed + 1
      /\ stats'.created = stats.created + made
  BY <1>1, <1>5 DEF Stats
<1>7. Len(queue) \in Nat /\ Len(queue) > 0
  BY <1>1
<1>8. stats'.queued = stats'.completed + stats'.failed + Len(queue')
  BY <1>1, <1>2, <1>6, <1>7, SMTT(60) DEF Stats, Accounting, TasksConserved
<1>9. Len(nodes) \in Nat /\ Len(nodes) < MaxTasks
  BY <1>1, <1>7 DEF Stats, Accounting, TasksConserved
<1>10. NewNode \in Nodes
  BY <1>9 DEF NewNode, Nodes
<1>11. /\ stats.completed \in Nat /\ stats.created \in Nat
       /\ stats.created <= Len(nodes) /\ Len(nodes) <= stats.completed
  BY <1>1 DEF Stats, Accounting, TasksConserved
<1> QED BY <1>2, <1>3, <1>4, <1>6, <1>8, <1>9, <1>10, <1>11

(* What process_parse_object does to the index, the waiters and the edges  *)
(* is well typed.                                                          *)
LEMMA GraphTypes ==
  ASSUME TypeOK, NEW o \in Objects, NEW n \in Nodes, NEW refs \in [Objects -> Nat]
  PROVE  /\ DOMAIN Indexed(o, n) \subseteq Objects
         /\ Indexed(o, n) \in [DOMAIN Indexed(o, n) -> Nodes]
         /\ DOMAIN PendingAfter(o, n, refs) \subseteq Objects
         /\ PendingAfter(o, n, refs) \in
              [DOMAIN PendingAfter(o, n, refs) -> [Nodes -> Nat]]
         /\ LinksAfter(o, n, refs) \in [Nodes \X Nodes -> Nat]
         /\ \A p \in Objects : Waiting(p) \in [Nodes -> Nat]
<1>1. /\ DOMAIN Indexed(o, n) = DOMAIN index \cup {o}
      /\ DOMAIN Indexed(o, n) \subseteq Objects
      /\ Indexed(o, n) \in [DOMAIN Indexed(o, n) -> Nodes]
  BY DEF TypeOK, Indexed
<1>2. \A p \in Objects : Waiting(p) \in [Nodes -> Nat]
  BY DEF TypeOK, Waiting, NoWaiters
<1>3. /\ DOMAIN PendingAfter(o, n, refs) \subseteq Objects
      /\ PendingAfter(o, n, refs) \in
           [DOMAIN PendingAfter(o, n, refs) -> [Nodes -> Nat]]
  <2> DEFINE U == {p \in Objects : refs[p] > 0 /\ p \notin DOMAIN Indexed(o, n)}
             D == (DOMAIN pending \ {o}) \cup U
             v(p) == [Waiting(p) EXCEPT ![n] = IF p \in U THEN @ + refs[p] ELSE @]
  <2>1. PendingAfter(o, n, refs) = [p \in D |-> v(p)]
    BY DEF PendingAfter
  <2>2. D \subseteq Objects
    BY DEF TypeOK
  <2>3. \A p \in D : v(p) \in [Nodes -> Nat]
    BY <1>2, <2>2
  <2> HIDE DEF D, v
  <2> QED BY <2>1, <2>2, <2>3
<1>4. LinksAfter(o, n, refs) \in [Nodes \X Nodes -> Nat]
  <2> DEFINE to(m) == \E p \in DOMAIN Indexed(o, n) : Indexed(o, n)[p] = m
             chosen(m) == CHOOSE p \in DOMAIN Indexed(o, n) : Indexed(o, n)[p] = m
  <2>1. ASSUME NEW m \in Nodes, to(m)
        PROVE  refs[chosen(m)] \in Nat
    <3>1. chosen(m) \in DOMAIN Indexed(o, n)
      BY <2>1
    <3> QED BY <3>1, <1>1
  <2>2. ASSUME NEW e \in Nodes \X Nodes
        PROVE  refEdges[e]
               + (IF e[2] = n THEN Waiting(o)[e[1]] ELSE 0)
               + (IF e[1] = n /\ to(e[2]) THEN refs[chosen(e[2])] ELSE 0) \in Nat
    <3>1. e[1] \in Nodes /\ e[2] \in Nodes /\ refEdges[e] \in Nat
      BY DEF TypeOK
    <3>2. Waiting(o)[e[1]] \in Nat
      BY <1>2, <3>1
    <3>3. to(e[2]) => refs[chosen(e[2])] \in Nat
      BY <2>1, <3>1
    <3> HIDE DEF to, chosen
    <3> QED BY <3>1, <3>2, <3>3
  <2> QED BY <2>2 DEF LinksAfter
<1> QED BY <1>1, <1>2, <1>3, <1>4

(* The effect of each way a task may end on types and counters.            *)
LEMMA ParseIndirectObjectTypes ==
  ASSUME Accounting, ParseIndirectObject
  PROVE  Accounting'
<1> USE BoundAssumption
<1> DEFINE d == current.data
           n == NewNode
           node == [obj |-> d.obj, refs |-> d.refs]
<1>1. FinishTask(TRUE, 1)
  BY DEF ParseIndirectObject
<1>2. /\ queue' \in Seq(Queued) /\ current \in Task /\ draining' \in BOOLEAN
      /\ incoming' = incoming /\ stats' \in Stats
      /\ stats'.queued = stats'.completed + stats'.failed + Len(queue')
      /\ stats'.completed = stats.completed + 1
      /\ stats'.created = stats.created + 1
      /\ n \in Nodes /\ Len(nodes) \in Nat
      /\ Len(nodes) <= stats.completed /\ stats.created <= Len(nodes)
      /\ stats.completed \in Nat /\ stats.created \in Nat
  BY <1>1, FinishLemma
<1>3. d \in Payload /\ d.obj \in Objects /\ d.refs \in [Objects -> Nat]
  BY <1>2 DEF Task, Payload
<1>4. node \in Node
  BY <1>3 DEF Node
<1>5. /\ nodes' = Append(nodes, node)
      /\ index' = Indexed(d.obj, n)
      /\ pending' = PendingAfter(d.obj, n, d.refs)
      /\ refEdges' = LinksAfter(d.obj, n, d.refs)
      /\ childEdges' = childEdges /\ tolerant' = tolerant
  BY DEF ParseIndirectObject
<1>6. nodes' \in Seq(Node) /\ Len(nodes') = Len(nodes) + 1
  BY <1>4, <1>5, AppendProperties DEF Accounting, TypeOK
<1>7. TypeOK'
  <2>1. /\ DOMAIN index' \subseteq Objects
        /\ index' \in [DOMAIN index' -> Nodes]
        /\ DOMAIN pending' \subseteq Objects
        /\ pending' \in [DOMAIN pending' -> [Nodes -> Nat]]
        /\ refEdges' \in [Nodes \X Nodes -> Nat]
    <3> HIDE DEF n, d
    <3> QED BY <1>2, <1>3, <1>5, GraphTypes DEF Accounting
  <2>2. /\ incoming' \in Seq(Task) /\ tolerant' \in BOOLEAN
        /\ childEdges' \subseteq Nodes \X Nodes
    BY <1>2, <1>5 DEF Accounting, TypeOK
  <2> QED BY <1>2, <1>6, <2>1, <2>2 DEF TypeOK
<1>8. TasksConserved'
  BY <1>2, <1>6 DEF TasksConserved
<1> QED BY <1>7, <1>8 DEF Accounting

(* A node without an object is appended and index, waiters and reference   *)
(* edges stay as they are.                                                 *)
AppendsBareNode ==
  /\ \E refs \in [Objects -> Nat] :
       nodes' = Append(nodes, [obj |-> NoObject, refs |-> refs])
  /\ UNCHANGED <<tolerant, index, pending, refEdges>>

LEMMA BareNodeTypes ==
  ASSUME Accounting, ParseBareValue \/ BuildNode
  PROVE  Accounting' /\ AppendsBareNode /\ NewNode \in Nodes
<1> USE BoundAssumption
<1>1. PICK made \in {0, 1} : FinishTask(TRUE, made)
  BY DEF ParseBareValue, BuildNode
<1>2. /\ queue' \in Seq(Queued) /\ current \in Task /\ draining' \in BOOLEAN
      /\ incoming' = incoming /\ stats' \in Stats
      /\ stats'.queued = stats'.completed + stats'.failed + Len(queue')
      /\ stats'.completed = stats.completed + 1
      /\ stats'.created = stats.created + made
      /\ NewNode \in Nodes /\ Len(nodes) \in Nat
      /\ Len(nodes) <= stats.completed /\ stats.created <= Len(nodes)
      /\ stats.completed \in Nat /\ stats.created \in Nat
  BY <1>1, FinishLemma
<1>3. current.data.refs \in [Objects -> Nat]
  BY <1>2 DEF Task, Payload
<1>4. AppendsBareNode
  BY <1>3 DEF ParseBareValue, BuildNode, AppendsBareNode
<1>5. PICK refs \in [Objects -> Nat] :
        nodes' = Append(nodes, [obj |-> NoObject, refs |-> refs])
  BY <1>4 DEF AppendsBareNode
<1>6. [obj |-> NoObject, refs |-> refs] \in Node
  BY DEF Node
<1>7. nodes' \in Seq(Node) /\ Len(nodes') = Len(nodes) + 1
  BY <1>5, <1>6, AppendProperties DEF Accounting, TypeOK
<1>8. childEdges' \subseteq Nodes \X Nodes
  BY <1>2 DEF ParseBareValue, BuildNode, Accounting, TypeOK
<1>9. TypeOK'
  BY <1>2, <1>4, <1>7, <1>8 DEF Accounting, TypeOK, AppendsBareNode
<1>10. TasksConserved'
  BY <1>2, <1>7 DEF TasksConserved
<1> QED BY <1>2, <1>4, <1>9, <1>10 DEF Accounting

LEMMA ResolveTypes ==
  ASSUME Accounting, ResolveIndexed \/ ResolveUnknown
  PROVE  Accounting'
<1> DEFINE o == current.data.obj
<1>1. FinishTask(TRUE, 0)
  BY DEF ResolveIndexed, ResolveUnknown
<1>2. /\ queue' \in Seq(Queued) /\ current \in Task /\ draining' \in BOOLEAN
      /\ incoming' = incoming /\ stats' \in Stats
      /\ stats'.queued = stats'.completed + stats'.failed + Len(queue')
      /\ stats'.completed = stats.completed + 1
      /\ stats'.created = stats.created + 0
  BY <1>1, FinishLemma
<1>3. o \in Objects
  BY <1>2 DEF Task, Payload
<1>4. \A p \in Objects : Waiting(p) \in [Nodes -> Nat]
  BY DEF Accounting, TypeOK, Waiting, NoWaiters
<1>5. /\ DOMAIN pending' \subseteq Objects
      /\ pending' \in [DOMAIN pending' -> [Nodes -> Nat]]
  <2>1. CASE ResolveIndexed
    BY <2>1 DEF ResolveIndexed, Accounting, TypeOK
  <2>2. CASE ResolveUnknown
    <3> HIDE DEF o
    <3>1. pending' = [p \in DOMAIN pending \cup {o} |-> Waiting(p)]
      BY <2>2 DEF ResolveUnknown, o
    <3>2. DOMAIN pending \cup {o} \subseteq Objects
      BY <1>3 DEF Accounting, TypeOK
    <3> QED BY <1>4, <3>1, <3>2
  <2> QED BY <2>1, <2>2
<1>6. refEdges' \in [Nodes \X Nodes -> Nat]
  <2>1. CASE ResolveIndexed
    <3>1. ASSUME NEW e \in Nodes \X Nodes
          PROVE  refEdges[e] + (IF e[2] = index[o] THEN Waiting(o)[e[1]] ELSE 0) \in Nat
      <4>1. refEdges[e] \in Nat /\ e[1] \in Nodes
        BY DEF Accounting, TypeOK
      <4>2. Waiting(o)[e[1]] \in Nat
        BY <1>3, <1>4, <4>1
      <4> HIDE DEF o
      <4> QED BY <4>1, <4>2
    <3> QED BY <2>1, <3>1 DEF ResolveIndexed
  <2>2. CASE ResolveUnknown
    BY <2>2 DEF ResolveUnknown, Accounting, TypeOK
  <2> QED BY <2>1, <2>2
<1>7. UNCHANGED <<tolerant, index, nodes, childEdges>>
  BY DEF ResolveIndexed, ResolveUnknown
<1>8. TypeOK'
  BY <1>2, <1>5, <1>6, <1>7 DEF Accounting, TypeOK
<1>9. TasksConserved'
  BY <1>2, <1>7 DEF Accounting, TypeOK, Stats, TasksConserved
<1> QED BY <1>8, <1>9 DEF Accounting

(* The tasks that leave the graph alone.                                   *)
LEMMA PassiveTypes ==
  ASSUME Accounting,
         ParseGarbage \/ ResolveMalformed \/ BuildNodeFails \/ ReadOnlyTask
  PROVE  Accounting' /\ UNCHANGED graph
<1>1. tolerant \in BOOLEAN
  BY DEF Accounting, TypeOK
<1>2. PICK ok \in BOOLEAN : FinishTask(ok, 0)
  BY <1>1 DEF ParseGarbage, ResolveMalformed, BuildNodeFails, ReadOnlyTask
<1>3. /\ queue' \in Seq(Queued) /\ draining' \in BOOLEAN
      /\ incoming' = incoming /\ stats' \in Stats
      /\ stats'.queued = stats'.completed + stats'.failed + Len(queue')
      /\ stats'.completed = IF ok THEN stats.completed + 1 ELSE stats.completed
      /\ stats'.created = stats.created + 0
  BY <1>2, FinishLemma
<1>4. UNCHANGED graph
  BY DEF ParseGarbage, ResolveMalformed, BuildNodeFails, ReadOnlyTask
<1>5. TypeOK'
  BY <1>3, <1>4 DEF Accounting, TypeOK, graph
<1>6. TasksConserved'
  BY <1>3, <1>4 DEF Accounting, TypeOK, Stats, TasksConserved, graph
<1> QED BY <1>4, <1>5, <1>6 DEF Accounting

(* Every step preserves the types and conserves tasks.                     *)
LEMMA AccountingStep ==
  ASSUME Accounting, [Next]_vars
  PROVE  Accounting'
<1> USE BoundAssumption
<1>1. CASE QueueTask
  <2>1. PICK t \in Tasks : Enqueue(t)
    BY <1>1 DEF QueueTask
  <2>2. t \in Task
    BY <2>1, InputAssumption
  <2>3. /\ queue' \in Seq(Queued) /\ Len(queue') = Len(queue) + 1
        /\ stats' \in Stats /\ stats' = [stats EXCEPT !.queued = @ + 1]
    BY <2>1, <2>2, EnqueueLemma
  <2>4. UNCHANGED <<incoming, draining, graph>>
    BY <1>1 DEF QueueTask
  <2>5. TypeOK'
    BY <2>3, <2>4 DEF Accounting, TypeOK, graph
  <2>6. TasksConserved'
    BY <2>3, <2>4, SMTT(60) DEF Accounting, TypeOK, Stats, TasksConserved, graph
  <2> QED BY <2>5, <2>6 DEF Accounting
<1>2. CASE AddDataChunk
  <2>1. incoming' \in Seq(Task)
    BY <1>2, InputAssumption DEF AddDataChunk
  <2>2. UNCHANGED <<queue, draining, graph, stats>>
    BY <1>2 DEF AddDataChunk
  <2> QED BY <2>1, <2>2 DEF Accounting, TypeOK, TasksConserved, graph
<1>3. CASE QueueIncoming
  <2>1. incoming \in Seq(Task) /\ incoming # <<>> /\ Enqueue(Head(incoming))
    BY <1>3 DEF QueueIncoming, Accounting, TypeOK
  <2>2. Head(incoming) \in Task /\ Tail(incoming) \in Seq(Task)
    BY <2>1, HeadTailProperties
  <2>3. /\ queue' \in Seq(Queued) /\ Len(queue') = Len(queue) + 1
        /\ stats' \in Stats /\ stats' = [stats EXCEPT !.queued = @ + 1]
    BY <2>1, <2>2, EnqueueLemma
  <2>4. incoming' = Tail(incoming) /\ UNCHANGED <<draining, graph>>
    BY <1>3 DEF QueueIncoming
  <2>5. TypeOK'
    BY <2>2, <2>3, <2>4 DEF Accounting, TypeOK, graph
  <2>6. TasksConserved'
    BY <2>3, <2>4, SMTT(60) DEF Accounting, TypeOK, Stats, TasksConserved, graph
  <2> QED BY <2>5, <2>6 DEF Accounting
<1>4. CASE StartProcessAll
  BY <1>4 DEF StartProcessAll, Accounting, TypeOK, TasksConserved, graph
<1>5. CASE ParseIndirectObject
  BY <1>5, ParseIndirectObjectTypes
<1>6. CASE ParseBareValue \/ BuildNode
  BY <1>6, BareNodeTypes
<1>7. CASE ResolveIndexed \/ ResolveUnknown
  BY <1>7, ResolveTypes
<1>8. CASE ParseGarbage \/ ResolveMalformed \/ BuildNodeFails \/ ReadOnlyTask
  BY <1>8, PassiveTypes
<1>9. CASE UNCHANGED vars
  BY <1>9 DEF vars, Accounting, TypeOK, TasksConserved
<1> QED
  BY <1>1, <1>2, <1>3, <1>4, <1>5, <1>6, <1>7, <1>8, <1>9
  DEF Next, ProcessNextTask

LEMMA AccountingInit == Init => Accounting
<1> SUFFICES ASSUME Init PROVE Accounting
  OBVIOUS
<1>1. TypeOK
  <2>1. stats \in Stats
    BY BoundAssumption DEF Init, Stats
  <2>2. /\ DOMAIN index = {} /\ index \in [DOMAIN index -> Nodes]
        /\ DOMAIN pending = {} /\ pending \in [DOMAIN pending -> [Nodes -> Nat]]
    BY DEF Init
  <2>3. refEdges \in [Nodes \X Nodes -> Nat]
    BY DEF Init
  <2>4. queue \in Seq(Queued) /\ incoming \in Seq(Task) /\ nodes \in Seq(Node)
    BY DEF Init
  <2> QED BY <2>1, <2>2, <2>3, <2>4 DEF Init, TypeOK
<1>2. TasksConserved
  BY DEF Init, TasksConserved
<1> QED BY <1>1, <1>2 DEF Accounting

LEMMA AccountingInvariant == Spec => []Accounting
BY AccountingInit, AccountingStep, PTL DEF Spec

(* Every reachable state is well typed; in particular every node           *)
(* identifier stays within the number of tasks that were queued.           *)
THEOREM TypesHold == Spec => []TypeOK
<1>1. Accounting => TypeOK
  BY DEF Accounting
<1> QED BY <1>1, AccountingInvariant, PTL

(* No task is dropped or counted twice by process_next_task.               *)
THEOREM TasksNeverLost == Spec => []TasksConserved
<1>1. Accounting => TasksConserved
  BY DEF Accounting
<1> QED BY <1>1, AccountingInvariant, PTL
-----------------------------------------------------------------------------
(* References                                                              *)

(* The index leads to the latest node of every object that has one.        *)
IndexExact ==
  /\ DOMAIN index \subseteq Objects
  /\ \A o \in Objects :
       /\ o \in DOMAIN index <=> NodesOf(o) # {}
       /\ o \in DOMAIN index =>
            /\ index[o] \in NodesOf(o)
            /\ \A k \in NodesOf(o) : k <= index[o]

(* No edge and no waiter mentions a node that has yet to be created.       *)
FreshUntouched ==
  \A n \in Nodes : n > Len(nodes) =>
    /\ \A m \in Nodes : refEdges[<<n, m>>] = 0 /\ refEdges[<<m, n>>] = 0
    /\ \A o \in Objects : Waiting(o)[n] = 0

ReferenceInv ==
  /\ NobodyWaitsForIndexed
  /\ IndexExact
  /\ FreshUntouched
  /\ EveryReferenceAccounted

(* The inductive invariant.                                                *)
IInv == Accounting /\ ReferenceInv

LEMMA ReferenceInit == Init => ReferenceInv
BY DEF Init, ReferenceInv, NobodyWaitsForIndexed, IndexExact, FreshUntouched,
       EveryReferenceAccounted, NodesOf, Waiting, NoWaiters

(* Steps that change nothing a reference can observe.                      *)
LEMMA ReferencesUnchanged ==
  ASSUME IInv, UNCHANGED <<index, nodes>>,
         DOMAIN index \cap DOMAIN pending' = {},
         \A o \in Objects, n \in Nodes : Waiting(o)'[n] = Waiting(o)[n],
         \A n, m \in Nodes : refEdges'[<<n, m>>] = refEdges[<<n, m>>]
  PROVE  ReferenceInv'
<1>1. nodes \in Seq(Node) /\ Len(nodes) <= MaxTasks /\ Len(nodes) \in Nat
  BY BoundAssumption DEF IInv, Accounting, TypeOK, TasksConserved, Stats
<1>2. DOMAIN nodes \subseteq Nodes
  BY <1>1, BoundAssumption DEF Nodes
<1>3. \A o \in Objects : NodesOf(o)' = NodesOf(o) /\ NodesOf(o) \subseteq Nodes
  BY <1>2 DEF NodesOf
<1>4. NobodyWaitsForIndexed'
  BY DEF NobodyWaitsForIndexed
<1>5. IndexExact'
  BY <1>3 DEF IInv, ReferenceInv, IndexExact
<1>6. FreshUntouched'
  BY DEF IInv, ReferenceInv, FreshUntouched
<1>7. EveryReferenceAccounted'
  <2>1. ASSUME NEW n \in DOMAIN nodes, NEW o \in Objects
        PROVE  Accounted(n, o)'
    <3>1. n \in Nodes /\ Waiting(o)'[n] = Waiting(o)[n]
      BY <1>2
    <3>2. \A m \in NodesOf(o) : refEdges'[<<n, m>>] = refEdges[<<n, m>>]
      BY <1>3, <3>1
    <3>3. Wanted(n, o)' = Wanted(n, o)
      BY DEF Wanted
    <3>4. Accounted(n, o)
      BY DEF IInv, ReferenceInv, EveryReferenceAccounted
    <3>5. NodesOf(o)' = NodesOf(o)
      BY <1>3
    <3>6. CASE NodesOf(o) = {}
      BY <3>1, <3>3, <3>4, <3>5, <3>6 DEF Accounted
    <3>7. CASE NodesOf(o) # {}
      <4>1. PICK m \in NodesOf(o) :
              /\ refEdges[<<n, m>>] = Wanted(n, o)
              /\ \A k \in NodesOf(o) \ {m} : refEdges[<<n, k>>] = 0
        BY <3>4, <3>7 DEF Accounted
      <4>2. /\ m \in NodesOf(o)'
            /\ refEdges'[<<n, m>>] = Wanted(n, o)'
            /\ \A k \in NodesOf(o)' \ {m} : refEdges'[<<n, k>>] = 0
        BY <3>2, <3>3, <3>5, <4>1
      <4>3. Waiting(o)'[n] = 0
        BY <3>1, <3>4, <3>7 DEF Accounted
      <4> QED BY <3>5, <3>7, <4>2, <4>3 DEF Accounted
    <3> QED BY <3>6, <3>7
  <2> QED BY <2>1 DEF EveryReferenceAccounted
<1> QED BY <1>4, <1>5, <1>6, <1>7 DEF ReferenceInv

(* The nodes of an object are nodes, and a new one is a new identifier.    *)
LEMMA NodeFacts ==
  ASSUME IInv
  PROVE  /\ nodes \in Seq(Node) /\ Len(nodes) \in Nat /\ Len(nodes) <= MaxTasks
         /\ DOMAIN nodes = 1..Len(nodes) /\ DOMAIN nodes \subseteq Nodes
         /\ \A o \in Objects : NodesOf(o) \subseteq DOMAIN nodes
         /\ \A n \in DOMAIN nodes : nodes[n] \in Node
<1>1. nodes \in Seq(Node) /\ Len(nodes) <= MaxTasks /\ Len(nodes) \in Nat
  BY BoundAssumption DEF IInv, Accounting, TypeOK, TasksConserved, Stats
<1>2. DOMAIN nodes = 1..Len(nodes) /\ DOMAIN nodes \subseteq Nodes
  BY <1>1, BoundAssumption DEF Nodes
<1>3. \A n \in DOMAIN nodes : nodes[n] \in Node
  BY <1>1, <1>2, ElementOfSeq
<1> QED BY <1>1, <1>2, <1>3 DEF NodesOf

LEMMA BareNodeReferences ==
  ASSUME IInv, AppendsBareNode, NewNode \in Nodes
  PROVE  ReferenceInv'
<1> DEFINE n == NewNode
<1>1. /\ nodes \in Seq(Node) /\ Len(nodes) \in Nat
      /\ DOMAIN nodes = 1..Len(nodes) /\ DOMAIN nodes \subseteq Nodes
      /\ \A o \in Objects : NodesOf(o) \subseteq DOMAIN nodes
  BY NodeFacts
<1>2. PICK refs \in [Objects -> Nat] :
        nodes' = Append(nodes, [obj |-> NoObject, refs |-> refs])
  BY DEF AppendsBareNode
<1>3. [obj |-> NoObject, refs |-> refs] \in Node
  BY DEF Node
<1>4. /\ Len(nodes') = Len(nodes) + 1 /\ DOMAIN nodes' = DOMAIN nodes \cup {n}
      /\ n \notin DOMAIN nodes
      /\ \A k \in DOMAIN nodes : nodes'[k] = nodes[k]
      /\ nodes'[n].obj = NoObject
  BY <1>1, <1>2, <1>3, AppendProperties DEF NewNode
<1>5. /\ index' = index /\ pending' = pending /\ refEdges' = refEdges
      /\ \A o \in Objects : Waiting(o)' = Waiting(o)
  BY DEF AppendsBareNode, Waiting
<1>6. \A o \in Objects : NodesOf(o)' = NodesOf(o)
  BY <1>4, MarkerAssumption DEF NodesOf
<1>7. NobodyWaitsForIndexed'
  BY <1>5 DEF IInv, ReferenceInv, NobodyWaitsForIndexed
<1>8. IndexExact'
  BY <1>5, <1>6 DEF IInv, ReferenceInv, IndexExact
<1>9. FreshUntouched'
  <2>1. \A k \in Nodes : k > Len(nodes') => k > Len(nodes)
    BY <1>1, <1>4, BoundAssumption DEF Nodes
  <2> QED BY <1>5, <2>1 DEF IInv, ReferenceInv, FreshUntouched
<1>10. ASSUME NEW k \in DOMAIN nodes', NEW o \in Objects
       PROVE  Accounted(k, o)'
  <2>1. CASE k \in DOMAIN nodes
    <3>1. Wanted(k, o)' = Wanted(k, o)
      BY <1>4, <2>1 DEF Wanted
    <3>2. Accounted(k, o)
      BY <2>1 DEF IInv, ReferenceInv, EveryReferenceAccounted
    <3> QED BY <1>5, <1>6, <3>1, <3>2, ZenonT(60) DEF Accounted
  <2>2. CASE k = n
    <3>1. Wanted(k, o)' = 0
      BY <1>4, <2>2 DEF Wanted
    <3>2. n > Len(nodes)
      BY <1>1 DEF NewNode
    <3>3. /\ Waiting(o)[n] = 0
          /\ \A m \in NodesOf(o) : refEdges[<<n, m>>] = 0
      BY <1>1, <3>2 DEF IInv, ReferenceInv, FreshUntouched
    <3> HIDE DEF n
    <3> QED BY <1>5, <1>6, <2>2, <3>1, <3>3 DEF Accounted
  <2> QED BY <1>4, <2>1, <2>2
<1>11. EveryReferenceAccounted'
  BY <1>10 DEF EveryReferenceAccounted
<1> QED BY <1>7, <1>8, <1>9, <1>11 DEF ReferenceInv

LEMMA ResolveReferences ==
  ASSUME IInv, ResolveIndexed \/ ResolveUnknown
  PROVE  ReferenceInv'
<1> DEFINE o == current.data.obj
<1>1. UNCHANGED <<index, nodes>>
  BY DEF ResolveIndexed, ResolveUnknown
<1>2. ASSUME NEW p \in Objects, p \notin DOMAIN pending
      PROVE  Waiting(p) = NoWaiters
  BY <1>2 DEF Waiting
<1>3. DOMAIN index \cap DOMAIN pending = {}
  BY DEF IInv, ReferenceInv, NobodyWaitsForIndexed
<1>4. \A n, m \in Nodes : refEdges[<<n, m>>] \in Nat
  BY DEF IInv, Accounting, TypeOK
<1>5. CASE ResolveIndexed
  <2>0. o \in DOMAIN index /\ DOMAIN index \subseteq Objects
    BY <1>5 DEF ResolveIndexed, IInv, Accounting, TypeOK
  <2>1. o \notin DOMAIN pending /\ Waiting(o) = NoWaiters
    BY <1>2, <1>3, <2>0
  <2> HIDE DEF o
  <2>2. pending' = [p \in DOMAIN pending \ {o} |-> pending[p]]
    BY <1>5 DEF ResolveIndexed, o
  <2>3. \A p \in Objects : Waiting(p)' = Waiting(p)
    BY <2>1, <2>2 DEF Waiting
  <2>4. DOMAIN index \cap DOMAIN pending' = {}
    BY <1>3, <2>2
  <2>5. ASSUME NEW n \in Nodes, NEW m \in Nodes
        PROVE  refEdges'[<<n, m>>] = refEdges[<<n, m>>]
    <3>1. refEdges' = [e \in Nodes \X Nodes |->
             refEdges[e] + (IF e[2] = index[o] THEN Waiting(o)[e[1]] ELSE 0)]
      BY <1>5 DEF ResolveIndexed, o
    <3>2. Waiting(o)[n] = 0
      BY <2>1 DEF NoWaiters
    <3>3. refEdges'[<<n, m>>] =
            refEdges[<<n, m>>] + (IF m = index[o] THEN Waiting(o)[n] ELSE 0)
      BY <3>1
    <3> QED BY <1>4, <3>2, <3>3
  <2> QED BY <1>1, <2>3, <2>4, <2>5, ReferencesUnchanged
<1>6. CASE ResolveUnknown
  <2> HIDE DEF o
  <2>1. /\ pending' = [p \in DOMAIN pending \cup {o} |-> Waiting(p)]
        /\ o \notin DOMAIN index /\ refEdges' = refEdges
    BY <1>6 DEF ResolveUnknown, o
  <2>2. \A p \in Objects : Waiting(p)' = Waiting(p)
    BY <2>1 DEF Waiting
  <2>3. DOMAIN index \cap DOMAIN pending' = {}
    BY <1>3, <2>1
  <2> QED BY <1>1, <2>1, <2>2, <2>3, ReferencesUnchanged
<1> QED BY <1>5, <1>6

(* What parsing object o into node n does, one point at a time.            *)
ParseOutcome(o, n, refs) ==
  /\ n = Len(nodes) + 1 /\ n \notin DOMAIN nodes /\ Len(nodes') = n
  /\ DOMAIN nodes' = DOMAIN nodes \cup {n}
  /\ \A k \in DOMAIN nodes : nodes'[k] = nodes[k]
  /\ nodes'[n] = [obj |-> o, refs |-> refs]
  /\ DOMAIN index' = DOMAIN index \cup {o}
  /\ index'[o] = n
  /\ \A p \in DOMAIN index \ {o} : index'[p] = index[p]
  /\ DOMAIN index' \cap DOMAIN pending' = {}
  /\ \A k \in Nodes : Waiting(o)'[k] = 0
  /\ \A p \in Objects \ {o}, k \in Nodes :
       Waiting(p)'[k] = Waiting(p)[k] +
         (IF k = n /\ p \notin DOMAIN index THEN refs[p] ELSE 0)
  /\ \A a, b \in Nodes :
       refEdges'[<<a, b>>] = refEdges[<<a, b>>]
         + (IF b = n THEN Waiting(o)[a] ELSE 0)
         + (IF a = n /\ \E p \in DOMAIN index' : index'[p] = b
            THEN refs[CHOOSE p \in DOMAIN index' : index'[p] = b] ELSE 0)

LEMMA ParseFacts ==
  ASSUME IInv, ParseIndirectObject
  PROVE  \E o \in Objects, n \in Nodes, refs \in [Objects -> Nat] :
           ParseOutcome(o, n, refs)
<1>1. FinishTask(TRUE, 1)
  BY DEF ParseIndirectObject
<1>2. current \in Task /\ NewNode \in Nodes
  BY <1>1, FinishLemma DEF IInv
<1>3. current.data.obj \in Objects /\ current.data.refs \in [Objects -> Nat]
  BY <1>2 DEF Task, Payload
<1>4. PICK o \in Objects, n \in Nodes, refs \in [Objects -> Nat] :
        /\ n = Len(nodes) + 1
        /\ nodes' = Append(nodes, [obj |-> o, refs |-> refs])
        /\ index' = Indexed(o, n)
        /\ pending' = PendingAfter(o, n, refs)
        /\ refEdges' = LinksAfter(o, n, refs)
  <2> DEFINE d == current.data
  <2>1. /\ NewNode = Len(nodes) + 1
        /\ nodes' = Append(nodes, [obj |-> d.obj, refs |-> d.refs])
        /\ index' = Indexed(d.obj, NewNode)
        /\ pending' = PendingAfter(d.obj, NewNode, d.refs)
        /\ refEdges' = LinksAfter(d.obj, NewNode, d.refs)
    BY DEF ParseIndirectObject, NewNode
  <2> QED BY <1>2, <1>3, <2>1
<1>6. /\ Len(nodes') = n /\ DOMAIN nodes' = DOMAIN nodes \cup {n}
      /\ n \notin DOMAIN nodes
      /\ \A k \in DOMAIN nodes : nodes'[k] = nodes[k]
      /\ nodes'[n] = [obj |-> o, refs |-> refs]
  <2>1. [obj |-> o, refs |-> refs] \in Node
    BY DEF Node
  <2>2. nodes \in Seq(Node) /\ Len(nodes) \in Nat /\ DOMAIN nodes = 1..Len(nodes)
    BY NodeFacts
  <2> QED BY <1>4, <2>1, <2>2, AppendProperties
<1>7. /\ DOMAIN index' = DOMAIN index \cup {o}
      /\ index'[o] = n
      /\ \A p \in DOMAIN index \ {o} : index'[p] = index[p]
  BY <1>4 DEF Indexed
<1> DEFINE U == {p \in Objects : refs[p] > 0 /\ p \notin DOMAIN index'}
<1>8. pending' = [p \in (DOMAIN pending \ {o}) \cup U |->
                    [Waiting(p) EXCEPT ![n] = IF p \in U THEN @ + refs[p] ELSE @]]
  BY <1>4, Zenon DEF PendingAfter
<1>9. DOMAIN index' \cap DOMAIN pending' = {}
  BY <1>7, <1>8 DEF IInv, ReferenceInv, NobodyWaitsForIndexed
<1>10. \A k \in Nodes : Waiting(o)'[k] = 0
  <2>1. o \notin DOMAIN pending'
    BY <1>7, <1>9
  <2> QED BY <2>1 DEF Waiting, NoWaiters
<1>11. ASSUME NEW p \in Objects \ {o}, NEW k \in Nodes
       PROVE  Waiting(p)'[k] = Waiting(p)[k] +
                (IF k = n /\ p \notin DOMAIN index THEN refs[p] ELSE 0)
  <2>1. Waiting(p) \in [Nodes -> Nat]
    BY DEF IInv, Accounting, TypeOK, Waiting, NoWaiters
  <2>2. p \notin DOMAIN index <=> p \notin DOMAIN index'
    BY <1>7
  <2>3. CASE p \in U
    <3>1. p \in DOMAIN pending'
      BY <1>8, <2>3
    <3>2. Waiting(p)' = [Waiting(p) EXCEPT ![n] = @ + refs[p]]
      BY <1>8, <2>3, <3>1 DEF Waiting
    <3>3. p \notin DOMAIN index
      BY <2>2, <2>3
    <3> HIDE DEF U
    <3> QED BY <1>2, <1>3, <2>1, <3>2, <3>3
  <2>4. CASE p \notin U
    <3>1. Waiting(p)'[k] = Waiting(p)[k]
      <4>1. CASE p \in DOMAIN pending
        <5>1. Waiting(p)' = [Waiting(p) EXCEPT ![n] = @]
          BY <1>8, <2>4, <4>1 DEF Waiting
        <5> QED BY <2>1, <5>1
      <4>2. CASE p \notin DOMAIN pending
        <5>1. p \notin DOMAIN pending'
          BY <1>8, <2>4, <4>2
        <5> QED BY <4>2, <5>1 DEF Waiting
      <4> QED BY <4>1, <4>2
    <3>2. p \notin DOMAIN index => refs[p] = 0
      BY <1>3, <2>2, <2>4
    <3>3. Waiting(p)[k] \in Nat
      BY <2>1
    <3> HIDE DEF U
    <3> QED BY <3>1, <3>2, <3>3
  <2> QED BY <2>3, <2>4
<1>12. ASSUME NEW a \in Nodes, NEW b \in Nodes
       PROVE  refEdges'[<<a, b>>] = refEdges[<<a, b>>]
                + (IF b = n THEN Waiting(o)[a] ELSE 0)
                + (IF a = n /\ \E p \in DOMAIN index' : index'[p] = b
                   THEN refs[CHOOSE p \in DOMAIN index' : index'[p] = b] ELSE 0)
  BY <1>4 DEF LinksAfter
<1>13. n = Len(nodes) + 1
  BY <1>4
<1>14. ParseOutcome(o, n, refs)
  BY <1>6, <1>7, <1>9, <1>10, <1>11, <1>12, <1>13 DEF ParseOutcome
<1> QED BY <1>14

(* The new edges out of node n: exactly refs[p] to the latest node of each *)
(* indexed object p, none to any other node.                               *)
LEMMA ParseEdges ==
  ASSUME IInv, NEW o \in Objects, NEW n \in Nodes, NEW refs \in [Objects -> Nat],
         ParseOutcome(o, n, refs)
  PROVE  /\ DOMAIN index' \subseteq Objects
         /\ \A p \in Objects :
              NodesOf(p)' = IF p = o THEN NodesOf(p) \cup {n} ELSE NodesOf(p)
         /\ \A p \in DOMAIN index' : /\ index'[p] \in NodesOf(p)'
                                     /\ index'[p] \in DOMAIN nodes'
                                     /\ nodes'[index'[p]].obj = p
         /\ \A p \in DOMAIN index' :
              refEdges'[<<n, index'[p]>>] = refs[p]
         /\ \A b \in Nodes : (\A p \in DOMAIN index' : index'[p] # b) =>
              refEdges'[<<n, b>>] = 0
         /\ \A a, b \in Nodes : a # n =>
              refEdges'[<<a, b>>] = refEdges[<<a, b>>]
                                    + (IF b = n THEN Waiting(o)[a] ELSE 0)
         /\ \A m \in Nodes : refEdges[<<n, m>>] = 0 /\ refEdges[<<m, n>>] = 0
         /\ \A p \in Objects : Waiting(p)[n] = 0
<1>0. /\ n = Len(nodes) + 1 /\ n \notin DOMAIN nodes
      /\ DOMAIN nodes' = DOMAIN nodes \cup {n}
      /\ \A k \in DOMAIN nodes : nodes'[k] = nodes[k]
      /\ nodes'[n] = [obj |-> o, refs |-> refs]
      /\ DOMAIN index' = DOMAIN index \cup {o}
      /\ index'[o] = n
      /\ \A p \in DOMAIN index \ {o} : index'[p] = index[p]
      /\ \A a, b \in Nodes :
           refEdges'[<<a, b>>] = refEdges[<<a, b>>]
             + (IF b = n THEN Waiting(o)[a] ELSE 0)
             + (IF a = n /\ \E p \in DOMAIN index' : index'[p] = b
                THEN refs[CHOOSE p \in DOMAIN index' : index'[p] = b] ELSE 0)
  BY DEF ParseOutcome
<1>1. /\ Len(nodes) \in Nat /\ DOMAIN nodes \subseteq Nodes
      /\ \A p \in Objects : NodesOf(p) \subseteq DOMAIN nodes
  BY NodeFacts
<1>2. \A p \in Objects :
        NodesOf(p)' = IF p = o THEN NodesOf(p) \cup {n} ELSE NodesOf(p)
  BY <1>0 DEF NodesOf
<1>3. DOMAIN index' \subseteq Objects
  BY <1>0 DEF IInv, ReferenceInv, IndexExact
<1>4. ASSUME NEW p \in DOMAIN index'
      PROVE  /\ index'[p] \in NodesOf(p)'
             /\ index'[p] \in DOMAIN nodes'
             /\ nodes'[index'[p]].obj = p
  <2>1. index'[p] \in NodesOf(p)'
    BY <1>0, <1>2, <1>3 DEF IInv, ReferenceInv, IndexExact
  <2> QED BY <2>1 DEF NodesOf
<1>5. /\ \A m \in Nodes : refEdges[<<n, m>>] = 0 /\ refEdges[<<m, n>>] = 0
      /\ \A p \in Objects : Waiting(p)[n] = 0
  BY <1>0, <1>1 DEF IInv, ReferenceInv, FreshUntouched
<1>6. /\ \A a, b \in Nodes : refEdges[<<a, b>>] \in Nat
      /\ \A p \in Objects, a \in Nodes : Waiting(p)[a] \in Nat
  BY DEF IInv, Accounting, TypeOK, Waiting, NoWaiters
<1>7. ASSUME NEW p \in DOMAIN index'
      PROVE  refEdges'[<<n, index'[p]>>] = refs[p]
  <2> DEFINE b == index'[p]
             q == CHOOSE r \in DOMAIN index' : index'[r] = b
  <2>1. q \in DOMAIN index' /\ index'[q] = b
    OBVIOUS
  <2>2. q = p
    BY <1>4, <2>1
  <2>3. b \in Nodes
    BY <1>0, <1>1, <1>4
  <2>4. refEdges'[<<n, b>>] = refEdges[<<n, b>>]
          + (IF b = n THEN Waiting(o)[n] ELSE 0) + refs[q]
    BY <1>0, <2>1, <2>3
  <2>5. refs[q] = refs[p] /\ refs[p] \in Nat
    BY <1>3, <2>2
  <2>6. refEdges[<<n, b>>] = 0 /\ Waiting(o)[n] = 0
    BY <1>5, <2>3
  <2> HIDE DEF b, q
  <2>7. refEdges'[<<n, b>>] = refs[p]
    BY <2>4, <2>5, <2>6
  <2> QED BY <2>7 DEF b
<1>8. ASSUME NEW b \in Nodes, \A p \in DOMAIN index' : index'[p] # b
      PROVE  refEdges'[<<n, b>>] = 0
  <2>1. refEdges'[<<n, b>>] = refEdges[<<n, b>>]
          + (IF b = n THEN Waiting(o)[n] ELSE 0) + 0
    BY <1>0, <1>8
  <2>2. refEdges[<<n, b>>] = 0 /\ Waiting(o)[n] = 0
    BY <1>5
  <2> QED BY <2>1, <2>2
<1>9. ASSUME NEW a \in Nodes, NEW b \in Nodes, a # n
      PROVE  refEdges'[<<a, b>>] = refEdges[<<a, b>>]
                                   + (IF b = n THEN Waiting(o)[a] ELSE 0)
  <2>1. refEdges'[<<a, b>>] = refEdges[<<a, b>>]
          + (IF b = n THEN Waiting(o)[a] ELSE 0) + 0
    BY <1>0, <1>9, SMTT(60)
  <2> QED BY <1>6, <2>1
<1> QED BY <1>2, <1>3, <1>4, <1>5, <1>7, <1>8, <1>9

(* Parsing an object accounts for the references of every node.            *)
LEMMA ParseAccounted ==
  ASSUME IInv, NEW o \in Objects, NEW n \in Nodes, NEW refs \in [Objects -> Nat],
         ParseOutcome(o, n, refs), NEW k \in DOMAIN nodes', NEW p \in Objects
  PROVE  Accounted(k, p)'
<1>0. /\ n = Len(nodes) + 1 /\ n \notin DOMAIN nodes
      /\ DOMAIN nodes' = DOMAIN nodes \cup {n}
      /\ \A i \in DOMAIN nodes : nodes'[i] = nodes[i]
      /\ nodes'[n] = [obj |-> o, refs |-> refs]
      /\ DOMAIN index' = DOMAIN index \cup {o} /\ index'[o] = n
      /\ \A i \in Nodes : Waiting(o)'[i] = 0
      /\ \A q \in Objects \ {o}, i \in Nodes :
           Waiting(q)'[i] = Waiting(q)[i] +
             (IF i = n /\ q \notin DOMAIN index THEN refs[q] ELSE 0)
  BY DEF ParseOutcome
<1>1. /\ DOMAIN nodes \subseteq Nodes /\ k \in Nodes
      /\ \A q \in Objects : NodesOf(q) \subseteq DOMAIN nodes
  BY <1>0, NodeFacts
<1>2. /\ \A q \in Objects :
           NodesOf(q)' = IF q = o THEN NodesOf(q) \cup {n} ELSE NodesOf(q)
      /\ \A q \in DOMAIN index' : /\ index'[q] \in NodesOf(q)'
                                  /\ nodes'[index'[q]].obj = q
      /\ \A q \in DOMAIN index' : refEdges'[<<n, index'[q]>>] = refs[q]
      /\ \A b \in Nodes : (\A q \in DOMAIN index' : index'[q] # b) =>
           refEdges'[<<n, b>>] = 0
      /\ \A a, b \in Nodes : a # n =>
           refEdges'[<<a, b>>] = refEdges[<<a, b>>]
                                 + (IF b = n THEN Waiting(o)[a] ELSE 0)
      /\ \A m \in Nodes : refEdges[<<n, m>>] = 0 /\ refEdges[<<m, n>>] = 0
      /\ \A q \in Objects : Waiting(q)[n] = 0
  BY ParseEdges
<1>3. /\ \A a, b \in Nodes : refEdges[<<a, b>>] \in Nat
      /\ \A q \in Objects, a \in Nodes : Waiting(q)[a] \in Nat
  BY DEF IInv, Accounting, TypeOK, Waiting, NoWaiters
<1>4. CASE k # n
  <2>1. k \in DOMAIN nodes
    BY <1>0, <1>4
  <2>2. Accounted(k, p) /\ Wanted(k, p)' = Wanted(k, p)
    BY <1>0, <2>1 DEF IInv, ReferenceInv, EveryReferenceAccounted, Wanted
  <2>3. CASE p # o
    <3>1. NodesOf(p)' = NodesOf(p)
      BY <1>2, <2>3
    <3>2. Waiting(p)'[k] = Waiting(p)[k]
      BY <1>0, <1>1, <1>3, <1>4, <2>3
    <3>3. \A m \in NodesOf(p) : refEdges'[<<k, m>>] = refEdges[<<k, m>>]
      BY <1>0, <1>1, <1>2, <1>3, <1>4
    <3>4. CASE NodesOf(p) = {}
      BY <2>2, <3>1, <3>2, <3>4 DEF Accounted
    <3>5. CASE NodesOf(p) # {}
      <4>1. PICK m \in NodesOf(p) :
              /\ refEdges[<<k, m>>] = Wanted(k, p)
              /\ \A i \in NodesOf(p) \ {m} : refEdges[<<k, i>>] = 0
        BY <2>2, <3>5 DEF Accounted
      <4>2. /\ m \in NodesOf(p)'
            /\ refEdges'[<<k, m>>] = Wanted(k, p)'
            /\ \A i \in NodesOf(p)' \ {m} : refEdges'[<<k, i>>] = 0
        BY <2>2, <3>1, <3>3, <4>1
      <4>3. Waiting(p)'[k] = 0
        BY <2>2, <3>2, <3>5 DEF Accounted
      <4> QED BY <3>1, <3>5, <4>2, <4>3 DEF Accounted
    <3> QED BY <3>4, <3>5
  <2>4. CASE p = o /\ NodesOf(p) = {}
    <3>1. NodesOf(p)' = {n}
      BY <1>2, <2>4
    <3>2. Waiting(p)'[k] = 0
      BY <1>0, <1>1, <2>4
    <3>3. refEdges'[<<k, n>>] = refEdges[<<k, n>>] + Waiting(p)[k]
      BY <1>1, <1>2, <1>4, <2>4
    <3>4. refEdges'[<<k, n>>] = Wanted(k, p)
      <4>1. refEdges[<<k, n>>] = 0 /\ Waiting(p)[k] = Wanted(k, p)
        BY <1>1, <1>2, <2>2, <2>4 DEF Accounted
      <4>2. Waiting(p)[k] \in Nat
        BY <1>1, <1>3
      <4> QED BY <3>3, <4>1, <4>2
    <3> QED BY <2>2, <3>1, <3>2, <3>4 DEF Accounted
  <2>5. CASE p = o /\ NodesOf(p) # {}
    <3>1. PICK m \in NodesOf(p) :
            /\ refEdges[<<k, m>>] = Wanted(k, p)
            /\ \A i \in NodesOf(p) \ {m} : refEdges[<<k, i>>] = 0
      BY <2>2, <2>5 DEF Accounted
    <3>2. Waiting(p)[k] = 0 /\ Waiting(p)'[k] = 0
      BY <1>0, <1>1, <2>2, <2>5 DEF Accounted
    <3>3. NodesOf(p)' = NodesOf(p) \cup {n}
      BY <1>2, <2>5
    <3>4. refEdges'[<<k, n>>] = 0
      <4>1. refEdges[<<k, n>>] = 0
        BY <1>1, <1>2
      <4>2. refEdges'[<<k, n>>] = refEdges[<<k, n>>] + Waiting(p)[k]
        BY <1>1, <1>2, <1>4, <2>5
      <4> QED BY <3>2, <4>1, <4>2
    <3>5. \A i \in NodesOf(p) : refEdges'[<<k, i>>] = refEdges[<<k, i>>]
      BY <1>0, <1>1, <1>2, <1>3, <1>4
    <3>6. /\ m \in NodesOf(p)'
          /\ refEdges'[<<k, m>>] = Wanted(k, p)'
          /\ \A i \in NodesOf(p)' \ {m} : refEdges'[<<k, i>>] = 0
      BY <2>2, <3>1, <3>3, <3>4, <3>5
    <3> QED BY <3>2, <3>6 DEF Accounted
  <2> QED BY <2>3, <2>4, <2>5
<1>5. CASE k = n
  <2>1. Wanted(k, p)' = refs[p]
    BY <1>0, <1>5, MarkerAssumption DEF Wanted
  <2>2. CASE p \in DOMAIN index'
    <3> DEFINE m == index'[p]
    <3>1. m \in NodesOf(p)' /\ refEdges'[<<n, m>>] = refs[p]
      BY <1>2, <2>2
    <3>2. ASSUME NEW i \in NodesOf(p)' \ {m}
          PROVE  refEdges'[<<n, i>>] = 0
      <4>1. i \in Nodes /\ nodes'[i].obj = p
        BY <1>0, <1>1 DEF NodesOf
      <4>2. \A q \in DOMAIN index' : index'[q] # i
        BY <1>2, <4>1
      <4> QED BY <1>2, <4>1, <4>2
    <3>3. Waiting(p)'[n] = 0
      <4>1. CASE p = o
        BY <1>0, <4>1
      <4>2. CASE p # o
        BY <1>0, <1>2, <2>2, <4>2
      <4> QED BY <4>1, <4>2
    <3> HIDE DEF m
    <3> QED BY <1>5, <2>1, <3>1, <3>2, <3>3 DEF Accounted
  <2>3. CASE p \notin DOMAIN index'
    <3>1. p # o /\ p \notin DOMAIN index
      BY <1>0, <2>3
    <3>2. NodesOf(p)' = {}
      BY <1>2, <3>1 DEF IInv, ReferenceInv, IndexExact
    <3>3. Waiting(p)'[n] = refs[p]
      BY <1>0, <1>2, <3>1
    <3> QED BY <1>5, <2>1, <3>2, <3>3 DEF Accounted
  <2> QED BY <2>2, <2>3
<1> QED BY <1>4, <1>5

LEMMA ParseReferences ==
  ASSUME IInv, ParseIndirectObject
  PROVE  ReferenceInv'
<1>1. PICK o \in Objects, n \in Nodes, refs \in [Objects -> Nat] :
        ParseOutcome(o, n, refs)
  BY ParseFacts
<1>2. /\ n = Len(nodes) + 1 /\ n \notin DOMAIN nodes /\ Len(nodes') = n
      /\ DOMAIN nodes' = DOMAIN nodes \cup {n}
      /\ DOMAIN index' = DOMAIN index \cup {o} /\ index'[o] = n
      /\ \A p \in DOMAIN index \ {o} : index'[p] = index[p]
      /\ DOMAIN index' \cap DOMAIN pending' = {}
      /\ \A i \in Nodes : Waiting(o)'[i] = 0
      /\ \A q \in Objects \ {o}, i \in Nodes :
           Waiting(q)'[i] = Waiting(q)[i] +
             (IF i = n /\ q \notin DOMAIN index THEN refs[q] ELSE 0)
  BY <1>1 DEF ParseOutcome
<1>3. /\ Len(nodes) \in Nat /\ DOMAIN nodes = 1..Len(nodes)
      /\ \A p \in Objects : NodesOf(p) \subseteq DOMAIN nodes
      /\ DOMAIN nodes \subseteq Nodes
  BY NodeFacts
<1>4. /\ DOMAIN index' \subseteq Objects
      /\ \A p \in Objects :
           NodesOf(p)' = IF p = o THEN NodesOf(p) \cup {n} ELSE NodesOf(p)
      /\ \A p \in DOMAIN index' : index'[p] \in DOMAIN nodes'
      /\ \A b \in Nodes : (\A p \in DOMAIN index' : index'[p] # b) =>
           refEdges'[<<n, b>>] = 0
      /\ \A a, b \in Nodes : a # n =>
           refEdges'[<<a, b>>] = refEdges[<<a, b>>]
                                 + (IF b = n THEN Waiting(o)[a] ELSE 0)
  BY <1>1, ParseEdges
<1>5. NobodyWaitsForIndexed'
  BY <1>2 DEF NobodyWaitsForIndexed
<1>6. IndexExact'
  <2>1. ASSUME NEW p \in Objects
        PROVE  /\ p \in DOMAIN index' <=> NodesOf(p)' # {}
               /\ p \in DOMAIN index' =>
                    /\ index'[p] \in NodesOf(p)'
                    /\ \A k \in NodesOf(p)' : k <= index'[p]
    <3>1. CASE p = o
      BY <1>2, <1>3, <1>4, <3>1
    <3>2. CASE p # o
      BY <1>2, <1>4, <3>2 DEF IInv, ReferenceInv, IndexExact
    <3> QED BY <3>1, <3>2
  <2> QED BY <1>4, <2>1 DEF IndexExact
<1>7. FreshUntouched'
  <2>1. ASSUME NEW k \in Nodes, k > Len(nodes')
        PROVE  /\ \A m \in Nodes : /\ refEdges'[<<k, m>>] = 0
                                   /\ refEdges'[<<m, k>>] = 0
               /\ \A p \in Objects : Waiting(p)'[k] = 0
    <3>1. k > Len(nodes) /\ k # n /\ k \notin DOMAIN nodes'
      BY <1>2, <1>3, <2>1, BoundAssumption DEF Nodes
    <3>2. /\ \A m \in Nodes : refEdges[<<k, m>>] = 0 /\ refEdges[<<m, k>>] = 0
          /\ \A p \in Objects : Waiting(p)[k] = 0
      BY <3>1 DEF IInv, ReferenceInv, FreshUntouched
    <3>3. ASSUME NEW m \in Nodes
          PROVE  refEdges'[<<k, m>>] = 0 /\ refEdges'[<<m, k>>] = 0
      <4>1. refEdges'[<<k, m>>] = 0
        <5>1. refEdges[<<k, m>>] = 0 /\ Waiting(o)[k] = 0
          BY <3>2
        <5>2. refEdges'[<<k, m>>] = refEdges[<<k, m>>]
                                    + (IF m = n THEN Waiting(o)[k] ELSE 0)
          BY <1>4, <3>1
        <5> QED BY <5>1, <5>2
      <4>2. CASE m = n
        BY <1>4, <3>1, <4>1, <4>2
      <4>3. CASE m # n
        <5>1. refEdges[<<m, k>>] = 0
          BY <3>2
        <5>2. refEdges'[<<m, k>>] = refEdges[<<m, k>>] + 0
          BY <1>4, <3>1, <4>3
        <5> QED BY <4>1, <5>1, <5>2
      <4> QED BY <4>2, <4>3
    <3>4. ASSUME NEW p \in Objects PROVE Waiting(p)'[k] = 0
      <4>1. CASE p = o
        BY <1>2, <4>1
      <4>2. CASE p # o
        BY <1>2, <3>1, <3>2, <4>2
      <4> QED BY <4>1, <4>2
    <3> QED BY <3>3, <3>4
  <2> QED BY <2>1 DEF FreshUntouched
<1>8. EveryReferenceAccounted'
  BY <1>1, ParseAccounted DEF EveryReferenceAccounted
<1> QED BY <1>5, <1>6, <1>7, <1>8 DEF ReferenceInv

LEMMA IInvStep ==
  ASSUME IInv, [Next]_vars
  PROVE  IInv'
<1>1. Accounting'
  BY AccountingStep DEF IInv
<1>2. CASE ParseIndirectObject
  BY <1>1, <1>2, ParseReferences DEF IInv
<1>3. CASE ParseBareValue \/ BuildNode
  BY <1>1, <1>3, BareNodeTypes, BareNodeReferences DEF IInv
<1>4. CASE ResolveIndexed \/ ResolveUnknown
  BY <1>1, <1>4, ResolveReferences DEF IInv
<1>5. CASE UNCHANGED graph
  <2>1. UNCHANGED <<index, pending, nodes, refEdges>>
    BY <1>5 DEF graph
  <2>2. \A o \in Objects : Waiting(o)' = Waiting(o)
    BY <2>1 DEF Waiting
  <2>3. DOMAIN index \cap DOMAIN pending' = {}
    BY <2>1 DEF IInv, ReferenceInv, NobodyWaitsForIndexed
  <2> QED BY <1>1, <2>1, <2>2, <2>3, ReferencesUnchanged DEF IInv
<1>6. CASE QueueTask \/ AddDataChunk \/ QueueIncoming \/ StartProcessAll
  BY <1>5, <1>6 DEF QueueTask, AddDataChunk, QueueIncoming, StartProcessAll
<1>7. CASE ParseGarbage \/ ResolveMalformed \/ BuildNodeFails \/ ReadOnlyTask
  BY <1>5, <1>7, PassiveTypes DEF IInv
<1>8. CASE UNCHANGED vars
  BY <1>5, <1>8 DEF vars, graph
<1> QED BY <1>2, <1>3, <1>4, <1>6, <1>7, <1>8 DEF Next, ProcessNextTask

LEMMA IInvInvariant == Spec => []IInv
<1>1. Init => IInv
  BY AccountingInit, ReferenceInit DEF IInv
<1> QED BY <1>1, IInvStep, PTL DEF Spec

(* No object is indexed and waited for at once.                            *)
THEOREM WaitersAreDrained == Spec => []NobodyWaitsForIndexed
<1>1. IInv => NobodyWaitsForIndexed
  BY DEF IInv, ReferenceInv
<1> QED BY <1>1, IInvInvariant, PTL

(* Whatever the order of the tasks, every reference of every parsed object *)
(* waits, or is an edge to one node of the object, with its exact count.   *)
THEOREM ReferencesAccounted == Spec => []EveryReferenceAccounted
<1>1. IInv => EveryReferenceAccounted
  BY DEF IInv, ReferenceInv
<1> QED BY <1>1, IInvInvariant, PTL

(* When is_complete says so, every reference has become an edge.           *)
THEOREM CompletionIsSound == Spec => []CompleteMeansLinked
<1>1. IInv => CompleteMeansLinked
  <2> SUFFICES ASSUME IInv, DOMAIN pending = {}, NEW n \in DOMAIN nodes,
                      NEW o \in Objects, Wanted(n, o) > 0
               PROVE  \E m \in NodesOf(o) : refEdges[<<n, m>>] > 0
    BY DEF CompleteMeansLinked, IsComplete
  <2>1. Accounted(n, o)
    BY DEF IInv, ReferenceInv, EveryReferenceAccounted
  <2>2. n \in Nodes
    BY NodeFacts
  <2>3. Waiting(o)[n] = 0
    BY <2>2 DEF Waiting, NoWaiters
  <2>4. NodesOf(o) # {}
    BY <2>1, <2>3 DEF Accounted
  <2> QED BY <2>1, <2>4 DEF Accounted
<1> QED BY <1>1, IInvInvariant, PTL
-----------------------------------------------------------------------------
(* New edges lead to the latest definition                                 *)

LinksLatest ==
  \A e \in Nodes \X Nodes : refEdges'[e] > refEdges[e] =>
    /\ e[2] \in DOMAIN nodes'
    /\ nodes'[e[2]].obj # NoObject
    /\ \A k \in DOMAIN nodes' : nodes'[k].obj = nodes'[e[2]].obj => k <= e[2]

LEMMA LinksLatestStep ==
  ASSUME IInv, [Next]_vars
  PROVE  LinksLatest
<1>0. \A e \in Nodes \X Nodes : refEdges[e] \in Nat
  BY DEF IInv, Accounting, TypeOK
<1>1. CASE ParseIndirectObject
  <2>1. PICK o \in Objects, n \in Nodes, refs \in [Objects -> Nat] :
          ParseOutcome(o, n, refs)
    BY <1>1, ParseFacts
  <2>2. DOMAIN index' = DOMAIN index \cup {o} /\ index'[o] = n
    BY <2>1 DEF ParseOutcome
  <2>3. /\ DOMAIN index' \subseteq Objects
        /\ \A p \in DOMAIN index' : /\ index'[p] \in DOMAIN nodes'
                                    /\ nodes'[index'[p]].obj = p
        /\ \A b \in Nodes : (\A p \in DOMAIN index' : index'[p] # b) =>
             refEdges'[<<n, b>>] = 0
        /\ \A a, b \in Nodes : a # n =>
             refEdges'[<<a, b>>] = refEdges[<<a, b>>]
                                   + (IF b = n THEN Waiting(o)[a] ELSE 0)
    BY <2>1, ParseEdges
  <2>4. IndexExact'
    BY <1>1, ParseReferences DEF ReferenceInv
  <2>5. ASSUME NEW a \in Nodes, NEW b \in Nodes,
               refEdges'[<<a, b>>] > refEdges[<<a, b>>]
        PROVE  \E p \in DOMAIN index' : index'[p] = b
    <3>1. CASE a = n
      BY <1>0, <2>3, <2>5, <3>1
    <3>2. CASE a # n
      <4>1. b = n
        BY <1>0, <2>3, <2>5, <3>2
      <4> QED BY <2>2, <4>1
    <3> QED BY <3>1, <3>2
  <2>6. ASSUME NEW e \in Nodes \X Nodes, refEdges'[e] > refEdges[e]
        PROVE  /\ e[2] \in DOMAIN nodes'
               /\ nodes'[e[2]].obj # NoObject
               /\ \A k \in DOMAIN nodes' :
                    nodes'[k].obj = nodes'[e[2]].obj => k <= e[2]
    <3>1. e = <<e[1], e[2]>> /\ e[1] \in Nodes /\ e[2] \in Nodes
      OBVIOUS
    <3>2. PICK p \in DOMAIN index' : index'[p] = e[2]
      BY <2>5, <2>6, <3>1
    <3>3. p \in Objects /\ e[2] \in DOMAIN nodes' /\ nodes'[e[2]].obj = p
      BY <2>3, <3>2
    <3>4. \A k \in NodesOf(p)' : k <= e[2]
      BY <2>4, <3>2, <3>3 DEF IndexExact
    <3> QED BY <3>3, <3>4, MarkerAssumption DEF NodesOf
  <2> QED BY <2>6 DEF LinksLatest
<1>2. CASE ResolveIndexed
  <2>1. current.data.obj \in DOMAIN index /\ DOMAIN index \subseteq Objects
    BY <1>2 DEF ResolveIndexed, IInv, Accounting, TypeOK
  <2>2. Waiting(current.data.obj) = NoWaiters
    BY <2>1 DEF IInv, ReferenceInv, NobodyWaitsForIndexed, Waiting
  <2>3. ASSUME NEW e \in Nodes \X Nodes
        PROVE  refEdges'[e] = refEdges[e]
    <3>1. Waiting(current.data.obj)[e[1]] = 0
      BY <2>2 DEF NoWaiters
    <3>2. refEdges'[e] = refEdges[e] + (IF e[2] = index[current.data.obj]
                                        THEN Waiting(current.data.obj)[e[1]] ELSE 0)
      BY <1>2 DEF ResolveIndexed
    <3> QED BY <1>0, <3>1, <3>2
  <2> QED BY <1>0, <2>3 DEF LinksLatest
<1>3. CASE refEdges' = refEdges
  BY <1>0, <1>3 DEF LinksLatest
<1>4. CASE ParseGarbage \/ ResolveMalformed \/ BuildNodeFails \/ ReadOnlyTask
  BY <1>3, <1>4, PassiveTypes DEF IInv, graph
<1>5. CASE ParseBareValue \/ BuildNode \/ ResolveUnknown
  BY <1>3, <1>5 DEF ParseBareValue, BuildNode, ResolveUnknown
<1>6. CASE QueueTask \/ AddDataChunk \/ QueueIncoming \/ StartProcessAll
  BY <1>3, <1>6 DEF QueueTask, AddDataChunk, QueueIncoming, StartProcessAll, graph
<1>7. CASE UNCHANGED vars
  BY <1>3, <1>7 DEF vars
<1> QED
  BY <1>1, <1>2, <1>4, <1>5, <1>6, <1>7 DEF Next, ProcessNextTask

(* No step links a node to a definition that has been superseded.          *)
THEOREM NewLinksAreLatest == Spec => NewLinksTargetLatest
<1>1. IInv /\ [Next]_vars => LinksLatest
  BY LinksLatestStep
<1>2. IInv /\ [Next]_vars => [LinksLatest]_vars
  BY <1>1
<1> QED BY <1>2, IInvInvariant, PTL DEF Spec, NewLinksTargetLatest, LinksLatest
-----------------------------------------------------------------------------
(* Refinement                                                              *)

(* In every reachable state the links are what ReferenceLinking makes them.*)
LEMMA LinksExact == IInv => Links = {d \in Demands : d[2] \in DOMAIN index}
<1> SUFFICES ASSUME IInv PROVE Links = {d \in Demands : d[2] \in DOMAIN index}
  OBVIOUS
<1>1. ASSUME NEW n \in DOMAIN nodes, NEW o \in Objects
      PROVE  (\E m \in NodesOf(o) : refEdges[<<n, m>>] > 0) <=>
             (Wanted(n, o) > 0 /\ o \in DOMAIN index)
  <2>1. Accounted(n, o) /\ (o \in DOMAIN index <=> NodesOf(o) # {})
    BY DEF IInv, ReferenceInv, EveryReferenceAccounted, IndexExact
  <2>2. CASE NodesOf(o) = {}
    BY <2>1, <2>2
  <2>3. CASE NodesOf(o) # {}
    <3>1. PICK m \in NodesOf(o) :
            /\ refEdges[<<n, m>>] = Wanted(n, o)
            /\ \A k \in NodesOf(o) \ {m} : refEdges[<<n, k>>] = 0
      BY <2>1, <2>3 DEF Accounted
    <3>2. o \in DOMAIN index
      BY <2>1, <2>3
    <3>3. Wanted(n, o) > 0 =>
            \E k \in NodesOf(o) : refEdges[<<n, k>>] > 0
      BY <3>1
    <3>4. ASSUME NEW k \in NodesOf(o), refEdges[<<n, k>>] > 0
          PROVE  Wanted(n, o) > 0
      BY <3>1, <3>4
    <3> QED BY <3>2, <3>3, <3>4
  <2> QED BY <2>2, <2>3
<1>2. ASSUME NEW d \in (DOMAIN nodes) \X Objects
      PROVE  (\E m \in NodesOf(d[2]) : refEdges[<<d[1], m>>] > 0) <=>
             (Wanted(d[1], d[2]) > 0 /\ d[2] \in DOMAIN index)
  BY <1>1
<1> QED BY <1>2 DEF Links, Demands

LEMMA LinkingInit == Init => Linking!Init
BY DEF Init, Linking!Init, Demands, Links

LEMMA LinkingStep ==
  ASSUME IInv, [Next]_vars
  PROVE  [Linking!Next]_Linking!vars
<1>0. IInv'
  BY IInvStep
<1>1. /\ Links = {d \in Demands : d[2] \in DOMAIN index}
      /\ Links' = {d \in Demands' : d[2] \in DOMAIN index'}
  <2>1. IInv' => (Links = {d \in Demands : d[2] \in DOMAIN index})'
    BY LinksExact, PTL
  <2> QED BY <1>0, <2>1, LinksExact
<1>2. CASE index' = index /\ Demands' = Demands
  BY <1>1, <1>2 DEF Linking!vars
<1>3. CASE UNCHANGED <<nodes, index>>
  <2>1. Demands' = Demands
    BY <1>3 DEF Demands, Wanted
  <2> QED BY <1>2, <1>3, <2>1
<1>4. CASE ParseIndirectObject
  <2>1. PICK o \in Objects, n \in Nodes, refs \in [Objects -> Nat] :
          ParseOutcome(o, n, refs)
    BY <1>4, ParseFacts
  <2>2. /\ n \notin DOMAIN nodes /\ DOMAIN nodes' = DOMAIN nodes \cup {n}
        /\ \A k \in DOMAIN nodes : nodes'[k] = nodes[k]
        /\ nodes'[n] = [obj |-> o, refs |-> refs]
        /\ DOMAIN index' = DOMAIN index \cup {o}
    BY <2>1 DEF ParseOutcome
  <2> DEFINE R == {p \in Objects : refs[p] > 0}
  <2>3. /\ \A k \in DOMAIN nodes, p \in Objects : Wanted(k, p)' = Wanted(k, p)
        /\ \A p \in Objects : Wanted(n, p)' = refs[p]
    BY <2>2, MarkerAssumption DEF Wanted
  <2>4. Demands' = Demands \cup ({n} \X R)
    BY <2>2, <2>3 DEF Demands
  <2>5. \A d \in Demands : d[1] # n
    BY <2>2 DEF Demands
  <2>6. R \in SUBSET Objects
    OBVIOUS
  <2> HIDE DEF R
  <2>7. Linking!Define(n, o, R)
    BY <1>1, <2>2, <2>4, <2>5 DEF Linking!Define
  <2> QED BY <2>6, <2>7 DEF Linking!Next
<1>5. CASE ParseBareValue \/ BuildNode
  <2>1. AppendsBareNode
    BY <1>5, BareNodeTypes DEF IInv
  <2>2. PICK refs \in [Objects -> Nat] :
          nodes' = Append(nodes, [obj |-> NoObject, refs |-> refs])
    BY <2>1 DEF AppendsBareNode
  <2>3. nodes \in Seq(Node) /\ [obj |-> NoObject, refs |-> refs] \in Node
    BY NodeFacts DEF Node
  <2>4. PICK n \in Nat :
          /\ DOMAIN nodes' = DOMAIN nodes \cup {n}
          /\ \A k \in DOMAIN nodes : nodes'[k] = nodes[k]
          /\ nodes'[n].obj = NoObject
    <3>1. /\ DOMAIN nodes' = DOMAIN nodes \cup {Len(nodes) + 1}
          /\ \A k \in DOMAIN nodes : nodes'[k] = nodes[k]
          /\ nodes'[Len(nodes) + 1].obj = NoObject
      BY <2>2, <2>3, AppendProperties
    <3>2. Len(nodes) + 1 \in Nat
      BY <2>3
    <3> QED BY <3>1, <3>2
  <2>5. /\ \A k \in DOMAIN nodes, p \in Objects : Wanted(k, p)' = Wanted(k, p)
        /\ \A p \in Objects : Wanted(n, p)' = 0
    BY <2>4 DEF Wanted
  <2>6. Demands' = Demands
    BY <2>4, <2>5 DEF Demands
  <2> QED BY <1>2, <2>1, <2>6 DEF AppendsBareNode
<1>6. CASE ResolveIndexed \/ ResolveUnknown
  BY <1>3, <1>6 DEF ResolveIndexed, ResolveUnknown
<1>7. CASE ParseGarbage \/ ResolveMalformed \/ BuildNodeFails \/ ReadOnlyTask
  BY <1>3, <1>7, PassiveTypes DEF IInv, graph
<1>8. CASE QueueTask \/ AddDataChunk \/ QueueIncoming \/ StartProcessAll
  BY <1>3, <1>8 DEF QueueTask, AddDataChunk, QueueIncoming, StartProcessAll, graph
<1>9. CASE UNCHANGED vars
  BY <1>3, <1>9 DEF vars
<1> QED
  BY <1>4, <1>5, <1>6, <1>7, <1>8, <1>9 DEF Next, ProcessNextTask

(* The processor implements ReferenceLinking: parsing an object is one     *)
(* Define step, every other step is a stutter.                             *)
THEOREM Refinement == Spec => ImplementsLinking
<1>1. IInv /\ [Next]_vars => [Linking!Next]_Linking!vars
  BY LinkingStep
<1> QED BY <1>1, LinkingInit, IInvInvariant, PTL DEF Spec, ImplementsLinking, Linking!Spec
-----------------------------------------------------------------------------
(* The order of the queue                                                  *)

(* Tickets are handed out in order, so the newest is the largest.          *)
QueueInv == QueueOrdered /\ \A i \in DOMAIN queue : queue[i].ticket <= stats.queued

(* a is served before b.                                                   *)
Before(a, b) == \/ a.task.priority > b.task.priority
                \/ a.task.priority = b.task.priority /\ a.ticket < b.ticket

LEMMA EnqueueKeepsOrder ==
  ASSUME Accounting, QueueInv, NEW t \in Task, Enqueue(t)
  PROVE  QueueInv'
<1> DEFINE p == t.priority
           k == stats.queued + 1
           at == InsertPosition(queue, p)
           x == [task |-> t, ticket |-> k]
           L == Len(queue)
<1> USE BoundAssumption
<1>1. /\ queue \in Seq(Queued) /\ stats \in Stats /\ p \in Priorities
      /\ L \in Nat /\ DOMAIN queue = 1..L
  BY DEF Accounting, TypeOK, Task
<1>2. /\ at \in 1 .. L + 1
      /\ \A i \in 1 .. at - 1 : queue[i].task.priority >= p
      /\ at <= L => queue[at].task.priority < p
  BY <1>1, InsertPositionProperties
<1>3. k \in 1..MaxTasks /\ x \in Queued
  BY <1>1 DEF Enqueue, Stats, Queued
<1>4. /\ queue' \in Seq(Queued) /\ Len(queue') = L + 1
      /\ \A i \in 1 .. L + 1 :
           queue'[i] = IF i < at THEN queue[i] ELSE IF i = at THEN x ELSE queue[i - 1]
  <2>1. queue' = InsertAt(queue, at, x)
    BY DEF Enqueue
  <2> HIDE DEF at, x, p
  <2> QED BY <1>1, <1>2, <1>3, <2>1, InsertAtProperties, SMTT(60)
<1>5. \A i \in 1..L : /\ queue[i].task.priority \in Priorities
                      /\ queue[i].ticket \in Nat /\ queue[i].ticket < k
  <2> SUFFICES ASSUME NEW i \in 1..L
               PROVE  /\ queue[i].task.priority \in Priorities
                      /\ queue[i].ticket \in Nat /\ queue[i].ticket < k
    OBVIOUS
  <2>1. queue[i] \in Queued
    BY <1>1, ElementOfSeq
  <2>2. queue[i].task \in Task /\ queue[i].ticket \in Nat
    BY <2>1 DEF Queued
  <2>3. queue[i].ticket <= stats.queued /\ stats.queued \in Nat
    BY <1>1 DEF QueueInv, Stats
  <2> QED BY <2>2, <2>3 DEF Task
<1>6. \A i, j \in 1..L : i < j => Before(queue[i], queue[j])
  BY <1>1 DEF QueueInv, QueueOrdered, Before
<1>7. \A j \in 1..L : j >= at => queue[j].task.priority < p
  <2> SUFFICES ASSUME NEW j \in 1..L, j >= at
               PROVE  queue[j].task.priority < p
    OBVIOUS
  <2>1. at \in 1..L /\ queue[at].task.priority < p
    BY <1>1, <1>2
  <2>2. CASE j = at
    BY <2>1, <2>2
  <2>3. CASE j > at
    <3>1. queue[at].task.priority >= queue[j].task.priority
      BY <1>5, <1>6, <2>1, <2>3 DEF Before, Priorities
    <3> HIDE DEF p, at
    <3> QED BY <1>1, <1>5, <2>1, <3>1, SMTT(60) DEF Priorities
  <2> QED BY <1>2, <2>2, <2>3
<1>8. x.task.priority = p /\ x.ticket = k
  OBVIOUS
<1> HIDE DEF p, k, at, x, L
<1>9. ASSUME NEW i \in 1 .. L + 1, NEW j \in 1 .. L + 1, i < j
      PROVE  Before(queue'[i], queue'[j])
  <2>1. CASE j < at
    BY <1>1, <1>2, <1>4, <1>6, <1>9, <2>1
  <2>2. CASE j = at
    <3>1. /\ queue'[i] = queue[i] /\ queue'[j] = x
          /\ i \in 1..L /\ i \in 1 .. at - 1
      BY <1>1, <1>2, <1>4, <1>9, <2>2
    <3> QED BY <1>1, <1>2, <1>5, <1>8, <3>1 DEF Before, Priorities
  <2>3. CASE j > at /\ i = at
    <3>1. queue'[i] = x /\ queue'[j] = queue[j - 1] /\ j - 1 \in 1..L /\ j - 1 >= at
      BY <1>1, <1>2, <1>4, <2>3
    <3> QED BY <1>1, <1>5, <1>7, <1>8, <3>1 DEF Before, Priorities
  <2>4. CASE j > at /\ i # at
    <3>1. PICK a \in 1..L, b \in 1..L :
            a < b /\ queue'[i] = queue[a] /\ queue'[j] = queue[b]
      <4>1. CASE i < at
        <5>1. i \in 1..L /\ j - 1 \in 1..L /\ i < j - 1
          BY <1>1, <1>2, <1>9, <2>4, <4>1
        <5>2. queue'[i] = queue[i] /\ queue'[j] = queue[j - 1]
          BY <1>1, <1>2, <1>4, <2>4, <4>1
        <5> QED BY <5>1, <5>2
      <4>2. CASE i > at
        <5>1. i - 1 \in 1..L /\ j - 1 \in 1..L /\ i - 1 < j - 1
          BY <1>1, <1>2, <1>9, <4>2
        <5>2. queue'[i] = queue[i - 1] /\ queue'[j] = queue[j - 1]
          BY <1>1, <1>2, <1>4, <2>4, <4>2
        <5> QED BY <5>1, <5>2
      <4> QED BY <1>2, <2>4, <4>1, <4>2
    <3> QED BY <1>6, <3>1
  <2> QED BY <1>1, <1>2, <2>1, <2>2, <2>3, <2>4
<1>10. ASSUME NEW i \in 1 .. L + 1
       PROVE  queue'[i].ticket <= stats'.queued
  <2>1. stats'.queued = k
    BY <1>1 DEF Enqueue, k, Stats
  <2>2. CASE i < at
    BY <1>1, <1>2, <1>3, <1>4, <1>5, <2>1, <2>2
  <2>3. CASE i = at
    BY <1>2, <1>3, <1>4, <1>8, <2>1, <2>3
  <2>4. CASE i > at
    <3>1. i - 1 \in 1..L /\ queue'[i] = queue[i - 1]
      BY <1>1, <1>2, <1>4, <2>4
    <3> QED BY <1>3, <1>5, <2>1, <3>1
  <2> QED BY <1>2, <2>2, <2>3, <2>4
<1>11. DOMAIN queue' = 1 .. L + 1
  BY <1>4
<1> QED BY <1>9, <1>10, <1>11 DEF QueueInv, QueueOrdered, Before

LEMMA QueueStep ==
  ASSUME Accounting, QueueInv, [Next]_vars
  PROVE  QueueInv'
<1>1. CASE QueueTask
  BY <1>1, InputAssumption, EnqueueKeepsOrder DEF QueueTask
<1>2. CASE QueueIncoming
  <2>1. Head(incoming) \in Task
    BY <1>2, HeadTailProperties DEF QueueIncoming, Accounting, TypeOK
  <2> QED BY <1>2, <2>1, EnqueueKeepsOrder DEF QueueIncoming
<1>3. CASE UNCHANGED <<queue, stats>>
  BY <1>3 DEF QueueInv, QueueOrdered
<1>4. CASE AddDataChunk \/ StartProcessAll \/ UNCHANGED vars
  BY <1>3, <1>4 DEF AddDataChunk, StartProcessAll, vars
<1>5. CASE ProcessNextTask
  <2>1. tolerant \in BOOLEAN /\ queue \in Seq(Queued)
    BY DEF Accounting, TypeOK
  <2>2. /\ queue # <<>> /\ queue' = Tail(queue) /\ stats'.queued = stats.queued
    <3>1. PICK ok \in BOOLEAN, made \in {0, 1} : FinishTask(ok, made)
      <4>1. CASE ParseGarbage
        BY <2>1, <4>1 DEF ParseGarbage
      <4>2. CASE BuildNodeFails
        BY <4>2 DEF BuildNodeFails
      <4>3. CASE ParseIndirectObject \/ ParseBareValue
        BY <4>3 DEF ParseIndirectObject, ParseBareValue
      <4>4. CASE \/ ResolveMalformed \/ ResolveIndexed \/ ResolveUnknown
                 \/ BuildNode \/ ReadOnlyTask
        BY <4>4 DEF ResolveMalformed, ResolveIndexed, ResolveUnknown, BuildNode,
                    ReadOnlyTask
      <4> QED BY <1>5, <4>1, <4>2, <4>3, <4>4 DEF ProcessNextTask
    <3> QED BY <3>1 DEF FinishTask
  <2>3. /\ Len(queue') = Len(queue) - 1 /\ queue' \in Seq(Queued)
        /\ \A i \in 1..Len(queue') : queue'[i] = queue[i + 1]
    BY <2>1, <2>2, HeadTailProperties
  <2>4. /\ DOMAIN queue' = 1 .. Len(queue) - 1 /\ DOMAIN queue = 1..Len(queue)
        /\ Len(queue) \in Nat
    BY <2>1, <2>3
  <2>5. \A i \in DOMAIN queue' : i + 1 \in DOMAIN queue /\ queue'[i] = queue[i + 1]
    BY <2>3, <2>4
  <2>6. \A i, j \in DOMAIN queue' : i < j => i + 1 < j + 1
    BY <2>4
  <2>7. QueueOrdered'
    BY <2>5, <2>6 DEF QueueInv, QueueOrdered
  <2> QED BY <2>2, <2>5, <2>7 DEF QueueInv
<1> QED BY <1>1, <1>2, <1>4, <1>5 DEF Next

(* The head of the queue is always the most urgent task and, among equally *)
(* urgent ones, the oldest.                                                *)
THEOREM QueueStaysOrdered == Spec => []QueueOrdered
<1>1. Init => QueueInv
  BY DEF Init, QueueInv, QueueOrdered
<1>2. QueueInv => QueueOrdered
  BY DEF QueueInv
<1> QED BY <1>1, <1>2, QueueStep, AccountingInvariant, PTL DEF Spec
-----------------------------------------------------------------------------
(* The pipeline. Items are numbered in the order in which they are sent,   *)
(* so that the ones that process_stream has received are the first ones.   *)
Item == [number : Nat, type : ItemTypes, retries : Nat]

Received == produced - Len(input.items)
InHand   == phase \in {"process", "send"}
Past     == IF InHand THEN Received - 1 ELSE Received

PipelineTypes ==
  /\ input \in [items : Seq(Item), open : BOOLEAN]
  /\ output \in [items : Seq(Item), open : BOOLEAN]
  /\ phase \in {"initialize", "receive", "process", "send", "cleanup", "ok", "error"}
  /\ turn \in 1 .. Len(Stages) + 1
  /\ produced \in Nat
  /\ InHand => item \in Item

ItemsAreNumbered ==
  /\ Received \in Nat
  /\ \A k \in DOMAIN input.items : input.items[k].number = Received + k
  /\ InHand => Received > 0 /\ item.number = Received

(* The items that process_stream no longer has are accounted for.          *)
PastIsAnswered ==
  /\ delivered \in Seq(1..Past)
  /\ \A i, j \in DOMAIN delivered : i < j => delivered[i] < delivered[j]
  /\ failed \subseteq 1..Past
  /\ Range(delivered) \cap failed = {}
  /\ counted = Len(delivered) + Cardinality(failed)
  /\ output.open => Range(delivered) \cup failed = 1..Past

(* What is ready when, and why the loop is left                            *)
StagesFollowPhase ==
  /\ phase = "initialize" => ready = 1 .. turn - 1
  /\ phase \in {"receive", "process", "send"} => ready = 1..Len(Stages)
  /\ phase = "cleanup" => ready = turn..Len(Stages)
  /\ phase = "ok" => ready = {}
  /\ phase \in {"cleanup", "ok"} => ~output.open \/ (input.items = <<>> /\ ~input.open)

PipelineInv ==
  PipelineTypes /\ ItemsAreNumbered /\ PastIsAnswered /\ StagesFollowPhase

LEMMA StageCount == Len(Stages) \in Nat
  BY PipelineAssumption, LenProperties

(* One more number at the end of an increasing sequence                    *)
LEMMA NextNumber ==
  ASSUME NEW n \in Nat, NEW s \in Seq(1..n),
         \A i, j \in DOMAIN s : i < j => s[i] < s[j]
  PROVE  LET t == Append(s, n + 1) IN
         /\ t \in Seq(1 .. n + 1)
         /\ Len(t) = Len(s) + 1
         /\ \A i, j \in DOMAIN t : i < j => t[i] < t[j]
         /\ Range(t) = Range(s) \cup {n + 1}
<1> DEFINE t == Append(s, n + 1)
<1>1. PICK l \in Nat : l = Len(s) /\ DOMAIN s = 1..l /\ \A i \in 1..l : s[i] \in 1..n
  BY LenProperties, ElementOfSeq
<1>2. s \in Seq(1 .. n + 1)
  BY SeqMonotonic
<1>3. /\ t \in Seq(1 .. n + 1) /\ Len(t) = l + 1
      /\ \A i \in 1..l : t[i] = s[i]
      /\ t[l + 1] = n + 1
  BY <1>1, <1>2, AppendProperties
<1>4. DOMAIN t = 1 .. l + 1
  BY <1>3, LenProperties
<1> HIDE DEF t
<1>5. ASSUME NEW i \in DOMAIN t, NEW j \in DOMAIN t, i < j
      PROVE  t[i] < t[j]
  <2>1. CASE j = l + 1
    <3>1. i \in 1..l
      BY <1>1, <1>4, <1>5, <2>1
    <3>2. t[i] = s[i] /\ s[i] \in 1..n /\ t[j] = n + 1
      BY <1>1, <1>3, <2>1, <3>1
    <3> QED BY <3>2
  <2>2. CASE j # l + 1
    <3>1. i \in 1..l /\ j \in 1..l
      BY <1>1, <1>4, <1>5, <2>2
    <3> QED BY <1>1, <1>3, <1>5, <3>1
  <2> QED BY <2>1, <2>2
<1>6. Range(t) = Range(s) \cup {n + 1}
  <2>1. ASSUME NEW i \in DOMAIN t PROVE t[i] \in Range(s) \cup {n + 1}
    <3>1. CASE i = l + 1
      BY <1>3, <3>1
    <3>2. CASE i # l + 1
      <4>1. i \in DOMAIN s /\ t[i] = s[i]
        BY <1>1, <1>3, <1>4, <3>2
      <4> QED BY <4>1 DEF Range
    <3> QED BY <3>1, <3>2
  <2>2. ASSUME NEW i \in DOMAIN s PROVE s[i] \in Range(t)
    BY <1>1, <1>3, <1>4 DEF Range
  <2>3. n + 1 \in Range(t)
    BY <1>1, <1>3, <1>4 DEF Range
  <2> QED BY <2>1, <2>2, <2>3 DEF Range
<1> QED BY <1>1, <1>3, <1>5, <1>6 DEF t

LEMMA PipelineStarts == PipelineInit => PipelineInv
<1> SUFFICES ASSUME PipelineInit PROVE PipelineInv
  OBVIOUS
<1>0. /\ input.items = <<>> /\ phase = "initialize" /\ produced = 0
      /\ input = [items |-> <<>>, open |-> TRUE] /\ output = [items |-> <<>>, open |-> TRUE]
      /\ turn = 1 /\ ready = {} /\ counted = 0 /\ delivered = <<>> /\ failed = {}
  BY DEF PipelineInit
<1>1. \A S : <<>> \in Seq(S) /\ Len(<<>>) = 0
  BY EmptySeq
<1>2. Cardinality({}) = 0
  BY FS_EmptySet
<1>3. Received = 0 /\ ~InHand /\ Past = 0
  <2>1. Len(input.items) = 0
    BY <1>0, <1>1
  <2>2. produced = 0 /\ phase = "initialize"
    BY <1>0
  <2> QED BY <2>1, <2>2 DEF Received, InHand, Past
<1>4. PipelineTypes
  BY <1>0, <1>1, <1>3, StageCount DEF PipelineTypes
<1>5. ItemsAreNumbered
  BY <1>0, <1>3 DEF ItemsAreNumbered
<1>6. PastIsAnswered
  BY <1>0, <1>1, <1>2, <1>3 DEF PastIsAnswered, Range
<1>7. StagesFollowPhase
  BY <1>0, StageCount DEF StagesFollowPhase
<1> QED BY <1>4, <1>5, <1>6, <1>7 DEF PipelineInv

(* A step that leaves the items alone                                      *)
LEMMA ItemsUntouched ==
  ASSUME PipelineInv,
         UNCHANGED <<input, item, counted, produced, delivered, failed>>,
         InHand' = InHand, output'.open => output.open
  PROVE  ItemsAreNumbered' /\ PastIsAnswered'
<1>1. Received' = Received /\ Past' = Past
  BY DEF Received, Past
<1>2. ItemsAreNumbered'
  BY <1>1 DEF PipelineInv, ItemsAreNumbered
<1>3. PastIsAnswered'
  BY <1>1 DEF PipelineInv, PastIsAnswered
<1> QED BY <1>2, <1>3

LEMMA EndsKeepInv ==
  ASSUME PipelineInv, Produce \/ CloseInput \/ Consume \/ CloseOutput
  PROVE  PipelineInv'
<1>1. /\ input \in [items : Seq(Item), open : BOOLEAN]
      /\ output \in [items : Seq(Item), open : BOOLEAN]
      /\ produced \in Nat
  BY DEF PipelineInv, PipelineTypes
<1>2. CASE Produce
  <2>1. PICK type \in ItemTypes :
          input' = [input EXCEPT !.items = Append(@, [number |-> produced + 1, type |-> type,
                                                      retries |-> 0])]
    BY <1>2 DEF Produce
  <2> DEFINE x == [number |-> produced + 1, type |-> type, retries |-> 0]
             s == input.items
  <2>2. /\ produced' = produced + 1 /\ input.open /\ Running
        /\ UNCHANGED <<output, phase, turn, item, ready, counted, delivered, failed>>
    BY <1>2 DEF Produce
  <2>3. x \in Item /\ x.number = produced + 1
    BY <1>1 DEF Item
  <2>4. PICK l \in Nat : l = Len(s) /\ DOMAIN s = 1..l /\ s \in Seq(Item)
    BY <1>1, LenProperties
  <2> HIDE DEF x
  <2>5. /\ Append(s, x) \in Seq(Item) /\ Len(Append(s, x)) = l + 1
        /\ \A k \in 1..l : Append(s, x)[k] = s[k]
        /\ Append(s, x)[l + 1] = x
    BY <2>3, <2>4, AppendProperties
  <2>6. input' = [items |-> Append(s, x), open |-> input.open]
    BY <1>1, <2>1 DEF x
  <2>7. DOMAIN Append(s, x) = 1 .. l + 1
    BY <2>5, LenProperties
  <2> HIDE DEF s
  <2>8. Received \in Nat /\ Received = produced - l /\ Received' = Received
    <3>1. Received = produced - l /\ Received' = (produced + 1) - (l + 1)
      BY <2>2, <2>4, <2>5, <2>6 DEF Received, s
    <3>2. Received \in Nat
      BY DEF PipelineInv, ItemsAreNumbered
    <3> QED BY <1>1, <2>4, <3>1, <3>2
  <2>9. InHand' = InHand /\ Past' = Past
    BY <2>2, <2>8 DEF InHand, Past
  <2>10. PipelineTypes'
    BY <1>1, <2>2, <2>5, <2>6, <2>9 DEF PipelineInv, PipelineTypes
  <2>11. ItemsAreNumbered'
    <3>1. ASSUME NEW k \in 1 .. l + 1 PROVE Append(s, x)[k].number = Received + k
      <4>1. CASE k \in 1..l
        BY <2>4, <2>5, <4>1 DEF PipelineInv, ItemsAreNumbered, s
      <4>2. CASE k = l + 1
        <5>1. Append(s, x)[k].number = produced + 1
          BY <2>3, <2>5, <4>2
        <5>2. produced + 1 = Received + k
          BY <1>1, <2>8, <4>2
        <5> QED BY <5>1, <5>2
      <4> QED BY <2>4, <4>1, <4>2
    <3> QED BY <2>2, <2>6, <2>7, <2>8, <2>9, <3>1 DEF PipelineInv, ItemsAreNumbered
  <2>12. PastIsAnswered'
    BY <2>2, <2>9 DEF PipelineInv, PastIsAnswered
  <2>13. StagesFollowPhase'
    BY <2>2 DEF PipelineInv, StagesFollowPhase, Running
  <2> QED BY <2>10, <2>11, <2>12, <2>13 DEF PipelineInv
<1>3. CASE CloseInput
  <2>1. /\ input'.items = input.items /\ ~input'.open
        /\ input' \in [items : Seq(Item), open : BOOLEAN]
        /\ UNCHANGED <<output, phase, turn, item, ready, counted, produced, delivered, failed>>
    BY <1>1, <1>3 DEF CloseInput
  <2>2. InHand' = InHand /\ Received' = Received /\ Past' = Past
    BY <2>1 DEF InHand, Received, Past
  <2>3. PipelineTypes' /\ StagesFollowPhase'
    BY <2>1, <2>2 DEF PipelineInv, PipelineTypes, StagesFollowPhase
  <2>4. ItemsAreNumbered' /\ PastIsAnswered'
    BY <2>1, <2>2 DEF PipelineInv, ItemsAreNumbered, PastIsAnswered
  <2> QED BY <2>3, <2>4 DEF PipelineInv
<1>4. CASE Consume \/ CloseOutput
  <2>1. /\ UNCHANGED <<input, phase, turn, item, ready, counted, produced, delivered, failed>>
        /\ output'.open => output.open
    BY <1>1, <1>4 DEF Consume, CloseOutput
  <2>2. output' \in [items : Seq(Item), open : BOOLEAN]
    <3>1. CASE Consume
      <4>1. Tail(output.items) \in Seq(Item)
        BY <1>1, <3>1, HeadTailProperties DEF Consume
      <4> QED BY <1>1, <3>1, <4>1 DEF Consume
    <3>2. CASE CloseOutput
      <4>1. <<>> \in Seq(Item)
        BY EmptySeq
      <4> QED BY <3>2, <4>1 DEF CloseOutput
    <3> QED BY <1>4, <3>1, <3>2
  <2>3. InHand' = InHand
    BY <2>1 DEF InHand
  <2>4. PipelineTypes' /\ StagesFollowPhase'
    BY <2>1, <2>2, <2>3 DEF PipelineInv, PipelineTypes, StagesFollowPhase
  <2> QED BY <2>1, <2>3, <2>4, ItemsUntouched DEF PipelineInv
<1> QED BY <1>2, <1>3, <1>4

(* The stages come and go with nothing in hand.                            *)
LEMMA StagesKeepInv ==
  ASSUME PipelineInv, Initialize \/ Cleanup
  PROVE  PipelineInv'
<1>1. /\ UNCHANGED <<input, output, item, counted, produced, delivered, failed>>
      /\ phase \in {"initialize", "cleanup"}
      /\ phase' \in {"initialize", "receive", "cleanup", "ok", "error"}
      /\ phase' \in {"cleanup", "ok"} => phase = "cleanup"
      /\ turn' \in 1 .. Len(Stages) + 1
  BY StageCount DEF Initialize, Cleanup, Enter, channels, PipelineInv, PipelineTypes
<1>2. InHand' = InHand /\ ~InHand
  BY <1>1 DEF InHand
<1>3. PipelineTypes'
  BY <1>1, <1>2 DEF PipelineInv, PipelineTypes
<1>4. StagesFollowPhase'
  <2>1. /\ phase' = "initialize" => ready' = 1 .. turn' - 1
        /\ phase' = "receive" => ready' = 1..Len(Stages)
        /\ phase' = "cleanup" => ready' = turn'..Len(Stages)
        /\ phase' = "ok" => ready' = {}
    <3>1. turn \in 1 .. Len(Stages) + 1
      BY DEF PipelineInv, PipelineTypes
    <3>2. CASE Initialize
      <4>1. ready = 1 .. turn - 1 /\ phase = "initialize"
        BY <3>2 DEF PipelineInv, StagesFollowPhase, Initialize
      <4>2. CASE turn > Len(Stages) /\ Enter("receive") /\ UNCHANGED ready
        <5>1. turn - 1 = Len(Stages)
          BY <3>1, <4>2, StageCount
        <5> QED BY <4>1, <4>2, <5>1 DEF Enter
      <4>3. CASE ready' = ready \cup {turn} /\ turn' = turn + 1 /\ UNCHANGED phase
        <5>1. (1 .. turn - 1) \cup {turn} = 1 .. (turn + 1) - 1
          BY <3>1, StageCount
        <5> QED BY <4>1, <4>3, <5>1
      <4>4. CASE phase' = "error"
        BY <4>4
      <4> QED BY <3>2, <4>2, <4>3, <4>4 DEF Initialize
    <3>3. CASE Cleanup
      <4>1. ready = turn..Len(Stages) /\ phase = "cleanup"
        BY <3>3 DEF PipelineInv, StagesFollowPhase, Cleanup
      <4>2. CASE turn > Len(Stages) /\ phase' = "ok" /\ UNCHANGED <<turn, ready>>
        <5>1. turn..Len(Stages) = {}
          BY <3>1, <4>2, StageCount
        <5> QED BY <4>1, <4>2, <5>1
      <4>3. CASE ready' = ready \ {turn} /\ turn' = turn + 1 /\ UNCHANGED phase
        <5>1. (turn..Len(Stages)) \ {turn} = turn + 1 .. Len(Stages)
          BY <3>1, StageCount
        <5> QED BY <4>1, <4>3, <5>1
      <4>4. CASE phase' = "error"
        BY <4>4
      <4> QED BY <3>3, <4>2, <4>3, <4>4 DEF Cleanup
    <3> QED BY <3>2, <3>3
  <2> QED BY <1>1, <2>1 DEF PipelineInv, StagesFollowPhase
<1> QED BY <1>1, <1>2, <1>3, <1>4, ItemsUntouched DEF PipelineInv

(* What is received is the next number.                                    *)
LEMMA ReceiveKeepsInv ==
  ASSUME PipelineInv, Receive
  PROVE  PipelineInv'
<1>1. /\ UNCHANGED <<output, ready, counted, produced, delivered, failed>>
      /\ phase = "receive" /\ turn' = 1
  BY DEF Receive, Enter
<1>2. /\ input \in [items : Seq(Item), open : BOOLEAN] /\ produced \in Nat
      /\ Received \in Nat /\ ~InHand /\ Past = Received
  BY <1>1 DEF PipelineInv, PipelineTypes, ItemsAreNumbered, InHand, Past
<1>3. 1 \in 1 .. Len(Stages) + 1
  BY StageCount
<1>4. CASE input.items # <<>> /\ item' = Head(input.items)
           /\ input' = [input EXCEPT !.items = Tail(@)] /\ Enter("process")
  <2> DEFINE s == input.items
  <2>1. PICK l \in Nat : l = Len(s) /\ DOMAIN s = 1..l /\ s \in Seq(Item) /\ l > 0
    <3>1. s \in Seq(Item) /\ s # <<>>
      BY <1>2, <1>4
    <3> HIDE DEF s
    <3>2. Len(s) \in Nat \ {0} /\ DOMAIN s = 1..Len(s)
      BY <3>1, EmptySeq, LenProperties
    <3>3. Len(s) > 0
      BY <3>2
    <3> QED BY <3>1, <3>2, <3>3
  <2>2. /\ input' = [items |-> Tail(s), open |-> input.open]
        /\ phase' = "process" /\ item' = s[1]
    <3>1. Head(input.items) = input.items[1]
      BY <2>1
    <3> QED BY <1>2, <1>4, <3>1 DEF Enter
  <2>3. \A k \in 1..l : s[k].number = Received + k
    BY <2>1 DEF PipelineInv, ItemsAreNumbered
  <2>4. s # <<>>
    BY <1>4
  <2> HIDE DEF s
  <2>5. /\ Tail(s) \in Seq(Item) /\ Len(Tail(s)) = l - 1 /\ s[1] \in Item
        /\ DOMAIN Tail(s) = 1 .. l - 1
        /\ \A k \in 1 .. l - 1 : Tail(s)[k] = s[k + 1]
    BY <2>1, <2>4, HeadTailProperties, LenProperties, ElementOfSeq
  <2>6. Received' = Received + 1
    <3>1. Received = produced - l /\ Received' = produced - (l - 1)
      BY <1>1, <2>1, <2>2, <2>5 DEF Received, s
    <3> QED BY <1>2, <2>1, <3>1
  <2>7. InHand' /\ Past' = Past
    <3>1. InHand'
      BY <2>2 DEF InHand
    <3>2. Past' = Received' - 1
      BY <3>1 DEF Past
    <3> QED BY <1>2, <2>6, <3>1, <3>2
  <2>8. PipelineTypes'
    BY <1>1, <1>2, <1>3, <2>2, <2>5 DEF PipelineInv, PipelineTypes
  <2>9. ItemsAreNumbered'
    <3>1. s[1].number = Received + 1
      BY <2>1, <2>3
    <3>2. ASSUME NEW k \in 1 .. l - 1 PROVE Tail(s)[k].number = (Received + 1) + k
      <4>1. k + 1 \in 1..l /\ Received + (k + 1) = (Received + 1) + k
        BY <1>2, <2>1
      <4> QED BY <2>3, <2>5, <4>1
    <3> QED BY <1>2, <2>2, <2>5, <2>6, <3>1, <3>2 DEF ItemsAreNumbered
  <2>10. PastIsAnswered'
    BY <1>1, <2>7 DEF PipelineInv, PastIsAnswered
  <2>11. StagesFollowPhase'
    BY <1>1, <2>2 DEF PipelineInv, StagesFollowPhase
  <2> QED BY <2>8, <2>9, <2>10, <2>11 DEF PipelineInv
<1>5. CASE input.items = <<>> /\ ~input.open /\ Enter("cleanup") /\ UNCHANGED <<item, input>>
  <2>1. phase' = "cleanup" /\ InHand' = InHand
    BY <1>2, <1>5 DEF Enter, InHand
  <2>2. PipelineTypes'
    BY <1>1, <1>2, <1>3, <1>5, <2>1 DEF PipelineInv, PipelineTypes
  <2>3. StagesFollowPhase'
    BY <1>1, <1>5, <2>1 DEF PipelineInv, StagesFollowPhase
  <2> QED BY <1>1, <1>5, <2>1, <2>2, <2>3, ItemsUntouched DEF PipelineInv
<1> QED BY <1>4, <1>5 DEF Receive

(* The item at hand goes, and everything received is past.                 *)
LEMMA HandIsEmptied ==
  ASSUME PipelineInv, InHand, ~InHand', UNCHANGED <<input, produced>>
  PROVE  /\ Past \in Nat /\ item.number = Past + 1
         /\ Received' = Received /\ Past' = Past + 1
         /\ ItemsAreNumbered'
<1>1. Received \in Nat /\ Received > 0 /\ item.number = Received
  BY DEF PipelineInv, ItemsAreNumbered
<1>2. Received' = Received
  BY DEF Received
<1>3. Past = Received - 1 /\ Past' = Received
  BY <1>2 DEF Past
<1>4. ItemsAreNumbered'
  BY <1>2 DEF PipelineInv, ItemsAreNumbered
<1> QED BY <1>1, <1>2, <1>3, <1>4

LEMMA SendKeepsInv ==
  ASSUME PipelineInv, Send
  PROVE  PipelineInv'
<1>1. /\ UNCHANGED <<input, ready, produced, failed>>
      /\ phase = "send" /\ phase' \in {"receive", "cleanup"} /\ turn' = 1
  BY DEF Send, Enter
<1>2. InHand /\ ~InHand'
  BY <1>1 DEF InHand
<1>3. /\ Past \in Nat /\ item.number = Past + 1
      /\ Past' = Past + 1 /\ ItemsAreNumbered'
  BY <1>1, <1>2, HandIsEmptied
<1>4. /\ item \in Item /\ output \in [items : Seq(Item), open : BOOLEAN]
      /\ 1 \in 1 .. Len(Stages) + 1
  BY <1>2, StageCount DEF PipelineInv, PipelineTypes
<1>5. PipelineTypes'
  <2>1. output' \in [items : Seq(Item), open : BOOLEAN]
    <3>1. Append(output.items, item) \in Seq(Item)
      BY <1>4, AppendProperties
    <3> QED BY <1>4, <3>1 DEF Send
  <2> QED BY <1>1, <1>2, <1>4, <2>1 DEF PipelineInv, PipelineTypes
<1>6. /\ delivered \in Seq(1..Past) /\ failed \subseteq 1..Past
      /\ \A i, j \in DOMAIN delivered : i < j => delivered[i] < delivered[j]
      /\ Range(delivered) \cap failed = {}
      /\ counted = Len(delivered) + Cardinality(failed)
      /\ output.open => Range(delivered) \cup failed = 1..Past
  BY DEF PipelineInv, PastIsAnswered
<1>7. /\ IsFiniteSet(failed) /\ Cardinality(failed) \in Nat
      /\ Len(delivered) \in Nat
  <2>1. IsFiniteSet(1..Past)
    BY <1>3, FS_Interval
  <2>2. IsFiniteSet(failed)
    BY <1>6, <2>1, FS_Subset
  <2> QED BY <1>6, <2>2, FS_CardinalityType, LenProperties
<1>8. CASE ~output.open /\ Enter("cleanup") /\ UNCHANGED <<output, delivered, counted>>
  <2>1. delivered \in Seq(1 .. Past + 1)
    <3>1. 1..Past \subseteq 1 .. Past + 1
      BY <1>3
    <3> QED BY <1>6, <3>1, SeqMonotonic
  <2>2. failed \subseteq 1 .. Past + 1
    BY <1>3, <1>6
  <2>3. PastIsAnswered'
    BY <1>1, <1>3, <1>6, <1>8, <2>1, <2>2 DEF PastIsAnswered
  <2>4. StagesFollowPhase'
    <3>1. turn'..Len(Stages) = 1..Len(Stages)
      BY <1>1
    <3> QED BY <1>1, <1>8, <3>1 DEF PipelineInv, StagesFollowPhase, Enter
  <2> QED BY <1>3, <1>5, <2>3, <2>4 DEF PipelineInv
<1>9. CASE /\ output.open /\ output' = [output EXCEPT !.items = Append(@, item)]
           /\ delivered' = Append(delivered, item.number)
           /\ counted' = counted + 1 /\ Enter("receive")
  <2>1. /\ delivered' \in Seq(1 .. Past + 1)
        /\ Len(delivered') = Len(delivered) + 1
        /\ \A i, j \in DOMAIN delivered' : i < j => delivered'[i] < delivered'[j]
        /\ Range(delivered') = Range(delivered) \cup {Past + 1}
    BY <1>3, <1>6, <1>9, NextNumber
  <2>2. failed \subseteq 1 .. Past + 1 /\ Past + 1 \notin failed
    BY <1>3, <1>6
  <2>3. Range(delivered') \cup failed = 1 .. Past + 1
    <3>1. (1..Past) \cup {Past + 1} = 1 .. Past + 1
      BY <1>3
    <3> QED BY <1>6, <1>9, <2>1, <3>1
  <2>4. counted' = Len(delivered') + Cardinality(failed)
    BY <1>6, <1>7, <1>9, <2>1
  <2>5. PastIsAnswered'
    BY <1>1, <1>3, <1>6, <2>1, <2>2, <2>3, <2>4 DEF PastIsAnswered
  <2>6. StagesFollowPhase'
    BY <1>1, <1>9 DEF PipelineInv, StagesFollowPhase, Enter
  <2> QED BY <1>3, <1>5, <2>5, <2>6 DEF PipelineInv
<1> QED BY <1>8, <1>9 DEF Send

LEMMA ProcessKeepsInv ==
  ASSUME PipelineInv, Process
  PROVE  PipelineInv'
<1>1. /\ UNCHANGED <<input, output, ready, produced, delivered>>
      /\ phase = "process" /\ InHand
      /\ item \in Item /\ turn \in 1 .. Len(Stages) + 1 /\ 1 \in 1 .. Len(Stages) + 1
  BY StageCount DEF Process, channels, InHand, PipelineInv, PipelineTypes
<1>2. CASE GiveUp
  <2>1. /\ phase' = "receive" /\ turn' = 1 /\ counted' = counted + 1
        /\ failed' = failed \cup {item.number}
    BY <1>2 DEF GiveUp, Enter
  <2>2. ~InHand'
    BY <2>1 DEF InHand
  <2>3. /\ Past \in Nat /\ item.number = Past + 1
        /\ Past' = Past + 1 /\ ItemsAreNumbered'
    BY <1>1, <2>2, HandIsEmptied
  <2>4. /\ delivered \in Seq(1..Past) /\ failed \subseteq 1..Past
        /\ \A i, j \in DOMAIN delivered : i < j => delivered[i] < delivered[j]
        /\ Range(delivered) \cap failed = {}
        /\ counted = Len(delivered) + Cardinality(failed)
        /\ output.open => Range(delivered) \cup failed = 1..Past
    BY DEF PipelineInv, PastIsAnswered
  <2>5. IsFiniteSet(failed)
    <3>1. IsFiniteSet(1..Past)
      BY <2>3, FS_Interval
    <3> QED BY <2>4, <3>1, FS_Subset
  <2>6. Range(delivered) \subseteq 1..Past
    <3>1. delivered \in [1..Len(delivered) -> 1..Past]
      BY <2>4, LenProperties
    <3> QED BY <3>1 DEF Range
  <2>7. Past + 1 \notin 1..Past /\ (1..Past) \cup {Past + 1} = 1 .. Past + 1
    BY <2>3
  <2>8. delivered \in Seq(1 .. Past + 1)
    BY <2>4, <2>7, SeqMonotonic
  <2>9. counted' = Len(delivered) + Cardinality(failed')
    <3>1. Past + 1 \notin failed /\ failed' = failed \cup {Past + 1}
      BY <2>1, <2>3, <2>4, <2>7
    <3>2. Cardinality(failed') = Cardinality(failed) + 1
      BY <2>5, <3>1, FS_AddElement
    <3>3. Cardinality(failed) \in Nat /\ Len(delivered) \in Nat
      BY <2>4, <2>5, FS_CardinalityType, LenProperties
    <3> QED BY <2>1, <2>4, <3>2, <3>3
  <2>10. PastIsAnswered'
    BY <1>1, <2>1, <2>3, <2>4, <2>6, <2>7, <2>8, <2>9 DEF PastIsAnswered
  <2>11. PipelineTypes' /\ StagesFollowPhase'
    BY <1>1, <2>1, <2>2 DEF PipelineInv, PipelineTypes, StagesFollowPhase
  <2> QED BY <2>3, <2>10, <2>11 DEF PipelineInv
<1>3. CASE ~GiveUp
  <2>1. /\ UNCHANGED <<counted, failed>> /\ phase' \in {"process", "send"}
        /\ turn' \in 1 .. Len(Stages) + 1
    BY <1>1, <1>3, StageCount DEF Process, Retry, Enter
  <2>2. item' \in Item /\ item'.number = item.number
    <3>1. ASSUME NEW type \in Possible, turn <= Len(Stages)
          PROVE  type \in ItemTypes
      <4>1. Stages[turn] \in Range(Stages) /\ item.type \in ItemTypes
        BY <1>1, <3>1, StageCount, PipelineAssumption, LenProperties DEF Range, Item
      <4> QED BY <3>1, <4>1, PipelineAssumption DEF Possible
    <3>2. CASE UNCHANGED item
      BY <1>1, <3>2
    <3>3. CASE turn <= Len(Stages) /\ \E type \in Possible : item' = [item EXCEPT !.type = type]
      BY <1>1, <3>1, <3>3 DEF Item
    <3>4. CASE Retry
      BY <1>1, <3>4 DEF Retry, Item
    <3> QED BY <1>3, <3>2, <3>3, <3>4 DEF Process
  <2>3. InHand' /\ Received' = Received /\ Past' = Past
    BY <1>1, <2>1 DEF InHand, Received, Past
  <2>4. PipelineTypes' /\ ItemsAreNumbered'
    BY <1>1, <2>1, <2>2, <2>3 DEF PipelineInv, PipelineTypes, ItemsAreNumbered
  <2>5. PastIsAnswered'
    BY <1>1, <2>1, <2>3 DEF PipelineInv, PastIsAnswered
  <2>6. StagesFollowPhase'
    BY <1>1, <2>1 DEF PipelineInv, StagesFollowPhase
  <2> QED BY <2>4, <2>5, <2>6 DEF PipelineInv
<1> QED BY <1>2, <1>3

LEMMA PipelineStep == PipelineInv /\ [PipelineNext]_pipelineVars => PipelineInv'
<1> SUFFICES ASSUME PipelineInv, [PipelineNext]_pipelineVars PROVE PipelineInv'
  OBVIOUS
<1>1. CASE PipelineNext
  BY <1>1, EndsKeepInv, StagesKeepInv, ReceiveKeepsInv, SendKeepsInv, ProcessKeepsInv
     DEF PipelineNext, ProcessStream
<1>2. CASE UNCHANGED pipelineVars
  BY <1>2 DEF pipelineVars, PipelineInv, PipelineTypes, ItemsAreNumbered, PastIsAnswered,
              StagesFollowPhase, Received, InHand, Past
<1> QED BY <1>1, <1>2

(* However stages fail, time out and are retried, items leave in order, no *)
(* item is both sent on and failed, and a call that returns Ok has cleaned *)
(* up every stage and answered for every item.                             *)
THEOREM ItemsAreSettled == PipelineSpec => []Settled
<1>1. PipelineInv => Settled
  <2> SUFFICES ASSUME PipelineInv PROVE Settled
    OBVIOUS
  <2>1. phase = "ok" /\ output.open => Past = produced
    <3> SUFFICES ASSUME phase = "ok", output.open PROVE Past = produced
      OBVIOUS
    <3>1. Len(input.items) = 0
      BY EmptySeq DEF PipelineInv, StagesFollowPhase
    <3>2. produced \in Nat /\ ~InHand
      BY DEF PipelineInv, PipelineTypes, InHand
    <3> QED BY <3>1, <3>2 DEF Past, Received
  <2> QED BY <2>1 DEF PipelineInv, PastIsAnswered, StagesFollowPhase, Settled
<1> QED BY <1>1, PipelineStarts, PipelineStep, PTL DEF PipelineSpec
=============================================================================
