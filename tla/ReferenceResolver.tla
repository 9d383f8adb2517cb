------------------------- MODULE ReferenceResolver -------------------------
(***************************************************************************)
(* The reference resolver: starting from the nodes the file parser has     *)
(* built, it loads every object they refer to, and the objects those refer *)
(* to in turn, makes one node of each and draws a Reference edge for each  *)
(* reference. Every step charges the shared budget, which may refuse it.   *)
(*                                                                         *)
(* The bytes of an object are abstracted to what loading it gives:         *)
(*   value         an in-use object that parses and is none of the others  *)
(*   number        one that is a non-negative integer                      *)
(*   negative      one that is a negative integer                          *)
(*   stream        one that is a stream whose Length is a reference (a     *)
(*                 Length that does not fit the data counts as no number)  *)
(*   repairable    does not parse, but a value follows the word obj        *)
(*   garbled       does not parse, and no value follows                    *)
(*   missing       has no entry in the cross-reference table               *)
(*   compressed    a good entry of a good object stream                    *)
(*   badContainer  a compressed object that cannot be read                 *)
(*                                                                         *)
(* When the graph of references is complete, later passes go over its      *)
(* nodes and attach parts: colour spaces to pages, encodings and character *)
(* maps to fonts, operators to content streams, scripts to actions. They   *)
(* draw on the same budget, and what a shortage does depends on the part.  *)
(***************************************************************************)
EXTENDS Naturals, Sequences, FiniteSets, SequencesExt, SequenceSelection

CONSTANTS
  Objects,    \* object identifiers
  Documents,  \* the documents to resolve
  Budgets     \* the limits a resolver may have been given

Kinds == {"value", "number", "negative", "stream", "repairable", "garbled",
          "missing", "compressed", "badContainer"}
Leaves  == {"number", "negative", "garbled", "missing"}
Charges == {"objects", "nodes", "edges", "decoded"}

(* The later passes, in their order, and the forms of part that each looks *)
(* for:                                                                    *)
(*   globals   a stream of JBIG2 data that names its globals               *)
(*   colour    a colour space given in place, profiled one with the        *)
(*             reference to an ICC profile, layered one over another in    *)
(*             place, tinted one with an alternate and a tint function,    *)
(*             both in place, and named one that is a reference            *)
(*   direct    a value given in place, indirect one that is a reference,   *)
(*             and cmap a reference to a character map                     *)
(*   content   the data of the node itself, whatever stream it is          *)
Passes == <<"globals", "colours", "fonts", "contents", "scripts">>
FormsOf == [globals |-> {"globals"},
            colours |-> {"colour", "profiled", "layered", "tinted", "named"},
            fonts |-> {"direct", "indirect", "cmap"}, contents |-> {"content"},
            scripts |-> {"direct", "indirect"}]

PartSpec == UNION {[pass : {p}, form : FormsOf[p], of : Objects] :
                      p \in DOMAIN FormsOf \ {"contents"}}

(* roots: the objects the AST has nodes for when resolve_references begins *)
(* refs: the references in a value, in the order they are collected        *)
(* parts: what the later passes find in a value                            *)
(* operators: how many there are in a stream as a content stream, or       *)
(*            nothing when the stream does not decode or parse             *)
Document == [kind      : [Objects -> Kinds],
             refs      : [Objects -> Seq(Objects)],
             length    : [Objects -> Objects],
             roots     : Seq(Objects),
             parts     : [Objects -> Seq(PartSpec)],
             operators : [Objects -> Nat]]

ASSUME DocumentAssumption ==
  /\ Documents \subseteq Document
  /\ \A d \in Documents, o \in Objects :
       /\ d.kind[o] \in Leaves => d.refs[o] = <<>> /\ d.parts[o] = <<>>
       /\ d.kind[o] = "stream" => \E i \in DOMAIN d.refs[o] : d.refs[o][i] = d.length[o]

ASSUME BudgetAssumption == Budgets \subseteq [Charges -> Nat]

(* A reference always holds the identifier of some object.                 *)
ASSUME ObjectsAssumption == Objects # {}

VARIABLES
  document,      \* what the file holds
  tolerant,
  limit,         \* limits of the budget
  charged,       \* counters of the budget
  stopped,       \* the budget is cancelled or its deadline has passed
  pc,            \* the next step of resolve_references
  pending,       \* pending_references: who refers, and to what
  reference,     \* the reference being resolved
  nodes,         \* nodes of the AST, in creation order
  objectToNode,  \* object_to_node; its keys are the members of resolved_objects
  edges,         \* Reference edges, in creation order
  lengths,       \* stream nodes whose Length has been replaced by its value
  dropped,       \* history: references given up with a warning
  parts,         \* what the later passes still have to do
  derived,       \* nodes the later passes have made, in creation order
  shared,        \* edges of the later passes to nodes of objects
  skipped        \* history: parts given up without an error

input == <<document, tolerant, limit>>
graph == <<nodes, objectToNode, edges, lengths>>
later == <<parts, derived, shared, skipped>>
vars  == <<document, tolerant, limit, charged, stopped, pc, pending, reference,
           nodes, objectToNode, edges, lengths, dropped,
           parts, derived, shared, skipped>>

Reference(n, o) == [from |-> n, to |-> o]

(* collect_references_from_node                                            *)
Collect(n, o) == [i \in DOMAIN document.refs[o] |-> Reference(n, document.refs[o][i])]

(* The first pass collects the references of the nodes that exist.         *)
Init ==
  /\ document \in Documents
  /\ tolerant \in BOOLEAN
  /\ limit \in Budgets
  /\ charged = [c \in Charges |-> 0]
  /\ stopped = FALSE
  /\ pc = "next"
  /\ pending = FlattenSeq([n \in DOMAIN document.roots |-> Collect(n, document.roots[n])])
  /\ reference = Reference(0, CHOOSE o \in Objects : TRUE)
  /\ nodes = document.roots
  /\ objectToNode = [o \in {} |-> 0]
  /\ edges = <<>>
  /\ lengths = {}
  /\ dropped = <<>>
  /\ parts = <<>>
  /\ derived = <<>>
  /\ shared = <<>>
  /\ skipped = <<>>

kind(o) == document.kind[o]
-----------------------------------------------------------------------------
(* The budget                                                              *)

Stop ==
  /\ ~stopped
  /\ pc \notin {"done", "failed"}
  /\ stopped' = TRUE
  /\ UNCHANGED <<input, charged, pc, pending, reference, graph, dropped, later>>

AffordsOneMore(c) == ~stopped /\ charged[c] <= limit[c]

Affords(c) == ~stopped /\ charged[c] < limit[c]

Charge(c) ==
  /\ Affords(c)
  /\ charged' = [charged EXCEPT ![c] = @ + 1]
-----------------------------------------------------------------------------
(* The loop of resolve_references                                          *)

Goto(place) == pc' = place

DropAndRetry ==
  /\ Goto("next")
  /\ pending' = Append(pending, reference)
  /\ UNCHANGED <<input, stopped, reference, graph, dropped, later>>

(* An error of resolve_object is a warning; the loop goes on.              *)
Drop ==
  /\ Goto("next")
  /\ dropped' = Append(dropped, reference)
  /\ UNCHANGED <<input, stopped, pending, reference, graph, later>>

Proceed(place) ==
  /\ Goto(place)
  /\ UNCHANGED <<input, stopped, pending, reference, graph, dropped, later>>

Abort ==
  /\ Goto("failed")
  /\ UNCHANGED <<input, stopped, pending, reference, graph, dropped, later>>

Fail == Abort /\ UNCHANGED charged

PopIgnoringMap ==
  /\ pc = "next"
  /\ pending # <<>>
  /\ \/ stopped /\ Fail
     \/ /\ ~stopped
        /\ reference' = Head(pending)
        /\ pending' = Tail(pending)
        /\ Goto("object")
        /\ UNCHANGED <<input, charged, stopped, graph, dropped, later>>

PopIgnoringBudget ==
  /\ pc = "next"
  /\ pending # <<>>
  /\ reference' = Head(pending)
  /\ pending' = Tail(pending)
  /\ Goto(IF Head(pending).to \in DOMAIN objectToNode THEN "edge" ELSE "object")
  /\ UNCHANGED <<input, charged, stopped, graph, dropped, later>>

Pop ==
  /\ pc = "next"
  /\ pending # <<>>
  /\ \/ stopped /\ Fail
     \/ /\ ~stopped
        /\ reference' = Head(pending)
        /\ pending' = Tail(pending)
        /\ Goto(IF Head(pending).to \in DOMAIN objectToNode THEN "edge" ELSE "object")
        /\ UNCHANGED <<input, charged, stopped, graph, dropped, later>>
-----------------------------------------------------------------------------
(* resolve_object                                                          *)

ConsumeObject ==
  /\ pc = "object"
  /\ \/ Charge("objects") /\ Proceed("read")
     \/ ~Affords("objects") /\ UNCHANGED charged /\ Drop

(* A repair is made in tolerant mode only.                                 *)
Repair ==
  \/ tolerant /\ Proceed("node")
  \/ ~tolerant /\ Drop

ReadObject ==
  /\ pc = "read"
  /\ UNCHANGED charged
  /\ \/ kind(reference.to) \in {"value", "number", "negative"} /\ Proceed("node")
     \/ kind(reference.to) \in {"repairable", "garbled", "missing"} /\ Repair

(* load_object_value reads the Length, which costs another object; without *)
(* it the end of the stream is searched for, in tolerant mode.             *)
ReadStream ==
  LET isLength == kind(document.length[reference.to]) = "number" IN
  /\ pc = "read"
  /\ kind(reference.to) = "stream"
  /\ \/ Charge("objects") /\ isLength /\ Proceed("node")
     \/ Charge("objects") /\ ~isLength /\ Repair
     \/ ~Affords("objects") /\ UNCHANGED charged /\ Repair

(* The object stream is decoded again for each of its objects.             *)
ReadCompressed ==
  /\ pc = "read"
  /\ \/ kind(reference.to) = "compressed" /\ Charge("decoded") /\ Proceed("node")
     \/ kind(reference.to) = "compressed" /\ ~Affords("decoded")
          /\ UNCHANGED charged /\ Drop
     \/ kind(reference.to) = "badContainer"
          /\ (Charge("decoded") \/ UNCHANGED charged) /\ Drop

AddNode(o) ==
  /\ nodes' = Append(nodes, o)
  /\ Goto("edge")
  /\ UNCHANGED <<input, stopped, reference, edges, lengths, dropped,
                 later>>

CreateNodeWithoutCollecting ==
  /\ pc = "node"
  /\ \/ /\ Charge("nodes")
        /\ AddNode(reference.to)
        /\ objectToNode' = [o \in DOMAIN objectToNode \cup {reference.to} |->
             IF o = reference.to THEN Len(nodes) + 1 ELSE objectToNode[o]]
        /\ UNCHANGED pending
     \/ ~Affords("nodes") /\ UNCHANGED charged /\ Drop

(* create_node; then the loop registers the node and queues the references *)
(* in its value.                                                           *)
CreateNode ==
  /\ pc = "node"
  /\ \/ /\ Charge("nodes")
        /\ AddNode(reference.to)
        /\ objectToNode' = [o \in DOMAIN objectToNode \cup {reference.to} |->
             IF o = reference.to THEN Len(nodes) + 1 ELSE objectToNode[o]]
        /\ pending' = pending \o Collect(Len(nodes) + 1, reference.to)
     \/ ~Affords("nodes") /\ UNCHANGED charged /\ Drop
-----------------------------------------------------------------------------
(* The loop charges the edge, and add_edge charges it again.               *)

ChargeEdgeOrDrop ==
  /\ pc = "edge"
  /\ \/ Charge("edges") /\ Proceed("link")
     \/ ~Affords("edges") /\ UNCHANGED charged /\ Drop

ChargeEdge ==
  /\ pc = "edge"
  /\ \/ Charge("edges") /\ Proceed("link")
     \/ ~Affords("edges") /\ Fail

AddEdgeUncharged ==
  /\ pc = "link"
  /\ edges' = Append(edges, <<reference.from, objectToNode[reference.to]>>)
  /\ Goto("next")
  /\ UNCHANGED <<input, charged, stopped, pending, reference, nodes, objectToNode,
                 lengths, dropped, later>>

AddEdge ==
  /\ pc = "link"
  /\ \/ /\ Charge("edges")
        /\ edges' = Append(edges, <<reference.from, objectToNode[reference.to]>>)
        /\ Goto("next")
        /\ UNCHANGED <<input, stopped, pending, reference, nodes, objectToNode,
                       lengths, dropped, later>>
     \/ ~Affords("edges") /\ Fail
-----------------------------------------------------------------------------
(* resolve_stream_lengths: a negative Length is an error in both modes.    *)

StreamsWithLength(k) ==
  {n \in DOMAIN nodes : kind(nodes[n]) = "stream" /\ kind(document.length[nodes[n]]) = k}

(* What the later passes find in the nodes that exist now. The file parser *)
(* has attached the scripts of its own nodes. A step of a part is a stage: *)
(* load a value, decode data, make a node, make that of its tint function, *)
(* attach it, or share a node. Its node is below the one that under names, *)
(* a colour space, or below that of the value.                             *)
Stage(form) ==
  CASE form \in {"colour", "profiled", "layered", "tinted", "base", "direct"} -> "make"
    [] form \in {"indirect", "cmap"}   -> "load"
    [] form \in {"content", "profile"} -> "decode"
    [] form \in {"named", "borrowed"}  -> "share"
    [] OTHER                           -> "globals"

Part(n, pass, form, o) ==
  [node |-> n, pass |-> pass, form |-> form, of |-> o, stage |-> Stage(form),
   null |-> FALSE, under |-> 0, made |-> 0]

PartsOf(n, pass) ==
  LET found  == document.parts[nodes[n]]
      wanted == ElementsAt(found, {i \in DOMAIN found :
        found[i].pass = pass /\ (pass = "scripts" => n > Len(document.roots))})
  IN IF pass = "contents" /\ kind(nodes[n]) = "stream"
     THEN <<Part(n, pass, "content", nodes[n])>>
     ELSE [i \in DOMAIN wanted |-> Part(n, pass, wanted[i].form, wanted[i].of)]

AllParts ==
  FlattenSeq([p \in DOMAIN Passes |->
    FlattenSeq([n \in DOMAIN nodes |-> PartsOf(n, Passes[p])])])

ResolveStreamLengths ==
  /\ pc = "next"
  /\ pending = <<>>
  /\ \/ StreamsWithLength("negative") # {} /\ Fail
     \/ /\ StreamsWithLength("negative") = {}
        /\ lengths' = StreamsWithLength("number")
        /\ parts' = AllParts
        /\ Goto("passes")
        /\ UNCHANGED <<input, charged, stopped, pending, reference, nodes,
                       objectToNode, edges, dropped, derived, shared, skipped>>
-----------------------------------------------------------------------------
(* The later passes                                                        *)

This == Head(parts)
At(stage) == pc = "passes" /\ parts # <<>> /\ This.stage = stage

(* The parts that are to be done in place of this one                      *)
Continue(first) ==
  /\ parts' = first \o Tail(parts)
  /\ UNCHANGED <<input, stopped, pc, pending, reference, graph, dropped>>

Skip == /\ Continue(<<>>)
        /\ skipped' = Append(skipped, This)
        /\ UNCHANGED <<derived, shared>>

GoOn(stage) == /\ Continue(<<[This EXCEPT !.stage = stage]>>)
               /\ UNCHANGED <<derived, shared, skipped>>

IsStreamNode(o) == o \in DOMAIN objectToNode /\ kind(o) = "stream"

(* resolve_jbig2_globals puts the globals in, decoded if they can be.      *)
PutGlobals ==
  /\ At("globals")
  /\ \/ IsStreamNode(This.of) /\ Charge("decoded")
     \/ UNCHANGED charged
  /\ Continue(<<>>)
  /\ UNCHANGED <<derived, shared, skipped>>

(* load_object_value reads what the cross-reference table has an offset    *)
(* for; it does not look for a node that has the value.                    *)
HasValue(o) == kind(o) \in {"value", "number", "negative", "stream"}

LoadPart ==
  /\ At("load")
  /\ \/ /\ Charge("objects")
        /\ HasValue(This.of)
        /\ GoOn(IF This.form = "cmap" /\ kind(This.of) = "stream" THEN "decode" ELSE "make")
     \/ /\ \/ Charge("objects") /\ ~HasValue(This.of)
           \/ ~Affords("objects") /\ UNCHANGED charged
        /\ tolerant
        /\ Continue(<<[This EXCEPT !.stage = "make", !.null = TRUE]>>)
        /\ UNCHANGED <<derived, shared, skipped>>
     \/ /\ \/ Charge("objects") /\ ~HasValue(This.of)
           \/ ~Affords("objects") /\ UNCHANGED charged
        /\ ~tolerant
        /\ Abort

DecodePart ==
  /\ At("decode")
  /\ \/ /\ This.form = "profile" => IsStreamNode(This.of)
        /\ document.operators[This.of] > 0
        /\ Charge("decoded")
        /\ IF This.form = "content"
           THEN /\ Continue([i \in 1..document.operators[This.of] |->
                               [This EXCEPT !.stage = "make"]])
                /\ UNCHANGED <<derived, shared, skipped>>
           ELSE GoOn("make")
     \/ /\ \/ This.form = "profile" /\ ~IsStreamNode(This.of)
           \/ document.operators[This.of] = 0
           \/ ~Affords("decoded")
        /\ UNCHANGED charged
        /\ Skip
     \/ document.operators[This.of] = 0 /\ Charge("decoded") /\ Skip

Derive(part) ==
  derived' = Append(derived, [form |-> part.form, null |-> part.null, of |-> part.of,
                              under |-> part.under, attached |-> FALSE])

(* The parsers of colour spaces and character maps give up quietly when    *)
(* there is no node left for them; the resolver itself fails.              *)
GivesUpQuietly == This.pass = "colours"
                    \/ (This.form = "cmap" /\ kind(This.of) = "stream" /\ ~This.null)

(* What is below a colour space comes between its node and its edge.       *)
MakePart ==
  LET new         == Len(derived) + 1
      below(form) == [Part(This.node, This.pass, form, This.of) EXCEPT !.under = new]
      made(stage) == [This EXCEPT !.stage = stage, !.made = new] IN
  /\ At("make")
  /\ \/ /\ Charge("nodes")
        /\ Derive(This)
        /\ Continue(CASE This.form = "profiled" ->
                           <<below("borrowed"), below("profile"), made("attach")>>
                      [] This.form = "layered" -> <<below("base"), made("attach")>>
                      [] This.form = "tinted"  -> <<below("base"), made("tint")>>
                      [] OTHER                 -> <<made("attach")>>)
        /\ UNCHANGED <<shared, skipped>>
     \/ ~Affords("nodes") /\ GivesUpQuietly /\ UNCHANGED charged /\ Skip
     \/ ~Affords("nodes") /\ ~GivesUpQuietly /\ Fail

(* A Separation or DeviceN space without a node for its tint function is   *)
(* given up, after its own node has been made.                             *)
MakeTint ==
  LET tint == [This EXCEPT !.form = "tint", !.stage = "attach",
                           !.under = This.made, !.made = Len(derived) + 1] IN
  /\ At("tint")
  /\ \/ /\ Charge("nodes")
        /\ Derive(tint)
        /\ Continue(<<tint, [This EXCEPT !.stage = "attach"]>>)
        /\ UNCHANGED <<shared, skipped>>
     \/ ~Affords("nodes") /\ UNCHANGED charged /\ Skip

(* The parser of colour spaces goes on without an edge that is refused.    *)
AttachPart ==
  /\ At("attach")
  /\ \/ /\ Charge("edges")
        /\ Continue(<<>>)
        /\ derived' = [derived EXCEPT ![This.made].attached = TRUE]
        /\ UNCHANGED <<shared, skipped>>
     \/ ~Affords("edges") /\ This.under # 0 /\ UNCHANGED charged /\ Skip
     \/ ~Affords("edges") /\ This.under = 0 /\ Fail

(* A colour space that is a reference makes its node one of type           *)
(* ColorSpace, which hides it from the passes that look for other types.   *)
Hides(part) ==
  /\ This.form = "named"
  /\ part.node = objectToNode[This.of]
  /\ part.pass \in {"fonts", "contents"} \/ (part.pass = "colours" /\ part.node # This.node)

SharePart ==
  LET rest   == Tail(parts)
      hidden == {i \in DOMAIN rest : Hides(rest[i])} IN
  /\ At("share")
  /\ \/ /\ This.of \in DOMAIN objectToNode
        /\ Charge("edges")
        /\ shared' = Append(shared, <<This.node, objectToNode[This.of]>>)
        /\ parts' = ElementsAt(rest, DOMAIN rest \ hidden)
        /\ skipped' = skipped \o ElementsAt(rest, hidden)
        /\ UNCHANGED <<input, stopped, pc, pending, reference, graph, dropped, derived>>
     \/ /\ \/ This.of \notin DOMAIN objectToNode
           \/ ~Affords("edges") /\ This.form = "borrowed"
        /\ UNCHANGED charged
        /\ Skip
     \/ /\ This.of \in DOMAIN objectToNode
        /\ ~Affords("edges")
        /\ This.form = "named"
        /\ Fail

EndPasses ==
  /\ pc = "passes"
  /\ parts = <<>>
  /\ UNCHANGED charged
  /\ Proceed("done")
-----------------------------------------------------------------------------
Step == \/ Pop \/ ConsumeObject \/ ReadObject \/ ReadStream \/ ReadCompressed
        \/ CreateNode \/ ChargeEdge \/ AddEdge \/ ResolveStreamLengths
        \/ PutGlobals \/ LoadPart \/ DecodePart \/ MakePart \/ MakeTint
        \/ AttachPart \/ SharePart \/ EndPasses

Next == Step \/ Stop

(* One thread runs the resolver; nothing makes it wait.                    *)
Spec == Init /\ [][Next]_vars /\ WF_vars(Step)
-----------------------------------------------------------------------------
(* Properties                                                              *)

Places == {"next", "object", "read", "node", "edge", "link", "passes", "done", "failed"}
Refers == [from : Nat, to : Objects]

(* Types; no counter of the budget leaves its limit.                       *)
TypeOK ==
  /\ document \in Documents
  /\ tolerant \in BOOLEAN
  /\ limit \in Budgets
  /\ charged \in [Charges -> Nat]
  /\ \A c \in Charges : charged[c] <= limit[c]
  /\ stopped \in BOOLEAN
  /\ pc \in Places
  /\ pending \in Seq(Refers)
  /\ reference \in Refers
  /\ nodes \in Seq(Objects)
  /\ DOMAIN objectToNode \subseteq Objects
  /\ objectToNode \in [DOMAIN objectToNode -> DOMAIN nodes]
  /\ edges \in Seq((DOMAIN nodes) \X (DOMAIN nodes))
  /\ lengths \subseteq DOMAIN nodes
  /\ dropped \in Seq(Refers)
  /\ \A i \in DOMAIN parts : parts[i].node \in DOMAIN nodes /\ parts[i].made \in 0..Len(derived)
  /\ shared \in Seq((DOMAIN nodes) \X (DOMAIN nodes))

Made == {n \in DOMAIN nodes : n > Len(document.roots)}

(* However often and from however many places an object is referred to, in *)
(* cycles too, resolve_object makes one node for it, the one that          *)
(* object_to_node names, and only because an earlier node refers to it.    *)
OneNodePerObject ==
  /\ \A n \in Made : /\ nodes[n] \in DOMAIN objectToNode
                     /\ objectToNode[nodes[n]] = n
                     /\ \E m \in 1..(n - 1) : \E i \in DOMAIN document.refs[nodes[m]] :
                          document.refs[nodes[m]][i] = nodes[n]
  /\ \A o \in DOMAIN objectToNode : objectToNode[o] \in Made /\ nodes[objectToNode[o]] = o

Count(s, Test(_)) == Cardinality({i \in DOMAIN s : Test(s[i])})

InFlight(n, o) ==
  IF pc \in {"object", "read", "node", "edge", "link"} /\ reference = Reference(n, o)
  THEN 1 ELSE 0

Linked(n, o)  == Count(edges, LAMBDA e : e[1] = n /\ nodes[e[2]] = o)
Waiting(n, o) == Count(pending, LAMBDA r : r = Reference(n, o))
Lost(n, o)    == Count(dropped, LAMBDA r : r = Reference(n, o))

(* The work list neither forgets nor repeats a reference: each one in the  *)
(* value of a node has its edge, is waiting, is being resolved, or was     *)
(* given up with a warning; a failed run has lost the one it failed on.    *)
ReferencesConserved ==
  \A n \in DOMAIN nodes, o \in Objects :
    LET refs == Count(document.refs[nodes[n]], LAMBDA p : p = o)
        all  == Linked(n, o) + Waiting(n, o) + Lost(n, o) + InFlight(n, o) IN
    all = refs \/ (pc = "failed" /\ all + 1 = refs /\ reference = Reference(n, o))

Attached == Count(derived, LAMBDA d : d.attached)

Short(c) == stopped \/ charged[c] = limit[c]

(* The budget accounts for the whole graph, whichever pass a node or an    *)
(* edge comes from and wherever a pass gives up: every node is charged     *)
(* once, an edge twice if it is a Reference and once otherwise, and every  *)
(* node of an object has cost an object. A node that a pass has made gets  *)
(* its edge or still waits for it, a failed run with the one it failed on. *)
(* It is left behind for two reasons only: it is of a Separation or        *)
(* DeviceN space that was given up because there was no node for its tint  *)
(* function; or it is below a colour space that is not attached, and never *)
(* will be, because the edges have run out. So when an Ok leaves a node    *)
(* alone, there is such a space, and nodes have run out.                   *)
BudgetCoversGraph ==
  /\ charged["nodes"] = Cardinality(Made) + Len(derived)
  /\ charged["edges"] - 2 * Len(edges) - Attached - Len(shared) \in {0, 1}
  /\ charged["objects"] >= Cardinality(Made)
  /\ \A i \in DOMAIN derived :
       \/ derived[i].attached
       \/ pc # "done" /\ \E k \in DOMAIN parts : parts[k].made = i
       \/ derived[i].form = "tinted" /\ Short("nodes")
       \/ /\ derived[i].under \in 1..(i - 1)
          /\ ~derived[derived[i].under].attached
          /\ Short("edges")

(* An object that could not be loaded for one referrer is never linked for *)
(* another: although it is tried again each time, whatever refused it      *)
(* refuses it for good.                                                    *)
FailuresArePermanent ==
  \A i \in DOMAIN dropped : dropped[i].to \notin DOMAIN objectToNode

Repairable(o) ==
  \/ kind(o) \in {"repairable", "garbled", "missing"}
  \/ kind(o) = "stream" /\ kind(document.length[o]) # "number"

ReferenceExcused(i) ==
  \/ kind(dropped[i].to) = "badContainer"
  \/ ~tolerant /\ Repairable(dropped[i].to)
  \/ \E c \in Charges : charged[c] = limit[c]
  \/ stopped /\ i = Len(dropped)

(* A part without a trace: its data do not decode or parse, it refers to   *)
(* an object without a node, another part has hidden it, or a limit.       *)
PartExcused(p) ==
  \/ p.form \in {"content", "cmap", "profile"} /\ document.operators[p.of] = 0
  \/ p.form \in {"named", "borrowed"} /\ p.of \notin DOMAIN objectToNode
  \/ p.form = "profile" /\ ~IsStreamNode(p.of)
  \/ \E i \in DOMAIN shared : shared[i][2] = p.node
  \/ \E c \in {"decoded", "nodes", "edges"} : Short(c)

(* When resolve_references returns Ok, each reference without an edge has  *)
(* a reason: its object is in a container that cannot be read, or needs a  *)
(* repair that strict mode does not make, or a limit has been reached, or  *)
(* the budget was stopped while the last reference was being resolved, too *)
(* late for the loop to notice. So has each part that is not there, and    *)
(* each that has Null for its value: in a tolerant parse, one that cannot  *)
(* be loaded a second time, as everything that is in an object stream. And *)
(* when it fails, an error that a tolerant parse hides, it is because of a *)
(* limit, a negative Length or, in a strict one, such a value.             *)
LossesAreExplained ==
  /\ pc = "done" =>
       /\ \A i \in DOMAIN dropped : ReferenceExcused(i)
       /\ \A i \in DOMAIN skipped : PartExcused(skipped[i])
       /\ \A i \in DOMAIN derived : derived[i].null =>
            tolerant /\ (Short("objects") \/ ~HasValue(derived[i].of))
  /\ pc = "failed" =>
       \/ Short("nodes") \/ Short("edges")
       \/ StreamsWithLength("negative") # {}
       \/ ~tolerant /\ parts # <<>> /\ (Short("objects") \/ ~HasValue(This.of))

(* References in cycles, and objects that are tried again and again, do    *)
(* not keep the resolver from returning.                                   *)
Terminates == <>(pc \in {"done", "failed"})

(* "Creates a strict PDF parser that rejects malformed documents": when a  *)
(* strict run succeeds, no object it met was malformed.                    *)
StrictRejectsMalformed ==
  pc = "done" /\ ~tolerant =>
    \A i \in DOMAIN dropped : kind(dropped[i].to) \notin {"repairable", "garbled", "badContainer"}
=============================================================================
