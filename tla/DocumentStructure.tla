------------------------- MODULE DocumentStructure -------------------------
(***************************************************************************)
(* parse_document_structure of the file parser: it loads the catalog and,  *)
(* from there, actions, names, XMP metadata, the form and its fields, the  *)
(* page tree with its annotations, and the information dictionary, and     *)
(* puts a node for each into the AST. Objects come from load_object, one   *)
(* call at a time, with whatever that substitutes for what is damaged.     *)
(*                                                                         *)
(* The walks are depth-first and do nothing on their way back, so what the *)
(* code keeps on the call stack, and on the explicit stack of              *)
(* parse_page_tree, is here one list of tasks, the next one last. Nodes    *)
(* and edges are numbered as they are added, as the ids of the AST are.    *)
(***************************************************************************)
EXTENDS ObjectLoader, SequenceSelection

CONSTANTS
  MaxNodes, MaxEdges,   \* the node and edge budgets
  MaxFieldDepth,        \* MAX_FORM_FIELD_DEPTH
  MaxEntries            \* bound on the namespaces and properties of an XMP packet

ASSUME StructureAssumption ==
  /\ MaxNodes \in Nat
  /\ MaxEdges \in Nat
  /\ MaxFieldDepth \in Nat
  /\ MaxEntries \in Nat

(* A document also has a root and, as sequences of references that may be  *)
(* empty, what its catalog and its other dictionaries refer to. A value    *)
(* that is "plain" is a dictionary here.                                   *)
Lists == Seq(Objects)

ASSUME ContentsAssumption ==
  \A d \in Documents :
    /\ d.root \in Objects
    /\ d.open \in Lists /\ d.names \in Lists /\ d.xmp \in Lists
    /\ d.form \in Lists                \* an AcroForm that is a reference
    /\ d.fields \in Lists              \* Fields of one that is not
    /\ d.dss \in Lists /\ d.pages \in Lists /\ d.info \in Lists
    /\ d.leaves \subseteq Objects       \* dictionaries of type Page
    /\ d.kids \in [Objects -> Lists]    \* Kids of pages and fields, Fields of
                                        \* a form, entries of the names
    /\ d.resources \in [Objects -> Lists]
    /\ d.actions \in [Objects -> Lists] \* A and AA; Next of an action
    /\ d.annots \in [Objects -> Lists]
    /\ d.scripts \in [Objects -> Lists] \* JS of an action
    /\ d.media \in [Objects -> Lists]   \* RichMediaContent and so on

VARIABLES
  pc,      \* "take", "loading", "resources", "done" or "error"
  todo,    \* tasks that are left, the next one last
  task,    \* the task in progress
  visited, \* pages the tree walk has come to
  nodes,   \* the nodes of the AST
  edges    \* its edges

structure == <<pc, todo, task, visited, nodes, edges>>
allVars   == <<vars, structure>>

Task(do, o, parent, d) == [do |-> do, obj |-> o, parent |-> parent, depth |-> d]
Tasks(do, list, parent, d) == [i \in DOMAIN list |-> Task(do, list[i], parent, d)]

StructureInit ==
  /\ Init
  /\ pc = "take"
  /\ task = Task("catalog", doc.root, 0, 0)
  /\ todo = Reverse(<<task>> \o Tasks("loose", doc.info, 0, 0))
  /\ visited = {}
  /\ nodes = <<>>
  /\ edges = <<>>
-----------------------------------------------------------------------------
(* Building the AST                                                        *)

Abort == pc' = "error" /\ todo' = <<>>

(* The task is done; these come next, before those that waited already. A  *)
(* task that loads nothing is still on the list.                           *)
LoadsNothing == {"form", "packet", "entry"}
Waiting == IF pc = "take" THEN Front(todo) ELSE todo
Go(list) == pc' = "take" /\ todo' = Waiting \o Reverse(list)

Added == Len(nodes) + 1

(* add_to_ast and add_edge for task t, each of which may be beyond its     *)
(* budget                                                                  *)
AddFor(t, type, link, list) ==
  /\ task' = t
  /\ UNCHANGED visited
  /\ IF stopped \/ Len(nodes) >= MaxNodes
     THEN Abort /\ UNCHANGED <<nodes, edges>>
     ELSE /\ nodes' = Append(nodes, [type |-> type, obj |-> t.obj])
          /\ IF link = "none"
             THEN Go(list) /\ UNCHANGED edges
             ELSE IF Len(edges) >= MaxEdges
             THEN Abort /\ UNCHANGED edges
             ELSE /\ edges' = Append(edges, [from |-> t.parent, to |-> Added,
                                             type |-> link])
                  /\ Go(list)

Add(type, link, list) == AddFor(task, type, link, list)

SkipFatally == Abort /\ UNCHANGED <<task, visited, nodes, edges>>
SkipForNow == /\ pc' = "take" /\ todo' = <<task>> \o todo
              /\ UNCHANGED <<task, visited, nodes, edges>>

(* A value of the wrong type is left out.                                  *)
Skip == Go(<<>>) /\ UNCHANGED <<task, visited, nodes, edges>>
-----------------------------------------------------------------------------
(* Taking a task                                                           *)

Visited(o) == o \in visited

(* A page that was visited, or a field that is too deep, is left out.      *)
Refused(t) == \/ t.do = "page" /\ Visited(t.obj)
              \/ t.do = "field" /\ t.depth > MaxFieldDepth

Take ==
  /\ pc = "take"
  /\ todo # <<>>
  /\ LET t == Last(todo)
     IN /\ t.do \notin LoadsNothing
        /\ todo' = Front(todo)
        /\ \/ Refused(t) /\ UNCHANGED <<vars, pc, task, visited>>
           \/ /\ ~Refused(t)
              /\ Call(t.obj)
              /\ pc' = "loading"
              /\ task' = t
              /\ visited' = IF t.do = "page" THEN visited \cup {t.obj} ELSE visited
  /\ UNCHANGED <<nodes, edges>>

(* A form that is a dictionary in the catalog, whose Fields array is level *)
(* 0; the packet of the XMP metadata, with what namespaces and properties  *)
(* it has; and these.                                                      *)
TakeDirect ==
  /\ pc = "take"
  /\ todo # <<>>
  /\ LET t == Last(todo)
     IN \/ /\ t.do = "form"
           /\ AddFor(t, "form", "child", Tasks("field", doc.fields, Added, 1))
        \/ /\ t.do = "packet"
           /\ \E n \in 0..MaxEntries :
                AddFor(t, "packet", "child",
                       [i \in 1..n |-> Task("entry", t.obj, Added, 0)])
        \/ t.do = "entry" /\ AddFor(t, "entry", "child", <<>>)
  /\ UNCHANGED vars

Finish ==
  /\ pc = "take"
  /\ todo = <<>>
  /\ pc' = "done"
  /\ UNCHANGED <<vars, todo, task, visited, nodes, edges>>
-----------------------------------------------------------------------------
(* Using what was loaded                                                   *)

Loaded(what) == pc = "loading" /\ stack = <<>> /\ task.do = what /\ result.ok
IsDict == result.value = "plain"

(* The error of a load goes up to parse, in both modes.                    *)
LoadFailed ==
  /\ pc \in {"loading", "resources"}
  /\ stack = <<>>
  /\ ~result.ok
  /\ Abort
  /\ UNCHANGED <<vars, task, visited, nodes, edges>>

Catalog ==
  /\ Loaded("catalog")
  /\ Add("catalog", "none",
         IF ~IsDict THEN <<>>
         ELSE Tasks("open", doc.open, Added, 0)
                \o Tasks("action", doc.actions[task.obj], Added, 0)
                \o Tasks("names", doc.names, Added, 0)
                \o Tasks("xmp", doc.xmp, Added, 0)
                \o (IF doc.form # <<>> THEN Tasks("formref", doc.form, Added, 0)
                    ELSE IF doc.fields = <<>> THEN <<>>
                    ELSE <<Task("form", doc.root, Added, 0)>>)
                \o Tasks("probe", doc.dss, Added, 0)
                \o Tasks("page", doc.pages, Added, 0))
  /\ UNCHANGED vars

(* The open action and scripts get a node whatever they are; so do the     *)
(* information dictionary and embedded files, without an edge.             *)
Whatever ==
  /\ \/ Loaded("open") /\ Add("action", "reference", <<>>)
     \/ Loaded("script") /\ Add("script", "child", <<>>)
     \/ Loaded("loose") /\ Add("loose", "none", <<>>)
     \/ Loaded("probe") /\ Skip
  /\ UNCHANGED vars

(* The embedded files and scripts of the names                             *)
NamesDictionary ==
  /\ Loaded("names")
  /\ IF IsDict
     THEN /\ Go(Tasks("loose", doc.kids[task.obj], 0, 0))
          /\ UNCHANGED <<task, visited, nodes, edges>>
     ELSE Skip
  /\ UNCHANGED vars

(* A metadata stream has a packet if it decodes and parses.                *)
XmpStream ==
  /\ Loaded("xmp")
  /\ IF result.value \in {"stream", "observed", "cut"}
     THEN \E list \in {<<>>, <<Task("packet", task.obj, Added, 0)>>} :
            Add("xmp", "child", list)
     ELSE Skip
  /\ UNCHANGED vars

Form ==
  /\ Loaded("formref")
  /\ IF IsDict
     THEN Add("form", "child", Tasks("field", doc.kids[task.obj], Added, 1)
                                 \o Tasks("action", doc.actions[task.obj], Added, 0))
     ELSE Skip
  /\ UNCHANGED vars

(* A page with a reference for its Resources loads these first.            *)
Page ==
  /\ Loaded("page")
  /\ \/ ~IsDict /\ Skip /\ UNCHANGED vars
     \/ /\ IsDict
        /\ doc.resources[task.obj] # <<>>
        /\ Call(doc.resources[task.obj][1])
        /\ pc' = "resources"
        /\ UNCHANGED <<todo, task, visited, nodes, edges>>
     \/ /\ IsDict
        /\ doc.resources[task.obj] = <<>>
        /\ pc' = "resources"
        /\ UNCHANGED <<vars, todo, task, visited, nodes, edges>>

KidsInOrder(o)  == Tasks("page", doc.kids[o], Added, 0)

(* Kids are pushed in order, so the last is walked first; a page's actions *)
(* and annotations are walked at once.                                     *)
KidsPushed(o) == Reverse(KidsInOrder(o))

AddPage ==
  /\ pc = "resources"
  /\ stack = <<>>
  /\ result.ok
  /\ Add("page", "child",
         (IF task.obj \notin doc.leaves THEN <<>>
          ELSE Tasks("action", doc.actions[task.obj], Added, 0)
                 \o Tasks("annot", doc.annots[task.obj], Added, 0))
           \o KidsPushed(task.obj))
  /\ UNCHANGED vars

(* A reference at one level, its dictionary one deeper, its Kids array two *)
(* and their references three deeper.                                      *)
Field ==
  /\ Loaded("field")
  /\ IF IsDict /\ task.depth + 1 <= MaxFieldDepth
     THEN Add("field", "child",
              (IF task.depth + 2 > MaxFieldDepth THEN <<>>
               ELSE Tasks("field", doc.kids[task.obj], Added, task.depth + 3))
                \o Tasks("action", doc.actions[task.obj], Added, 0))
     ELSE Skip
  /\ UNCHANGED vars

Annotation ==
  /\ Loaded("annot")
  /\ IF IsDict
     THEN Add("annotation", "child",
              Tasks("action", doc.actions[task.obj], Added, 0)
                \o Tasks("probe", doc.media[task.obj], Added, 0))
     ELSE Skip
  /\ UNCHANGED vars

(* An action, with its script and the actions that come next               *)
Action ==
  /\ Loaded("action")
  /\ IF IsDict
     THEN Add("action", "child",
              Tasks("script", doc.scripts[task.obj], Added, 0)
                \o Tasks("action", doc.actions[task.obj], Added, 0))
     ELSE Skip
  /\ UNCHANGED vars
-----------------------------------------------------------------------------
Build == \/ Take \/ TakeDirect \/ LoadFailed \/ Catalog \/ Whatever
         \/ NamesDictionary \/ XmpStream \/ Form \/ Page \/ AddPage \/ Field \/ Annotation \/ Action \/ Finish

(* load_object at work for a task, or the budget stopping                  *)
Load == Step /\ UNCHANGED structure
StopLoading == Stop /\ UNCHANGED structure

StructureNext == Build \/ Load \/ StopLoading

StructureSpec == StructureInit /\ [][StructureNext]_allVars /\ WF_allVars(Build \/ Load)
-----------------------------------------------------------------------------
(* Properties                                                              *)

PageNodes == {n \in DOMAIN nodes : nodes[n].type = "page"}

(* The pages among get_children(n): petgraph lists the edges of a node      *)
(* latest first.                                                           *)
Leads(e, n) == e.from = n /\ e.type = "child" /\ e.to \in PageNodes

PagesUnder(n) ==
  LET latest == Reverse(edges)
      under  == ElementsAt(latest, {i \in DOMAIN latest : Leads(latest[i], n)})
  IN [i \in DOMAIN under |-> under[i].to]

IsSubsequenceOf(s, t) ==
  \E at \in [DOMAIN s -> DOMAIN t] :
    /\ \A i, j \in DOMAIN s : i < j => at[i] < at[j]
    /\ \A i \in DOMAIN s : s[i] = t[at[i]]

(* However the Kids arrays share pages or form cycles, a page has one node. *)
OneNodePerPage ==
  \A m, n \in PageNodes : nodes[m].obj = nodes[n].obj => m = n

(* A node is created after its only parent, so the walk to the root ends.  *)
ParentsComeFirst ==
  \A i \in DOMAIN edges :
    /\ edges[i].from < edges[i].to
    /\ \A j \in DOMAIN edges : edges[j].to = edges[i].to => i = j

(* The kids of a page are listed in the order of its Kids array, although  *)
(* they are walked backwards. (get_page_number relies on it.)              *)
KidsKeepTheirOrder ==
  \A n \in PageNodes :
    LET under == PagesUnder(n)
    IN IsSubsequenceOf([i \in DOMAIN under |-> nodes[under[i]].obj],
                       doc.kids[nodes[n].obj])

(* A kid has a node, or is damaged, or is in a diagnostic.                 *)
Accounted(k) == \/ \E m \in PageNodes : nodes[m].obj = k
                \/ Exact(doc.kind[k]) # "plain"
                \/ k \in blamed

(* A walk that finishes leaves out no page but those it has reported.      *)
NoPageIsLost ==
  pc = "done" =>
    \A n \in PageNodes : \A k \in ToSet(doc.kids[nodes[n].obj]) : Accounted(k)

(* The page nodes and their edges are the tree that the Kids arrays give.  *)
PageTreeMirrorsKids ==
  OneNodePerPage /\ ParentsComeFirst /\ KidsKeepTheirOrder /\ NoPageIsLost

(* A tolerant parse fails on no damage but an offset outside the file:     *)
(* otherwise one of its limits was reached. (Every "?" after load_object   *)
(* ends the whole parse, also for an annotation or a script nobody needs.) *)
TolerantFailsAtLimits ==
  (tolerant /\ pc = "error") =>
     \/ stopped \/ used = MaxObjects \/ diagnostics = MaxErrors
     \/ Len(nodes) = MaxNodes \/ Len(edges) = MaxEdges
     \/ \E o \in Objects : doc.kind[o] = "outside"

(* The structure is parsed in a finite number of steps: pages in a cycle   *)
(* by the visited set, fields by their depth, actions whose Next come back *)
(* to them by the budget of nodes.                                         *)
StructureReturns == <>(pc \in {"done", "error"})
=============================================================================
