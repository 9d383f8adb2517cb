# A verification development for pdf-core

pdf-core is a Rust library that reads PDF files into an AST (a graph of nodes
and typed edges), under explicit resource limits, strictly or tolerantly. This
directory holds TLA+ modules that model the parts of it whose correctness
depends on order, failure, sharing and limits, the TLC configurations that
check them on small instances, and proofs of their main properties for TLAPS.
`PROJECT.json` lists the components, the runs, the mutants that show that each
property can fail, the source lines each definition stands for, the hazards,
the findings and the theorems. Paths below are relative to the repository.

## 1. Inventory

| Component | State | Operations | Talks to | Hard behaviours |
|---|---|---|---|---|
| Incremental processor, `src/streaming/incremental.rs` | priority queue of tasks, object index, pending references, AST, statistics | `queue_task`, `add_data_chunk`, `process_next_task` (five task kinds), `process_all_tasks`, `is_complete` | object parser, AST graph | objects and references arrive in any order, priorities reorder them, objects are redefined, a task fails in the middle of a drain |
| Resource budget, `src/performance/limits.rs`, `src/filters/mod.rs` | five atomic counters, a cancellation flag, a deadline, shared by clones | `check`, `consume_*`, `remaining_decoded_bytes`, `decode_stream_with_budget` | every parser, resolver and decoder | lock-free updates, overflow, cancellation between two steps, a cap read before a decode and charged after |
| Reference resolver, `src/parser/reference_resolver.rs` | work list of references, object-to-node map, AST, budget | `resolve_references`, `resolve_object`, `resolve_stream_lengths`, later passes for resources, fonts, content and scripts | file parser (caller), budget, AST graph, filters | cyclic references, budgets that run out anywhere, repeated attempts on failed objects, repairs in tolerant mode only |
| Cross-reference chain, `src/parser/pdf_file.rs` | entries, trailer, revisions, diagnostics | `locate_xref`, `parse_xref_chain`, `parse_single_xref_at`, `recover_xref_near_offset`, `recover_xref_by_scan` | xref parser, filters, budget | cycles of `/Prev`, recoveries nested in recoveries, errors swallowed half-way, a scan in the middle of the walk |
| Objects, page tree and structure, `src/parser/pdf_file.rs` | object cache, load depth, diagnostics, AST | `load_object`, `load_from_object_stream`, `parse_document_structure`, `parse_page_tree`, `parse_form_field_value`, `parse_action_value`, `resolve_all_references` | entries of the chain, budget, resolver | recursion limits against the cache, shared and cyclic pages, swallowed errors |
| AST graph and transformations, `src/ast/graph.rs`, `src/transform/` | petgraph graph, id and object maps, next id, ids by content, root | create, add, remove, move, clone, merge, walk to the root, page number | every builder | indices that move on removal, Child cycles, stale maps |
| Plugin registry and loader, `src/plugins/` | three maps under three locks; the loader's own record | `register`, `unregister`, `get_plugins_for_type`, `clear`, load, unload, reload | plugins, threads | lock order, checks and updates under separate locks |
| Pipeline and chunk reader, `src/streaming/` | stages, statistics, overlap buffer | `process_stream`, `process_item`, `read_chunks` | async channels | retries with a changed item, timeouts, stages half initialised, offset underflow |
| Memory manager and lazy streams, `src/performance/`, `src/parser/lazy_stream.rs` | caches and the sizes kept beside them | allocate, load, evict, clear | threads | check then act, counters that drift from the caches, locking twice |
| Recovery strategies, `src/recovery/` | a report | a list of strategies tried in turn | bytes | order of strategies |
| Lexer, object, content, font and colour parsers; filters; cryptography; validation; serialization; metadata; forms; API, bindings, command line; satellite crates | none that outlives a call | pure translations and reports | the above | limits on depth and size, which the budget covers |

What makes each of them correct:

- *Incremental processor*: no task is lost or counted twice; the queue honours
  priorities and arrival; every reference becomes an edge exactly once, in any
  order of arrival; `is_complete` can be believed.
- *Resource budget*: a counter is the sum of what was granted and never beyond
  its limit; refusals are final; a stopped budget grants nothing to calls that
  begin afterwards; no call spins for ever.
- *Reference resolver*: one node for each object; one edge for each reference
  or a reason why there is none; it returns.
- *Cross-reference chain*: an object keeps its newest entry; the revisions are
  the `/Prev` chain; every recovery has a diagnostic; it returns.
- *Objects and structure*: the cache gives everybody one answer, and none is
  wrong without a diagnostic; the depth limit is independent of earlier
  failures; every page has one node, in the order of `Kids`; a tolerant parse
  survives damage.
- *AST graph*: an id is given once and keeps naming its node whatever is
  removed; walks return.
- *Registry*: the three maps agree when nobody is inside; no deadlock.
- *Pipeline*: every item is sent on, in order, or reported as failed; every
  stage that was initialised is cleaned up; the call returns.
- *Caches*: the recorded size is the size of what is cached; limits hold.

## 2. Plan

In order of importance; all but the last are done.

1. `IncrementalProcessor` against the abstract `ReferenceLinking`; proofs in
   `StreamingProofs`.
2. `ResourceBudget` against the abstract `SharedQuota`; proofs in
   `ResourceBudgetProofs`.
3. `ReferenceResolver`, which uses the budget as its callers see it: what the
   proof of `ImplementsQuota` allows it to do, one atomic charge at a time;
   proofs in `ReferenceResolverProofs`.
4. `XRefChain`; proofs in `XRefChainProofs`.
5. `ObjectLoader`: `load_object`, the object cache, the depth limit, stream
   lengths and object streams; `DocumentStructure` extends it with
   `parse_document_structure`, which is its only caller at that time, so the
   two are checked composed; proofs of both in `FileParserProofs`.
6. `AstGraph`: the graph with petgraph's indexes, and `GraphTransforms`, which
   extends it with the transformations; proofs about the first in
   `AstGraphProofs`.
7. `PluginRegistry`: the registry, one lock operation per step, with the loader
   as one of its callers; proofs in `PluginRegistryProofs`.
8. `Pipeline`: `process_stream` between a producer and a consumer; proofs in
   `StreamingProofs`.
9. Left: `LazyCache` for the caches of `src/performance/`, the chunk reader, and
   a module that composes the chain, the loader, the resolver and one budget
   into `parse()` (the last call of it, which swallows the errors of the
   resolver, is part of `ReferenceResolver`).

Every invariant and action property that a run checks has a theorem. Worth
proving next: that the transformations of `GraphTransforms` keep the invariant
of the graph. Their loops and recursions over lists of children would have to
be written as functions first; what each operation they are composed of keeps
is proved already, of any graph.

## 3. The modules and the code

### IncrementalProcessor, ReferenceLinking

A variable for each field of the Rust struct: `queue` (with the ticket under
which each task was queued, a history that `QueueOrdered` needs), `index`,
`pending`, `nodes`, `refEdges`, `childEdges`, `stats`, `tolerant`. A `Vec` of
waiting nodes is a bag, `pending[o][n]`. An action is one call of
`process_next_task` with one kind of task and outcome; `add_data_chunk` queues
its tasks one by one (`incoming`) and `process_all_tasks` is a flag, `draining`,
under which tasks are processed until the queue is empty or one fails. Bytes are
abstracted to what the object parser makes of them (`Payload`).

Left out: processing times, byte counts, `references_resolved`, result values.

`ReferenceLinking` is the promise: a set of demands (a node refers to an
object) and a set of links; defining an object links at once every demand for
it, and a new demand for a defined object at once.

### ResourceBudget, SharedQuota

One step of a thread is one access to shared state: the look at the flag and
the clock, a load, a `compare_exchange`. The flag is stored relaxed, so a thread
may miss a cancellation for a while: `seesCancel` is the set of threads the
store has reached. Words are `0..MaxU64`; `Exceeds` is `checked_add` and the
comparison. `decode_stream_with_budget` reads the remaining bytes (`Peek`),
decodes at most that many (`Decode`) and charges them (`Guard` onwards).

`SharedQuota` grants or refuses an amount in one step.

### ReferenceResolver

`pc` names the step of `resolve_references` for the reference at hand: take it
from the work list, charge and read its object, make a node, charge and draw
the edge. An object is abstracted to what loading it gives (`Kinds`); the
budget is one counter and limit per kind of charge, and `Stop` is a
cancellation or the deadline at any moment. `objectToNode` also stands for
`resolved_objects`, whose members are its keys.

The passes after `resolve_stream_lengths` are a list of `parts`, in the order in
which the passes and their loops over the nodes find them. A part goes through
stages (load a value, decode data, make a node, attach it, or share the node of
an object), each of which charges the budget once, and what a refusal does
depends on who asked: the parsers of colour spaces and character maps and the
decoder give up quietly, the resolver itself ends with an error. The list can be
made when the passes begin, since the nodes that they add are of none of the
types they look for; that a colour space changes the type of the node it refers
to, and so hides it from later passes, is `Hides`. What is below a colour space
in place (the base of an Indexed or Pattern space; the alternate and the tint
function of a Separation or DeviceN space; the profile of an ICC space) are
parts of their own, which `under` ties to the node of the space and which come
before its edge. `MakeTint` is the place where a space that has its node already
is given up (the `?` of `colorspace.rs:439` and `:497`): its node stays behind.
`document.operators` is what the bytes of a stream yield when they are decoded
and parsed. The error that `resolve_all_references` swallows in a tolerant parse
is the end `failed`; `LossesAreExplained` says what may have led there.

`SequenceSelection` has one operator, `ElementsAt`, for what `retain` and
`filter` do to a list; the graph, the registry and the order of pages use it
too. It says at which place each element of the result was, which the proofs
about them need.

Left out: metadata; below a colour space, what is a reference other than to a
profile (a base, an alternate, a tint function or a lookup table, which would be
one more edge to a node of an object, and some of which change its type), an
alternate that is missing or unknown, the Alternate of a profile's dictionary,
and more than one level of nesting; the scan in `ReferenceResolver::new` (only
tests call it; the file parser uses `from_document`).

### XRefChain

What is at an offset is abstracted to what reading a section there gives. The
recursion of `parse_single_xref_at` through `recover_xref_near_offset` is a
stack of offsets, `trail`. A free entry and an in-use one are told apart, the
generation is not. Left out: the forensic maps, the decoding of entries, and
the input charge of a scan.

An observation the model relies on: candidates for a stream nearby begin at
the space of ` obj`, where no object parses, so only tables are ever recovered
nearby.

### ObjectLoader

A frame of `stack` is a call of `load_object`; a step runs the top frame up to
its next call or its return, and `result` is what the last call gave its
caller. The closure's many returns are `Fail`, `Give` (a value that is not
cached) and `Keep` (one that is). A document says of each object what is in the
file for it (`kind`) and which object it depends on (`link`). The kinds are
chosen by what the code tells apart: a Length that fits, one that is too small,
an end marker inside the bytes, an object stored under another id, an offset
outside the file, an object stream whose filters fail. Two loads of the Length
are in the code, before and after parsing, and in the model. Where the outcome
depends on bytes (whether a Length is larger than what was observed, whether a
stream decodes) the model has both. Left out: the checks of sizes against
`usize`, the input charge of `read_object_buffer` (an error like any other),
and `enable_recursion_checks = false`, under which a cycle has no end but the
object budget.

### DocumentStructure

`todo` is the list of what is left to walk, the next one last: the explicit
stack of `parse_page_tree` and the call stack of the other walks in one, which
is exact because none of them does anything after the last call it makes. A task
loads its object through the actions of `ObjectLoader` and then adds its nodes
and edges; every `?` is `LoadFailed` or `Abort`, which end the parse. Named
differently from the code are only the kinds of task. `Field` adds up the depth
of `parse_form_field_value`, which counts a reference, its dictionary and the
array of its kids separately. Left out: XFA, what resources inherit, multimedia
parameters, the native stack (`parse_action_value`, `pdf_file.rs:2680`, recurses
as deep as the budget has nodes, so an overflow of the stack is outside the
model and `StructureReturns`), `AA` given as a reference and an action that is
itself a reference to a reference; `check_xmp_info_coherence`, which runs before
the information dictionary is set (`pdf_file.rs:1240`) and so compares nothing.

### AstGraph, GraphTransforms

A graph is a record and an operation is a function from graphs to graphs, so
that transformations are compositions. `slots` and `edges` are petgraph's: a
node's index is its position, removing a node moves the last one into the gap
(`RemoveSlot`, external, as petgraph documents of `Graph::remove_node`), and
`find_edge` finds the latest. `map` and `known` are `node_map` and
`content_hash`; hashing is the constant `Hash`. Two fields are history: `exact`
says that no id was given out twice and no removal moved a node, `panicked` that
petgraph was given an index it does not have. `find_parent` reads a hash map
backwards, so when two ids share an index either may answer. Left out: the
object map, the root, the properties of nodes and the wrapping of ids at the
end of the word.

### PluginRegistry

A call is a record with the step it is at; what it holds follows from the step.
Most steps take one lock and release it. `clear` keeps the plugins and the
metadata while it waits for the next lock, and the lookup by type keeps the
mappings while it waits for the plugins. A writer that waits also blocks new
readers in the standard library's lock; no call waits for a lock that it reads
already, so this adds no way of blocking for ever. The loader's `load`, `unload`
and `reload` are calls by its one owner whose end updates `loaded`. The model
shows what becomes of the handle of a library: `load_dynamic_library` records
it (`loader.rs:333`) and `load_plugin`, once the registry has accepted the
plugin, overwrites the record with one without (`loader.rs:77`).

### Pipeline

`phase` and `turn` say where `process_stream` and `process_item` are. A stage
may turn an item into any type of `Makes`, fail, or take too long; what it does
to data is abstracted to the type, which decides which stages take part. The
channels are bounded and either far end may be dropped at any moment; tokio's
channels are external. Left out: the statistics of single stages (the code
never counts a failed item as failed) and the times.

## 4. The runs

| Run | Instance | Shows |
|---|---|---|
| `incremental` | 2 objects, 4 tasks, 7 client tasks, 3 chunks | every order of definition, reference, redefinition and failure of two mutually referring objects; 143,138 states |
| `budget` | 2 threads, 2 counters, words 0..3, limits 2 and 1 | every interleaving of two calls, with overflow, cancellation and deadline; 167,024 states |
| `resolver` | 3 objects, 50 documents, 28 budgets | cycles, repeated and dangling references, parts of every form, every shortage, nodes and edges together too; 251,632 states |
| `strict_resolver` | the same | finding 1 |
| `xref_chain` | 3 offsets, 2 objects, 840 combinations of sections and starts, 3 scans, 5 modes | cycles, hybrids, misplaced sections, full diagnostics; 92,306 states |
| `revision_deltas` | the same | finding 2 |
| `object_loader` | 3 objects, 150 files, depth 3, 6 objects, 2 diagnostics | loads in any order, under limits that run out anywhere and a stop at any moment; 175,153 states |
| `document_structure` | 4 objects; all page trees over 3 pages with up to two kids, forms and actions over 2 | shared and cyclic pages, fields and actions; all limits; 233,436 states |
| `ast_graph` | 3 ids, 2 contents with colliding hashes, 3 nodes, 3 edges, 5 operations | every sequence of five operations; 935,895 states |
| `graph_removal` | the same | finding 3 |
| `plugin_registry` | 2 threads, 3 plugins with 2 names, 2 types, 4 calls | every interleaving of any four calls, lock by lock; 175,127 states |
| `pipeline` | 3 stages, 4 items, channels of 2, 3 retries | failures and timeouts at every stage, a consumer that stays or goes, either end dropped at any time; 216,648 states |

Bounds. Two objects suffice for a reference, its reverse, a self-reference and
a redefinition; four tasks are enough to define both, redefine one and resolve.
Two threads are enough for a lost `compare_exchange`, and the words are chosen
so that a sum can overflow. Three objects give a cycle with an exit to an
object of any kind; the limits are chosen to run out at each charge in turn,
those of the later passes included. A page with two colour spaces, a content
stream of none to two operators, and a font with an encoding, a character map
and a direct value bring every stage of a part to every shortage. A page whose
second space lacks a node for its tint function, with an edge to spare for the
first, is the run that ends with Ok and leaves nodes alone.
Three offsets are enough for a cycle of `/Prev`, a hybrid section and a
recovery nested in another.

For the loader three objects give the self-reinforcing cycles (a Length inside
the object stream whose own Length it is) and a chain that ends in any kind;
depth 3 is reached by cycles and by the chain, six charges run out in a sequence
of calls, and two diagnostics in a file with more defects. The structure has
nine nodes and seven edges, which some of its documents exceed and others do
not, and the field depth 5 (64 in the code) is two levels of fields. `Seq` in
its assumptions is only tested for membership. Three nodes are needed for a
removal that moves one and leaves another in place; five operations allow to
create three nodes and connect them, or connect two and transform twice. Two
threads are enough for two calls to meet and for `clear` against a lookup; four
calls are enough for a name to be registered, disturbed and looked at again;
three threads with three calls pass too. More items than a channel holds and one
more attempt than stages make the pipeline wait and give up.

The incremental processor, the resolver and the chain really stop (the client
has nothing more to queue, the call returns), so their runs do not check for
deadlock; the budget and the loader never stop and their runs do. The structure
ends, the graph, the registry and the pipeline have bounded calls or items; and
in the registry `clear` and a lookup can really block each other, which
`CallsReturn` excepts by name.

Fairness. The resolver and the chain run on one thread that waits for nothing:
weak fairness of their next step is that the thread is scheduled. In the
incremental processor only calls that have begun are fair (`QueueIncoming`,
`draining /\ ProcessNextTask`); no client is obliged to call. In the budget
every thread inside a call is scheduled, and a store becomes visible in finite
time; no call is obliged to begin, nor the token to be cancelled. The loader and
the structure run on one thread (`WF` of `Step`, and of `Build \/ Load`). In the
registry each thread that is inside a call and not blocked is scheduled (`WF` of
`GoOn(t)`); weak fairness is enough because a thread that waits for a lock goes
on waiting until it is free, and nobody can take it over and over within the
bounded calls. The pipeline's own task is fair because a stage that does not
answer is timed out (`pipeline.rs:251`), and a consumer that stays is assumed to
take what it is sent (`WF` of `Consume`); it may go away, but nothing makes it,
so a consumer that stays to the end is among the behaviours. The producer is
assumed to do nothing: what `StreamReturns` says begins when it lets go.

## 5. Findings

1. *Strict mode resolves past malformed objects.* `resolve_references` turns
   every error of `resolve_object` into a log line
   (`src/parser/reference_resolver.rs:367`), in strict mode too, while
   `src/parser/mod.rs:72` calls the strict parser one "that rejects malformed
   documents". Run `strict_resolver`.
2. *Deltas of revisions are taken in the wrong direction.* The chain is walked
   from the newest section and each is compared with the newer ones, so the
   newest revision reports everything it mentions as added
   (`src/parser/pdf_file.rs:359`), while `src/ast/document.rs:699` calls the
   lists "object-level changes for this revision". Run `revision_deltas`.

3. *Removing a node detaches the id of another.* `remove_node` leaves the old
   index of the node that petgraph moves in `node_map`
   (`src/ast/graph.rs:603`), while the comment at `src/ast/graph.rs:594`
   promises to remove one node and its edges. Run `graph_removal`; `MapIsExact`
   says what holds until then.

Model checking also showed behaviours that no document contradicts: a
cancellation that arrives while the last pending reference is being resolved is
logged and `resolve_references` returns Ok (a clause of `LossesAreExplained`).
The passes for fonts and scripts load an object a second time, with a function
that knows nothing of object streams (`reference_resolver.rs:1292`): an encoding
or a script in an object stream, which the resolver has just loaded and made a
node of, ends a strict parse with an error and becomes Null in a tolerant one. A
colour space given as a reference to a content stream hides the stream's
operators. The resolver starts with an empty `object_to_node`, so an object that
the file parser has a node for gets a second one, with parts of its own. When a
profile's edge is refused its node is left unattached, but then the run always
fails, since its colour space needs an edge too. When there is no node for the
tint function of a Separation or DeviceN space, the parser returns nothing
although the space's node is in the graph, the page goes on to its next colour
space, and the run may end with Ok: the space is left alone, with its alternate
below it, or beside it if the edges have run out as well. `BudgetCoversGraph`
says that nothing else is left behind.

A request for an object that never arrives keeps `is_complete` false.
`merge_nodes` removes the children it has just moved, because the source's list
still names them. A member that an object stream does not hold becomes Null
without a diagnostic in a tolerant parse. Two calls of `register` for one name
may both succeed, and `unregister` between the steps of `register` leaves a type
mapping that nothing removes. A library that was loaded is closed again while
its plugin stays registered, and cannot be reloaded.

## 6. The proofs

A theorem holds for every value of the constants that the named assumptions of
its module allow. Each proof has the same outline: an inductive invariant
(`IInv`, `SInv`, `GraphInv`, `RegistryInv`, `PipelineInv`), a conjunction of
named parts; a lemma per action that it is kept; and the property as a
consequence. TLC has checked each of these invariants on the instances of
section 4.

**`StreamingProofs`: the incremental processor.** For any sets of objects, tasks
and chunks and any bound, under `BoundAssumption`, `MarkerAssumption` and
`InputAssumption`: the type invariant, `TasksConserved`, `QueueOrdered`,
`NobodyWaitsForIndexed`, `EveryReferenceAccounted`, `CompleteMeansLinked`,
`NewLinksTargetLatest` and that the processor implements `ReferenceLinking`.
None of the reference properties is inductive: parsing an object moves all that
waits for it onto edges to the new node, which is sound only if the index names
the latest node of each object (`IndexExact`), nobody waits for an indexed
object, and nodes not yet made have no edges and wait for nothing
(`FreshUntouched`). Their conjunction with the conservation of tasks is the
inductive invariant `IInv`; the order of the queue needs in addition that
tickets are below the counter (`QueueInv`).

**`StreamingProofs`: the pipeline.** For any stages, whatever they make of an
item, any buffers and any number of retries and items, under
`PipelineAssumption`: `Settled`, what is so of the items and the stages when the
call that `StreamReturns` waits for has returned. It speaks of a call that has
returned; the invariant says for each phase which items are behind it. Items are
numbered in the order in which they are sent, so what was received is an initial
segment (`Received`), the item at hand is the last of it, and all before it have
been sent on or have failed, once each (`PastIsAnswered`); what is ready follows
the phase and its turn; and the loop was left because the input was closed and
empty or because the output was closed (`StagesFollowPhase`).

**`ResourceBudgetProofs`.** For any threads, counters, limits and word size,
under `BudgetAssumption`: the type invariant with `used[c] <= Limit[c]`,
`GrantsWithinLimit`, `RefusalIsFinal`, `NoGrantOnceStopped` and that the budget
implements `SharedQuota`. The strengthening says what a thread between its load
and its `compare_exchange` knows: the value it saw plus its amount fits both the
word and the limit, and counters only grow.

**`ReferenceResolverProofs`.** For any objects, documents and limits, under
`DocumentAssumption`, `BudgetAssumption` and `ObjectsAssumption` (there is an
object): all six invariants. Why a reference was dropped is known when it is
dropped, but the property asks at the end: `DroppedAreDoomed` says that the
reason lasts (the counter that refused is full, the container cannot be read,
strict mode will not repair), so no later reference to the same object fares
better. The budget is counted exactly: `GraphIsCharged` equates the charges with
what was made, twice the edges of the main loop plus the parts attached and
shared for edges. Between making the node of a part and attaching it lie the
stages of other parts, so `PartsInOrder` and `DerivedAreAttached` say that the
parts that wait (`Waits`) name different nodes, unattached ones, that what is
below a colour space comes before that space (`under`), and that every
unattached node has such a part unless it is `Abandoned`: of a Separation or
DeviceN space, when nodes have run out, or below a node that is not attached,
when edges have. The second case is stable because nothing is attached once the
edges have run out.
`ReferencesConserved` counts occurrences in four lists and in the values of
nodes.

**`XRefChainProofs`.** For any files, modes and radius, under `SizeAssumption`,
`FileAssumption` and `ModeAssumption`: the type invariant and the three of the
run.
`parse_single_xref_at` calls itself from the recovery, so the invariant says
that the trail of calls begins at the section the loop is at
(`TrailStartsHere`), and that this section is the one that the last revision's
`/Prev` names and none of the revisions was read from it (`WalkFollowsPrev`). A
section that was found elsewhere is reported while the calls return and recorded
as a revision only after that, so until then one diagnostic is ahead (`Owed` in
`RecoveriesAreReported`).

**`FileParserProofs`.** For any file, however its objects depend on each other,
and any limits, under `LoaderAssumption`, `DocumentAssumption`,
`StructureAssumption` and `ContentsAssumption`. About `load_object`:
`DepthIsNesting`, with the bound of nested calls that follows from it,
`WrongValuesAreExplained` and the temporal property `EntriesSettle`. The value a
call will return depends on those that nested calls return to it, so the
invariant says that no substitute is an integer (`IntegersAreExact`), that an
object which is read whole has a substitute only at a limit and never in the
cache (`WholesAreExact`), and of every call on the stack that the two loads of
its Length do not disagree in silence: what made the first fail was reported, or
makes the second fail as well (`LengthsAgree`). `EntriesSettle` is an invariant
of its own from the moment at which no call is in progress: an entry stays as
long as no call reads its object that began before the entry was made.

About the structure: `StructureUsesLoader` shows that `DocumentStructure` takes
only steps of the loader or none, so what is proved of the loader holds of it;
`TolerantFailsAtLimits`; and `PageTreeMirrorsKids`, for any `Kids` arrays,
cycles and shared pages included. A kid is among the tasks that wait, or being
loaded, or accounted for by a node or a diagnostic: `KidsArePending` says that
none is lost on the way, and `KidsInLine` that tasks, page and edges, taken
backwards, are a subsequence of the array, which is why the order of the edges
comes out right although kids are pushed in reverse and other walks are
interleaved.

**`AstGraphProofs`.** For any contents, hashes and bounds, under
`GraphAssumption`: `NextIdIsFresh` and `MapIsExact`. The invariant is about one
graph, and each lemma about one operation on any graph that satisfies it, so
that it applies where operations are composed. Removal is the hard case:
`RemoveSlotParts` says what petgraph's swap leaves. The theorems are about
`Spec`; the run `ast_graph` checks the same properties of `TransformSpec`, which
composes these operations recursively.

**`PluginRegistryProofs`.** For any threads, plugins, names and types and any
number of calls, under `PluginAssumption`: `MapsAgree`. It says nothing of a
name that a call is changing, so it is far from inductive: `RegistryInv`, a
theorem too, says for each step of `register`, `unregister` and `clear` how far
the three maps have come (`InPhase`), that names which two calls change at once
are noted, and that what the loader has on record is registered unless a call is
changing it or somebody went past the loader.

`SequenceLemmas` holds what these proofs share: how often something is in a list
that is joined, shortened, flattened or filtered, and that `ElementsAt` keeps
order and multiplicity. Facts about all lengths are proved by looking at the
least counterexample, since the induction theorems of the library cannot be
instantiated.

Only model-checked: all liveness (`DrainTerminates`, `EveryCallReturns`,
`CancelStopsConsumption`, `Terminates`, `CallsReturn`, `StructureReturns`,
`StreamReturns`), which is out of reach of the prover, and the transformations
of `GraphTransforms`, whose operators are recursive.

## 7. Not modelled

The components marked `not_modelled` in `PROJECT.json`. The caches of
`src/performance/` and the chunk reader come later (plan item 9), and so does
the composition of the whole of `parse()`. The others are pure translations
(codecs and their tables, which are half of the repository's lines, lexers,
cryptography, validation, recovery heuristics, serialization, bindings): they
keep no state between calls, and their correctness is a matter of bytes.
