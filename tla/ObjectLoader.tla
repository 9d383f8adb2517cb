---------------------------- MODULE ObjectLoader ----------------------------
(***************************************************************************)
(* load_object of the file parser: it looks an object up in the cross-     *)
(* reference entries, reads and parses it, loads other objects on the way  *)
(* (the Length of a stream, the stream a compressed object is in), and     *)
(* keeps the value in a cache. A depth limit, the budget and, for a        *)
(* tolerant parser, the limit on diagnostics stop it.                      *)
(*                                                                         *)
(* The recursion is a stack of frames; a step runs one frame up to its     *)
(* next call or its return. A document is what the file holds for each     *)
(* object, not bytes.                                                      *)
(***************************************************************************)
EXTENDS Naturals, Sequences, FiniteSets, SequencesExt

CONSTANTS
  Objects,
  Documents,    \* the files: [kind, link] for each object
  MaxDepth,     \* max_depth
  MaxObjects,   \* the object budget
  MaxErrors     \* max_errors, the diagnostics a parser may record

ASSUME LoaderAssumption ==
  /\ MaxDepth \in Nat
  /\ MaxObjects \in Nat
  /\ MaxErrors \in Nat

(* Objects that are read whole: an integer that is the length of every     *)
(* stream, one that is too small, any other value, a stream with a direct  *)
(* Length, and one whose filters fail.                                     *)
Wholes  == {"number", "short", "plain", "direct", "sealed"}

(* Streams whose Length is the object link[o]: one, one whose bytes        *)
(* contain the end marker, and one stored under another object's id.       *)
Streams == {"stream", "marked", "misplaced"}

(* Members of the object stream link[o]: an integer, and an index that the *)
(* stream does not hold or that does not parse.                            *)
Members == {"compressed", "absent"}

Kinds == Wholes \cup Streams \cup Members
           \cup {"missing",  \* no entry
                 "free",     \* an entry for a free object
                 "outside",  \* an offset beyond the end of the file
                 "garbled"}  \* no object, or another one, at the offset

(* "observed" is a stream up to the first end marker, "cut" one shortened  *)
(* by a Length that is too small.                                          *)
Values == {"null", "number", "short", "plain", "stream", "observed", "cut"}

ASSUME DocumentAssumption ==
  \A d \in Documents : /\ d.kind \in [Objects -> Kinds]
                       /\ d.link \in [Objects -> Objects]

VARIABLES
  tolerant,     \* the parse mode
  doc,          \* the file
  cache,        \* object_cache, "none" for an object that is not there
  stack,        \* the calls of load_object that have not returned
  depth,        \* object_load_depth
  used,         \* objects charged to the budget
  diagnostics,  \* how many diagnostics there are
  blamed,       \* the objects they name
  stopped,      \* the budget is cancelled or beyond its deadline
  result        \* what the last call that returned gave its caller

vars == <<tolerant, doc, cache, stack, depth, used, diagnostics, blamed,
          stopped, result>>
file == <<tolerant, doc>>

Nothing == [ok |-> FALSE, of |-> CHOOSE o \in Objects : TRUE, value |-> "none"]

Init ==
  /\ tolerant \in BOOLEAN
  /\ doc \in Documents
  /\ cache = [o \in Objects |-> "none"]
  /\ stack = <<>>
  /\ depth = 0
  /\ used = 0
  /\ diagnostics = 0
  /\ blamed = {}
  /\ stopped = FALSE
  /\ result = Nothing
-----------------------------------------------------------------------------
(* Frames                                                                  *)

Frame(o) == [obj |-> o, at |-> "start", guess |-> "none"]

Top     == Last(stack)
Current == Top.obj
Kind    == doc.kind[Current]
Link    == doc.link[Current]
Running(place) == stack # <<>> /\ Top.at = place

(* load_object(o), called by the program with nothing else in progress     *)
Call(o) ==
  /\ stack = <<>>
  /\ stack' = <<Frame(o)>>
  /\ UNCHANGED <<tolerant, doc, cache, depth, used, diagnostics, blamed, stopped, result>>

(* The top frame calls load_object(o) and goes on at "place".              *)
Nest(o, place, guess) ==
  LET here == [obj |-> Current, at |-> place, guess |-> guess]
  IN stack' = Append([stack EXCEPT ![Len(stack)] = here], Frame(o))

Leave(ok, value) ==
  /\ stack' = Front(stack)
  /\ result' = [ok |-> ok, of |-> Current, value |-> value]

(* The ends of the closure in load_object: depth is lowered on each.       *)
FailKeepingDepth == Leave(FALSE, "none") /\ UNCHANGED <<depth, cache>>

Fail == Leave(FALSE, "none") /\ depth' = depth - 1 /\ UNCHANGED cache
Give(value) == Leave(TRUE, value) /\ depth' = depth - 1 /\ UNCHANGED cache
Keep(value) ==
  /\ Leave(TRUE, value)
  /\ depth' = depth - 1
  /\ cache' = [cache EXCEPT ![Current] = value]

Quiet == UNCHANGED <<diagnostics, blamed>>

(* record_diagnostic about o, which fails when there are enough of them.   *)
CanRecord == diagnostics < MaxErrors
Record(o) ==
  /\ CanRecord
  /\ diagnostics' = diagnostics + 1
  /\ blamed' = blamed \cup {o}

(* A substitute is cached, but not that for an object without an entry.    *)
Substitute(value) == IF Kind = "missing" THEN Give(value) ELSE Keep(value)

DefectUnreported(o, value) ==
  \/ tolerant /\ Record(o) /\ Substitute(value)
  \/ tolerant /\ ~CanRecord /\ Quiet /\ Substitute(value)
  \/ ~tolerant /\ Quiet /\ Fail

(* A defect: a strict parser stops at it, a tolerant one records it about  *)
(* o and goes on with a substitute, if it still may.                       *)
Defect(o, value) ==
  \/ tolerant /\ Record(o) /\ Substitute(value)
  \/ (tolerant => ~CanRecord) /\ Quiet /\ Fail
-----------------------------------------------------------------------------
(* The first part of a call, up to reading the object                      *)

TooDeep ==
  /\ Running("start")
  /\ depth + 1 > MaxDepth
  /\ \/ tolerant /\ Record(Current) /\ Leave(TRUE, "null")
     \/ (tolerant => ~CanRecord) /\ Quiet /\ Leave(FALSE, "none")
  /\ UNCHANGED <<file, cache, depth, used, stopped>>

Enter ==
  /\ Running("start")
  /\ depth + 1 <= MaxDepth
  /\ depth' = depth + 1
  /\ stack' = [stack EXCEPT ![Len(stack)].at = "entered"]
  /\ UNCHANGED <<file, cache, used, diagnostics, blamed, stopped, result>>

Stopped ==
  /\ Running("entered")
  /\ stopped
  /\ Fail
  /\ UNCHANGED <<file, used, diagnostics, blamed, stopped>>

CachedUnlessNull == cache[Current] \notin {"none", "null"}
Cached == cache[Current] # "none"

CacheHit ==
  /\ Running("entered")
  /\ ~stopped
  /\ Cached
  /\ Give(cache[Current])
  /\ UNCHANGED <<file, used, diagnostics, blamed, stopped>>

(* consume_object fails.                                                   *)
Exhausted ==
  /\ Running("entered")
  /\ ~stopped
  /\ ~Cached
  /\ used = MaxObjects
  /\ Fail
  /\ UNCHANGED <<file, used, diagnostics, blamed, stopped>>

Exact(kind) ==
  CASE kind \in {"free", "missing"}    -> "null"
    [] kind \in {"direct", "sealed", "stream", "marked"} -> "stream"
    [] kind = "compressed"             -> "number"
    [] kind \in {"number", "short", "plain"} -> kind
    [] OTHER                           -> "damaged"

(* The entry is found, or missing, and the object is read.                 *)
Read ==
  /\ Running("entered")
  /\ ~stopped
  /\ ~Cached
  /\ used < MaxObjects
  /\ used' = used + 1
  /\ \/ Kind = "missing" /\ Defect(Current, "null")
     \/ Kind = "outside" /\ Fail /\ Quiet
     \/ Kind = "garbled" /\ Defect(Current, "null")
     \/ Kind \in Wholes \cup {"free"} /\ Keep(Exact(Kind)) /\ Quiet
     \/ Kind \in Streams /\ Nest(Link, "length", "none")
                         /\ Quiet /\ UNCHANGED <<cache, depth, result>>
     \/ Kind \in Members /\ Nest(Link, "container", "none")
                         /\ Quiet /\ UNCHANGED <<cache, depth, result>>
  /\ UNCHANGED <<file, stopped>>
-----------------------------------------------------------------------------
(* Streams                                                                 *)

ParsedAgain(value) ==
  Nest(Link, "length", value) /\ Quiet /\ UNCHANGED <<cache, depth, result>>

(* The object was parsed as this value; resolve_indirect_stream_length     *)
(* loads the Length again.                                                 *)
Parsed(value) ==
  IF Kind = "misplaced"
  THEN Defect(Current, "null")
  ELSE /\ Nest(Link, "relength", value)
       /\ Quiet
       /\ UNCHANGED <<cache, depth, result>>

LengthLoaded ==
  /\ Running("length")
  /\ \/ /\ result.ok /\ result.value = "number"
        /\ Parsed("stream")
     \/ /\ result.ok /\ result.value = "short"
        /\ Defect(Current, "null")
     \/ /\ ~(result.ok /\ result.value \in {"number", "short"})
        /\ \/ ~tolerant /\ Fail /\ Quiet
           \/ /\ tolerant
              /\ IF Kind = "marked" THEN Defect(Current, "null")
                                    ELSE Parsed("observed")
  /\ UNCHANGED <<file, used, stopped>>

(* The bytes are cut to the Length; one that is longer than they are, or   *)
(* no length at all, is a defect.                                          *)
LengthReloaded ==
  /\ Running("relength")
  /\ \/ /\ result.ok /\ result.value = "number"
        /\ Keep("stream") /\ Quiet
     \/ /\ result.ok /\ result.value = "number" /\ Top.guess = "observed"
        /\ Defect(Current, "observed")
     \/ /\ result.ok /\ result.value = "short"
        /\ Keep("cut") /\ Quiet
     \/ /\ ~(result.ok /\ result.value \in {"number", "short"})
        /\ Defect(Current, Top.guess)
  /\ UNCHANGED <<file, used, stopped>>
-----------------------------------------------------------------------------
(* Object streams: load_from_object_stream and parse_object_from_stream    *)

(* The filters fail on a sealed stream, and on any stream when the budget  *)
(* of decoded bytes is gone.                                               *)
ContainerLoaded ==
  /\ Running("container")
  /\ LET isStream == result.ok /\ result.value \in {"stream", "observed", "cut"}
     IN \/ ~result.ok /\ Fail /\ Quiet
        \/ result.ok /\ ~isStream /\ Defect(Link, "null")
        \/ isStream /\ Defect(Link, "null")
        \/ /\ isStream /\ doc.kind[Link] # "sealed" /\ ~stopped /\ Quiet
           /\ \/ Kind = "compressed" /\ Keep("number")
              \/ Kind = "absent" /\ tolerant /\ Keep("null")
              \/ Kind = "absent" /\ ~tolerant /\ Fail
  /\ UNCHANGED <<file, used, stopped>>
-----------------------------------------------------------------------------
(* Cancellation, or the deadline, at any moment.                           *)
Stop ==
  /\ ~stopped
  /\ stopped' = TRUE
  /\ UNCHANGED <<file, cache, stack, depth, used, diagnostics, blamed, result>>

Step ==
  \/ TooDeep \/ Enter \/ Stopped \/ CacheHit \/ Exhausted \/ Read
  \/ LengthLoaded \/ LengthReloaded \/ ContainerLoaded

Next == Step \/ Stop \/ \E o \in Objects : Call(o)

(* The parser is a thread that runs until it returns.                      *)
Spec == Init /\ [][Next]_vars /\ WF_vars(Step)
-----------------------------------------------------------------------------
(* Properties                                                              *)

(* object_load_depth counts the calls in progress, whichever of its early  *)
(* returns each of them took, and is back at zero when the last returns.   *)
(* A call that left it raised would make later objects "too deep".         *)
DepthIsNesting ==
  depth = Cardinality({i \in DOMAIN stack : stack[i].at # "start"})

(* What a damaged object stands for, and what the limits hide, is reported.*)
Excused(o) == /\ tolerant
              /\ \/ o \in blamed
                 \/ doc.link[o] \in blamed
                 \/ doc.kind[o] = "absent"

(* A value that is cached or returned is what the file says, or else the   *)
(* parser is tolerant and has a diagnostic that names the object or the    *)
(* one it depends on. (The one silent substitute of the code is that for a *)
(* member an object stream does not hold.) So a strict parser answers      *)
(* exactly or not at all, in whatever order objects are loaded, whatever   *)
(* cycles they form and wherever limits strike.                            *)
WrongValuesAreExplained ==
  /\ \A o \in Objects :
       cache[o] \in {"none", Exact(doc.kind[o])} \/ Excused(o)
  /\ result.ok => \/ result.value = Exact(doc.kind[result.of])
                  \/ Excused(result.of)

(* In a cycle an object is cached by a nested call while an outer call is  *)
(* still reading it, and the outer call overwrites the entry, perhaps with *)
(* a worse value. But what is cached when the outermost call returns stays *)
(* cached: whoever asks from then on gets one answer, at any depth.        *)
EntriesSettle ==
  \A o \in Objects, v \in Values :
    []((stack = <<>> /\ cache[o] = v) => [](cache[o] = v))

(* A call returns: cycles of Lengths and object streams are cut by the     *)
(* depth limit, although they are tried again at every level.              *)
CallsReturn == stack # <<>> ~> stack = <<>>
=============================================================================
