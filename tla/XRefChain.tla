------------------------------ MODULE XRefChain ------------------------------
(***************************************************************************)
(* How the file parser reads the cross-reference sections of a file: from  *)
(* the last one, along /Prev, to the first, each revision adding the       *)
(* objects that no newer one mentions. A section that is not where it      *)
(* should be is looked for nearby; when nothing helps, a tolerant parser   *)
(* scans the file for objects.                                             *)
(*                                                                         *)
(* What is at an offset is abstracted to what reading a section there      *)
(* gives:                                                                  *)
(*   table     a cross-reference table with a trailer; it may name a       *)
(*             cross-reference stream that goes with it (XRefStm)          *)
(*   broken    the word xref, also inside startxref, but no such table     *)
(*   stream    a cross-reference stream                                    *)
(*   undecodable  one whose filters fail                                   *)
(*   invalid   one whose dictionary is wrong                               *)
(*   other     anything else                                               *)
(***************************************************************************)
EXTENDS Integers, Sequences, FiniteSets, SequencesExt

CONSTANTS
  Objects,   \* object identifiers
  Places,    \* where an in-use entry may say an object is
  FileSize,  \* offsets are below it; 0 is the header and holds no section
  Radius,    \* XREF_RECOVERY_SEARCH_RADIUS
  Files,     \* the files to parse
  Modes      \* tolerant and max_errors of the parser, nodes left in the budget

Free    == "free"
Offsets == 1..FileSize

(* prev: 0 if there is none or it is not positive, which ends the chain.   *)
(* stm: 0 if there is none, -1 if it is negative.                          *)
NoEntries == [o \in {} |-> Free]
NoTrailer == [prev |-> 0, stm |-> 0]

ASSUME SizeAssumption ==
  /\ FileSize \in Nat /\ Radius \in Nat /\ Free \notin Places

Kinds == {"table", "broken", "stream", "undecodable", "invalid", "other"}

IsEntries(f) == DOMAIN f \subseteq Objects /\ \A o \in DOMAIN f : f[o] \in Places \cup {Free}

IsSection(s) ==
  /\ s.kind \in Kinds
  /\ IsEntries(s.entries)
  /\ s.trailer \in [prev : 0..FileSize, stm : -1..FileSize]

(* start: what startxref says, 0 if it cannot be read                      *)
(* body: where each object is that a scan finds, the last one of a number  *)
ASSUME FileAssumption ==
  \A f \in Files : /\ DOMAIN f.at = Offsets
                   /\ \A x \in Offsets : IsSection(f.at[x])
                   /\ f.start \in 0..FileSize
                   /\ IsEntries(f.body)

ASSUME ModeAssumption ==
  Modes \subseteq [tolerant : BOOLEAN, maxErrors : Nat, nodeLimit : Nat]

VARIABLES
  file,         \* what the file holds
  mode,
  pc,           \* the next step of the parser
  offset,       \* the section parse_xref_chain is at
  seen,         \* the offsets it has been at
  trail,        \* nested calls of parse_single_xref_at, the latest last
  section,      \* what the calls that have returned have read
  entries,      \* document.xref.entries
  aggregated,   \* the newest entry of each object in the sections read
  trailer,      \* document.trailer
  revisions,    \* document.revisions, the newest first
  diagnostics,  \* number of diagnostics
  anomalies,    \* number of nodes made for them
  scans         \* history: number of completed scans of the file

config == <<file, mode>>
walk   == <<offset, seen, trail, section>>
result == <<entries, aggregated, trailer, revisions>>
log    == <<diagnostics, anomalies>>
vars   == <<file, mode, pc, offset, seen, trail, section, entries, aggregated,
            trailer, revisions, diagnostics, anomalies, scans>>

NoSection == [entries |-> NoEntries, trailer |-> NoTrailer]

Init ==
  /\ file \in Files
  /\ mode \in Modes
  /\ pc = "locate"
  /\ offset = 0
  /\ seen = {}
  /\ trail = <<>>
  /\ section = NoSection
  /\ entries = NoEntries
  /\ aggregated = NoEntries
  /\ trailer = NoTrailer
  /\ revisions = <<>>
  /\ diagnostics = 0
  /\ anomalies = 0
  /\ scans = 0
-----------------------------------------------------------------------------
(* record_diagnostic, record_anomaly and recover_xref_by_scan              *)

Goto(place) == pc' = place

CanDiagnose == diagnostics < mode.maxErrors

(* record_anomaly: the diagnostic, then the node that the budget may       *)
(* refuse, after which the caller goes on at ok or fails.                  *)
RecordAnomaly(ok, failed) ==
  LET recorded == CanDiagnose /\ anomalies < mode.nodeLimit IN
  /\ diagnostics' = diagnostics + (IF CanDiagnose THEN 1 ELSE 0)
  /\ anomalies' = anomalies + (IF recorded THEN 1 ELSE 0)
  /\ Goto(IF recorded THEN ok ELSE failed)

Override(f, g) ==
  [o \in DOMAIN f \cup DOMAIN g |-> IF o \in DOMAIN g THEN g[o] ELSE f[o]]

FillIn(f, g) == Override(g, f)

(* The entries of a scan replace what is there; finding nothing is an      *)
(* error, as is an anomaly that cannot be recorded.                        *)
Scan(ok, failed) ==
  \/ /\ file.body = NoEntries
     /\ Goto(failed)
     /\ UNCHANGED <<entries, log, scans>>
  \/ /\ file.body # NoEntries
     /\ entries' = Override(entries, file.body)
     /\ scans' = scans + 1
     /\ RecordAnomaly(ok, failed)
-----------------------------------------------------------------------------
(* parse and locate_xref                                                   *)

Locate ==
  /\ pc = "locate"
  /\ offset' = file.start
  /\ Goto(IF file.start # 0 THEN "visit" ELSE IF mode.tolerant THEN "scan" ELSE "error")
  /\ UNCHANGED <<config, seen, trail, section, result, log, scans>>

ScanInstead ==
  /\ pc = "scan"
  /\ Scan("parsed", "error")
  /\ UNCHANGED <<config, walk, aggregated, trailer, revisions>>
-----------------------------------------------------------------------------
(* The loop of parse_xref_chain                                            *)

VisitSkipping ==
  /\ pc = "visit"
  /\ \/ offset \in seen /\ UNCHANGED vars
     \/ /\ offset \notin seen
        /\ seen' = seen \cup {offset}
        /\ trail' = <<offset>>
        /\ Goto("read")
        /\ UNCHANGED <<config, offset, section, result, log, scans>>

Visit ==
  /\ pc = "visit"
  /\ \/ /\ offset \in seen
        /\ RecordAnomaly("parsed", "error")
        /\ UNCHANGED <<config, walk, result, scans>>
     \/ /\ offset \notin seen
        /\ seen' = seen \cup {offset}
        /\ trail' = <<offset>>
        /\ Goto("read")
        /\ UNCHANGED <<config, offset, section, result, log, scans>>

(* parse_single_xref_at has failed.                                        *)
Unreadable ==
  /\ pc = "unreadable"
  /\ \/ mode.tolerant /\ RecordAnomaly("scan", "error")
     \/ ~mode.tolerant /\ Goto("error") /\ UNCHANGED log
  /\ UNCHANGED <<config, walk, result, scans>>

(* compute_revision_deltas                                                 *)
Deltas(newer, own) ==
  [added    |-> {o \in DOMAIN own : own[o] # Free /\ o \notin DOMAIN newer},
   modified |-> {o \in DOMAIN own : own[o] # Free /\ o \in DOMAIN newer /\ newer[o] # own[o]},
   deleted  |-> {o \in DOMAIN own : own[o] = Free}]

MergeOldestWins ==
  /\ pc = "merge"
  /\ entries' = Override(entries, section.entries)
  /\ aggregated' = FillIn(aggregated, section.entries)
  /\ trailer' = IF revisions = <<>> THEN section.trailer ELSE trailer
  /\ revisions' = Append(revisions,
       [offset |-> offset, trailer |-> section.trailer, entries |-> section.entries,
        deltas |-> Deltas(aggregated, section.entries)])
  /\ \/ section.trailer.prev <= 0 /\ Goto("parsed") /\ UNCHANGED offset
     \/ section.trailer.prev > 0 /\ Goto("visit") /\ offset' = section.trailer.prev
  /\ UNCHANGED <<config, seen, trail, section, log, scans>>

MergeTakingEachTrailer ==
  /\ pc = "merge"
  /\ entries' = FillIn(entries, section.entries)
  /\ aggregated' = FillIn(aggregated, section.entries)
  /\ trailer' = section.trailer
  /\ revisions' = Append(revisions,
       [offset |-> offset, trailer |-> section.trailer, entries |-> section.entries,
        deltas |-> Deltas(aggregated, section.entries)])
  /\ \/ section.trailer.prev <= 0 /\ Goto("parsed") /\ UNCHANGED offset
     \/ section.trailer.prev > 0 /\ Goto("visit") /\ offset' = section.trailer.prev
  /\ UNCHANGED <<config, seen, trail, section, log, scans>>

(* An object keeps the entry it has; the first trailer is the document's.  *)
(* The entries of a revision are kept for the properties.                  *)
Merge ==
  /\ pc = "merge"
  /\ entries' = FillIn(entries, section.entries)
  /\ aggregated' = FillIn(aggregated, section.entries)
  /\ trailer' = IF revisions = <<>> THEN section.trailer ELSE trailer
  /\ revisions' = Append(revisions,
       [offset |-> offset, trailer |-> section.trailer, entries |-> section.entries,
        deltas |-> Deltas(aggregated, section.entries)])
  /\ \/ section.trailer.prev <= 0 /\ Goto("parsed") /\ UNCHANGED offset
     \/ section.trailer.prev > 0 /\ Goto("visit") /\ offset' = section.trailer.prev
  /\ UNCHANGED <<config, seen, trail, section, log, scans>>
-----------------------------------------------------------------------------
(* parse_single_xref_at                                                    *)

current == Last(trail)
here    == file.at[current]

(* parse_xref_stream_at x: the section of a stream that can be decoded; in *)
(* tolerant mode, no entries of one that cannot, if that can be recorded.  *)
ReadsStream(x) ==
  /\ x \in Offsets
  /\ \/ file.at[x].kind = "stream"
     \/ file.at[x].kind = "undecodable" /\ mode.tolerant /\ CanDiagnose

StreamEntries(x) == IF file.at[x].kind = "stream" THEN file.at[x].entries ELSE NoEntries

LogStream(x) ==
  /\ diagnostics' = diagnostics + (IF file.at[x].kind = "undecodable" THEN 1 ELSE 0)
  /\ UNCHANGED anomalies

Return(e, t) ==
  /\ section' = [entries |-> e, trailer |-> t]
  /\ Goto("returned")

ReadTable ==
  /\ pc = "read"
  /\ here.kind = "table"
  /\ \/ /\ here.trailer.stm = 0
        /\ Return(here.entries, here.trailer)
        /\ UNCHANGED log
     \/ /\ ReadsStream(here.trailer.stm)
        /\ Return(Override(here.entries, StreamEntries(here.trailer.stm)), here.trailer)
        /\ LogStream(here.trailer.stm)
     \/ /\ here.trailer.stm # 0
        /\ ~ReadsStream(here.trailer.stm)
        /\ Goto("unreadable")
        /\ UNCHANGED <<section, log>>
  /\ UNCHANGED <<config, offset, seen, trail, result, scans>>

ReadStream ==
  /\ pc = "read"
  /\ here.kind \in {"stream", "undecodable", "invalid"}
  /\ \/ /\ ReadsStream(current)
        /\ Return(StreamEntries(current), here.trailer)
        /\ LogStream(current)
     \/ /\ ~ReadsStream(current)
        /\ Goto("unreadable")
        /\ UNCHANGED <<section, log>>
  /\ UNCHANGED <<config, offset, seen, trail, result, scans>>

(* recover_xref_near_offset: the first xref in the window, and no stream:  *)
(* candidates for those begin at the space before obj, where no object     *)
(* parses. A nested call that fails is as good as no candidate, so all the *)
(* calls of the trail fail with it.                                        *)
Nearby == {x \in Offsets : /\ file.at[x].kind \in {"table", "broken"}
                           /\ current - Radius <= x /\ x < current + Radius}

LookNearby ==
  /\ pc = "read"
  /\ here.kind \in {"broken", "other"}
  /\ \/ \E x \in Nearby : /\ \A y \in Nearby : x <= y
                          /\ x # current
                          /\ trail' = Append(trail, x)
                          /\ UNCHANGED pc
     \/ /\ \A x \in Nearby : current \in Nearby /\ current <= x
        /\ Goto("unreadable")
        /\ UNCHANGED trail
  /\ UNCHANGED <<config, offset, seen, section, result, log, scans>>

(* A tolerant parser scans the file if the section is empty.               *)
ScanIfEmpty ==
  /\ pc = "returned"
  /\ \/ /\ section.entries = NoEntries /\ mode.tolerant
        /\ Scan("unwind", "unreadable")
     \/ /\ section.entries # NoEntries \/ ~mode.tolerant
        /\ Goto("unwind")
        /\ UNCHANGED <<entries, log, scans>>
  /\ UNCHANGED <<config, walk, aggregated, trailer, revisions>>

UnwindSilently ==
  /\ pc = "unwind"
  /\ Goto("merge")
  /\ UNCHANGED <<config, walk, result, log, scans>>

(* The outermost call hands the section to the loop; another hands it to   *)
(* the call that looked nearby, which records what it did.                 *)
Unwind ==
  /\ pc = "unwind"
  /\ \/ /\ Len(trail) = 1
        /\ Goto("merge")
        /\ UNCHANGED <<trail, log>>
     \/ /\ Len(trail) > 1
        /\ trail' = Front(trail)
        /\ RecordAnomaly("returned", "unreadable")
  /\ UNCHANGED <<config, offset, seen, section, result, scans>>
-----------------------------------------------------------------------------
Next == \/ Locate \/ ScanInstead \/ Visit \/ Unreadable \/ Merge
        \/ ReadTable \/ ReadStream \/ LookNearby \/ ScanIfEmpty \/ Unwind

(* One thread parses the file; nothing makes it wait.                      *)
Spec == Init /\ [][Next]_vars /\ WF_vars(Next)
-----------------------------------------------------------------------------
(* Properties                                                              *)

Steps == {"locate", "scan", "visit", "read", "returned", "unwind", "unreadable",
          "merge", "parsed", "error"}

IsRevision(r) ==
  /\ r.offset \in Offsets
  /\ IsEntries(r.entries)
  /\ \A d \in {"added", "modified", "deleted"} : r.deltas[d] \subseteq DOMAIN r.entries

(* Types; no more diagnostics than the parser tolerates.                   *)
TypeOK ==
  /\ file \in Files
  /\ mode \in Modes
  /\ pc \in Steps
  /\ offset \in 0..FileSize
  /\ seen \subseteq Offsets
  /\ trail \in Seq(Offsets)
  /\ IsEntries(section.entries)
  /\ IsEntries(entries)
  /\ IsEntries(aggregated)
  /\ \A i \in DOMAIN revisions : IsRevision(revisions[i])
  /\ diagnostics \in 0..mode.maxErrors
  /\ anomalies \in 0..diagnostics
  /\ scans \in Nat

Mentions(o) == {i \in DOMAIN revisions : o \in DOMAIN revisions[i].entries}

(* The entry of the newest revision that mentions the object.              *)
Newest == [o \in {p \in Objects : Mentions(p) # {}} |->
             revisions[CHOOSE i \in Mentions(o) : \A j \in Mentions(o) : i <= j].entries[o]]

(* A reference is resolved by the newest revision that mentions its        *)
(* object, whatever older sections of the chain say; once the file has     *)
(* been scanned, wherever in the walk that was, by what the scan has found *)
(* and by a section for the rest.                                          *)
EntriesAreNewest ==
  entries = IF scans = 0 THEN Newest ELSE Override(Newest, file.body)

(* The revisions are the chain that starts at startxref and follows /Prev, *)
(* none twice; a run that had nothing to complain of has read all of it;   *)
(* and the trailer of the document is that of the newest.                  *)
RevisionsFollowPrev ==
  /\ \A i, j \in DOMAIN revisions :
       i < j => /\ revisions[i].offset # revisions[j].offset
                /\ j = i + 1 => revisions[j].offset = revisions[i].trailer.prev
  /\ revisions # <<>> => /\ revisions[1].offset = file.start
                         /\ trailer = revisions[1].trailer
  /\ pc = "parsed" /\ diagnostics = 0 =>
       revisions # <<>> /\ Last(revisions).trailer.prev = 0

Relocated == {i \in DOMAIN revisions :
                file.at[revisions[i].offset].kind \notin {"table", "stream", "undecodable"}}

(* A parser that returns a document has a diagnostic for each section that *)
(* was not where it should be and each scan it made, whatever nested calls *)
(* have swallowed, and no more than it tolerates: a strict one has made    *)
(* none.                                                                   *)
NoSilentRecovery ==
  pc = "parsed" =>
    /\ Cardinality(Relocated) + scans <= diagnostics
    /\ diagnostics <= mode.maxErrors

(* Cycles of /Prev, sections that point at each other nearby, and empty    *)
(* sections do not keep the parser from returning.                         *)
Terminates == <>(pc \in {"parsed", "error"})

(* "Returns object-level changes for this revision": what a revision lists *)
(* as added was not already there, the same, in an older revision.         *)
DeltasAreChanges ==
  \A i, j \in DOMAIN revisions : i < j =>
    \A o \in revisions[i].deltas.added :
      o \in DOMAIN revisions[j].entries => revisions[j].entries[o] # revisions[i].entries[o]
=============================================================================
