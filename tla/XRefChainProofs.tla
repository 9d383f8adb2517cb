-------------------------- MODULE XRefChainProofs --------------------------
(***************************************************************************)
(* Proofs about XRefChain for any file, with any chain of sections, cycles *)
(* included, and any limits.                                               *)
(***************************************************************************)
EXTENDS XRefChain, SequenceTheorems, FiniteSetTheorems, WellFoundedInduction, TLAPS
-----------------------------------------------------------------------------
(* The inductive invariant                                                 *)

Trailers == [prev : 0..FileSize, stm : -1..FileSize]

(* The calls of parse_single_xref_at that are in progress, or have just    *)
(* returned to the loop                                                    *)
Calling == pc \in {"read", "returned", "unwind"}
Reading == pc \in {"read", "returned", "unwind", "merge"}
Walking == pc = "visit" \/ Reading

(* The trail begins at the section the loop is at.                         *)
TrailStartsHere ==
  /\ revisions \in Seq(ToSet(revisions))
  /\ section.trailer \in Trailers
  /\ Walking => offset \in Offsets
  /\ Calling => trail # <<>>
  /\ Reading => trail[1] = offset
  /\ pc = "merge" => Len(trail) = 1

(* The loop is where /Prev of the last revision, or startxref, has sent    *)
(* it, at a section that none of the revisions was read from.              *)
WalkFollowsPrev ==
  /\ pc = "locate" => revisions = <<>>
  /\ \A i \in DOMAIN revisions : revisions[i].offset \in seen
  /\ Reading => offset \in seen /\ \A i \in DOMAIN revisions : revisions[i].offset # offset
  /\ Walking => offset = IF revisions = <<>> THEN file.start
                         ELSE Last(revisions).trailer.prev

(* Sections found nearby and scans are reported as they happen: what was   *)
(* found nearby when the call that looked for it goes on, and a scan that  *)
(* cannot be reported makes the parse fail, there being no more room for   *)
(* diagnostics.                                                            *)
Misplaced(x) == file.at[x].kind \notin {"table", "stream", "undecodable"}

Recoveries == Cardinality(Relocated) + scans
Owed == IF /\ pc \in {"returned", "unwind", "merge"}
           /\ Len(trail) = 1
           /\ Misplaced(offset)
        THEN 1 ELSE 0

RecoveriesAreReported ==
  pc # "error" => \/ pc = "unreadable" /\ diagnostics = mode.maxErrors
                  \/ Recoveries + Owed <= diagnostics

IInv ==
  /\ TypeOK
  /\ TrailStartsHere
  /\ EntriesAreNewest
  /\ RevisionsFollowPrev
  /\ WalkFollowsPrev
  /\ RecoveriesAreReported
-----------------------------------------------------------------------------
(* Helpers                                                                 *)

(* What a file and a mode are.                                             *)
LEMMA FileTypes ==
  ASSUME TypeOK
  PROVE  /\ FileSize \in Nat /\ Radius \in Nat
         /\ file.start \in 0..FileSize /\ IsEntries(file.body)
         /\ \A x \in Offsets : IsSection(file.at[x])
         /\ mode.tolerant \in BOOLEAN /\ mode.maxErrors \in Nat /\ mode.nodeLimit \in Nat
<1>1. file \in Files /\ mode \in Modes
  BY DEF TypeOK
<1>2. FileSize \in Nat /\ Radius \in Nat
  BY SizeAssumption
<1>3. /\ file.start \in 0..FileSize /\ IsEntries(file.body)
      /\ \A x \in Offsets : IsSection(file.at[x])
  BY <1>1, FileAssumption
<1>4. mode \in [tolerant : BOOLEAN, maxErrors : Nat, nodeLimit : Nat]
  BY <1>1, ModeAssumption
<1> QED BY <1>2, <1>3, <1>4

(* Entries put over entries are entries.                                   *)
LEMMA OverrideTypes ==
  ASSUME NEW f, NEW g, IsEntries(f), IsEntries(g)
  PROVE  IsEntries(Override(f, g)) /\ IsEntries(FillIn(f, g))
BY DEF IsEntries, Override, FillIn

LEMMA NoEntriesTypes == IsEntries(NoEntries) /\ NoTrailer \in Trailers
<1>1. IsEntries(NoEntries)
  BY DEF IsEntries, NoEntries
<1>2. 0 \in 0..FileSize /\ 0 \in -1..FileSize
  BY SizeAssumption
<1> QED BY <1>1, <1>2 DEF NoTrailer, Trailers

(* An anomaly is recorded, with a diagnostic; or the node for it is not    *)
(* made; or there is no room for another diagnostic.                       *)
LEMMA AnomalyForms ==
  ASSUME TypeOK, NEW ok, NEW failed, RecordAnomaly(ok, failed)
  PROVE  /\ diagnostics \in Nat /\ diagnostics' \in 0..mode.maxErrors
         /\ anomalies' \in 0..diagnostics'
         /\ \/ pc' \in {ok, failed} /\ diagnostics' = diagnostics + 1
            \/ pc' = failed /\ diagnostics' = diagnostics /\ diagnostics = mode.maxErrors
<1>1. diagnostics \in 0..mode.maxErrors /\ anomalies \in 0..diagnostics /\ mode.maxErrors \in Nat
  BY FileTypes DEF TypeOK
<1>2. CASE CanDiagnose
  <2>1. diagnostics' = diagnostics + 1 /\ diagnostics < mode.maxErrors
    BY <1>2 DEF RecordAnomaly, CanDiagnose
  <2>2. anomalies' = anomalies \/ anomalies' = anomalies + 1
    BY <1>1 DEF RecordAnomaly
  <2>3. pc' \in {ok, failed}
    BY DEF RecordAnomaly, Goto
  <2> QED BY <1>1, <2>1, <2>2, <2>3
<1>3. CASE ~CanDiagnose
  <2>1. diagnostics' = diagnostics + 0 /\ anomalies' = anomalies + 0 /\ pc' = failed
    BY <1>3 DEF RecordAnomaly, Goto
  <2>2. diagnostics = mode.maxErrors
    BY <1>1, <1>3 DEF CanDiagnose
  <2> QED BY <1>1, <2>1, <2>2
<1> QED BY <1>2, <1>3

(* A scan finds nothing, or replaces entries and is reported.              *)
LEMMA ScanForms ==
  ASSUME TypeOK, NEW ok, NEW failed, Scan(ok, failed)
  PROVE  /\ diagnostics \in Nat /\ diagnostics' \in 0..mode.maxErrors
         /\ anomalies' \in 0..diagnostics' /\ scans \in Nat
         /\ \/ /\ pc' = failed /\ diagnostics' = diagnostics
               /\ entries' = entries /\ scans' = scans
            \/ /\ entries' = Override(entries, file.body) /\ scans' = scans + 1
               /\ \/ pc' \in {ok, failed} /\ diagnostics' = diagnostics + 1
                  \/ /\ pc' = failed /\ diagnostics' = diagnostics
                     /\ diagnostics = mode.maxErrors
<1>1. /\ diagnostics \in 0..mode.maxErrors /\ anomalies \in 0..diagnostics
      /\ mode.maxErrors \in Nat /\ diagnostics \in Nat /\ scans \in Nat
  BY FileTypes DEF TypeOK
<1>2. CASE pc' = failed /\ UNCHANGED <<entries, log, scans>>
  BY <1>1, <1>2 DEF log
<1>3. CASE /\ entries' = Override(entries, file.body) /\ scans' = scans + 1
           /\ RecordAnomaly(ok, failed)
  BY <1>1, <1>3, AnomalyForms
<1> QED BY <1>2, <1>3 DEF Scan, Goto

(* There are finitely many revisions.                                      *)
LEMMA RelocatedIsFinite ==
  ASSUME TrailStartsHere
  PROVE  /\ Len(revisions) \in Nat /\ DOMAIN revisions = 1 .. Len(revisions)
         /\ IsFiniteSet(Relocated) /\ Cardinality(Relocated) \in Nat
<1>1. Len(revisions) \in Nat /\ DOMAIN revisions = 1 .. Len(revisions)
  BY LenProperties DEF TrailStartsHere
<1>2. IsFiniteSet(DOMAIN revisions)
  BY <1>1, FS_Interval
<1>3. Relocated \in SUBSET DOMAIN revisions
  BY DEF Relocated
<1>4. IsFiniteSet(Relocated)
  BY <1>2, <1>3, FS_Subset
<1> QED BY <1>1, <1>4, FS_CardinalityType
-----------------------------------------------------------------------------
(* The steps that merge nothing                                            *)

(* Such a step keeps the invariant if it keeps the parts that are about    *)
(* the place the parser is at.                                             *)
LEMMA GoOnLemma ==
  ASSUME IInv, UNCHANGED <<config, aggregated, trailer, revisions>>,
         pc' \in Steps, pc' # "locate", pc' = "parsed" => diagnostics' > 0,
         offset' \in 0..FileSize, seen \subseteq seen', seen' \subseteq Offsets,
         trail' \in Seq(Offsets), IsEntries(section'.entries),
         diagnostics' \in 0..mode.maxErrors, anomalies' \in 0..diagnostics',
         \/ entries' = entries /\ scans' = scans
         \/ entries' = Override(entries, file.body) /\ scans' = scans + 1,
         section'.trailer \in Trailers,
         Walking' => offset' \in Offsets,
         Calling' => trail' # <<>>,
         Reading' => trail'[1] = offset',
         pc' = "merge" => Len(trail') = 1,
         Reading' => /\ offset' \in seen'
                     /\ \A i \in DOMAIN revisions : revisions[i].offset # offset',
         Walking' => offset' = IF revisions = <<>> THEN file.start
                               ELSE Last(revisions).trailer.prev,
         RecoveriesAreReported'
  PROVE  IInv'
<1>1. /\ TypeOK /\ TrailStartsHere /\ EntriesAreNewest /\ RevisionsFollowPrev
      /\ WalkFollowsPrev
      /\ UNCHANGED <<file, mode>>
  BY DEF IInv, config
<1>2. scans \in Nat /\ scans' \in Nat /\ scans + 1 # 0
  BY <1>1 DEF TypeOK
<1>3. IsEntries(entries')
  BY <1>1, OverrideTypes, FileTypes DEF TypeOK
<1>4. TypeOK'
  BY <1>1, <1>2, <1>3 DEF TypeOK
<1>5. TrailStartsHere'
  BY <1>1 DEF TrailStartsHere, Walking, Calling, Reading
<1>6. Newest' = Newest
  BY DEF Newest, Mentions
<1>7. EntriesAreNewest'
  <2>1. Override(Override(entries, file.body), file.body) = Override(entries, file.body)
    BY DEF Override
  <2>2. CASE entries' = entries /\ scans' = scans
    BY <1>1, <1>6, <2>2 DEF EntriesAreNewest
  <2>3. CASE entries' = Override(entries, file.body) /\ scans' = scans + 1
    <3>1. scans' # 0
      BY <1>2, <2>3
    <3>2. CASE scans = 0
      BY <1>1, <1>6, <2>3, <3>1, <3>2 DEF EntriesAreNewest
    <3>3. CASE scans # 0
      <4>1. entries = Override(Newest, file.body)
        BY <1>1, <3>3 DEF EntriesAreNewest
      <4>2. Override(entries, file.body) = entries
        BY <4>1 DEF Override
      <4> QED BY <1>1, <1>6, <2>3, <3>1, <4>1, <4>2 DEF EntriesAreNewest
    <3> QED BY <3>2, <3>3
  <2> QED BY <2>2, <2>3
<1>8. RevisionsFollowPrev'
  BY <1>1 DEF RevisionsFollowPrev, TypeOK
<1>9. WalkFollowsPrev'
  BY <1>1 DEF WalkFollowsPrev, Reading, Walking
<1> QED BY <1>4, <1>5, <1>7, <1>8, <1>9 DEF IInv

(* What the invariant says of the state, for the steps.                    *)
LEMMA StateTypes ==
  ASSUME IInv
  PROVE  /\ TypeOK /\ TrailStartsHere /\ WalkFollowsPrev
         /\ pc \in Steps /\ offset \in 0..FileSize /\ seen \subseteq Offsets
         /\ trail \in Seq(Offsets) /\ IsEntries(section.entries)
         /\ section.trailer \in Trailers
         /\ diagnostics \in 0..mode.maxErrors /\ anomalies \in 0..diagnostics
         /\ diagnostics \in Nat /\ scans \in Nat /\ Recoveries \in Nat /\ Owed \in 0..1
         /\ FileSize \in Nat /\ mode.maxErrors \in Nat
<1>1. TypeOK /\ TrailStartsHere /\ WalkFollowsPrev
  BY DEF IInv
<1>2. FileSize \in Nat /\ mode.maxErrors \in Nat
  BY <1>1, FileTypes
<1>3. diagnostics \in Nat /\ scans \in Nat
  BY <1>1, <1>2 DEF TypeOK
<1>4. Recoveries \in Nat
  BY <1>1, <1>3, RelocatedIsFinite DEF Recoveries
<1> QED BY <1>1, <1>2, <1>3, <1>4 DEF TypeOK, TrailStartsHere, Owed

(* Unless a section is merged, only a scan is a recovery.                  *)
LEMMA SameRecoveries ==
  ASSUME UNCHANGED <<config, revisions>>
  PROVE  /\ Relocated' = Relocated
         /\ scans' = scans => Recoveries' = Recoveries
<1>1. Relocated' = Relocated
  BY DEF Relocated, config
<1> QED BY <1>1 DEF Recoveries

LEMMA LocateIInv ==
  ASSUME IInv, Locate
  PROVE  IInv'
<1> USE DEF Locate, Goto
<1>1. /\ UNCHANGED <<config, seen, trail, section, entries, aggregated, trailer, revisions,
                     diagnostics, anomalies, scans>>
      /\ pc = "locate" /\ offset' = file.start
      /\ (pc' = "visit" /\ file.start # 0) \/ pc' \in {"scan", "error"}
  BY DEF result, log
<1>2. offset' \in 0..FileSize /\ (pc' = "visit" => offset' \in Offsets)
  <2>1. offset' \in 0..FileSize /\ FileSize \in Nat
    BY <1>1, FileTypes DEF IInv
  <2> QED BY <1>1, <2>1 DEF Offsets
<1>3. revisions = <<>>
  BY <1>1, StateTypes DEF WalkFollowsPrev
<1>4. RecoveriesAreReported'
  <2>1. Owed = 0 /\ Owed' = 0
    BY <1>1 DEF Owed
  <2>2. Recoveries' = Recoveries
    BY <1>1, SameRecoveries
  <2> QED BY <1>1, <2>1, <2>2 DEF IInv, RecoveriesAreReported
<1>5. /\ ~Reading' /\ ~Calling' /\ (Walking' => pc' = "visit")
      /\ pc' \in Steps /\ pc' \notin {"locate", "parsed", "merge"}
  BY <1>1 DEF Reading, Calling, Walking, Steps
<1> QED BY <1>1, <1>2, <1>3, <1>4, <1>5, StateTypes, GoOnLemma

(* The scan in place of the chain                                          *)
LEMMA ScanInsteadIInv ==
  ASSUME IInv, ScanInstead
  PROVE  IInv'
<1>1. /\ UNCHANGED <<config, offset, seen, trail, section, aggregated, trailer, revisions>>
      /\ pc = "scan" /\ Scan("parsed", "error")
  BY DEF ScanInstead, walk
<1>2. /\ diagnostics \in Nat /\ diagnostics' \in 0..mode.maxErrors
      /\ anomalies' \in 0..diagnostics' /\ scans \in Nat
      /\ \/ entries' = entries /\ scans' = scans
         \/ entries' = Override(entries, file.body) /\ scans' = scans + 1
      /\ \/ pc' = "error"
         \/ /\ pc' = "parsed" /\ scans' = scans + 1
            /\ diagnostics' = diagnostics + 1
  BY <1>1, ScanForms DEF IInv
<1>3. RecoveriesAreReported'
  <2>1. Owed = 0 /\ Owed' = 0
    BY <1>1, <1>2 DEF Owed
  <2>2. Relocated' = Relocated /\ Recoveries \in Nat
    BY <1>1, SameRecoveries, StateTypes
  <2>3. Recoveries <= diagnostics
    BY <1>1, <2>1, <2>2 DEF IInv, RecoveriesAreReported
  <2>4. Cardinality(Relocated) \in Nat
    BY RelocatedIsFinite DEF IInv
  <2> QED BY <1>2, <2>1, <2>2, <2>3, <2>4 DEF RecoveriesAreReported, Recoveries
<1>4. /\ ~Reading' /\ ~Calling' /\ ~Walking'
      /\ pc' \in Steps /\ pc' \notin {"locate", "merge"} /\ (pc' = "parsed" => diagnostics' > 0)
  BY <1>2 DEF Reading, Calling, Walking, Steps
<1> QED BY <1>1, <1>2, <1>3, <1>4, StateTypes, GoOnLemma

(* A section that was read already is an anomaly and ends the chain;       *)
(* another is read.                                                        *)
LEMMA VisitIInv ==
  ASSUME IInv, Visit
  PROVE  IInv'
<1>1. pc = "visit" /\ Walking
  BY DEF Visit, Walking
<1>2. offset \in Offsets
  BY <1>1, StateTypes DEF TrailStartsHere
<1>3. Recoveries <= diagnostics /\ Recoveries \in Nat
  BY <1>1, StateTypes DEF IInv, RecoveriesAreReported, Owed
<1>4. CASE RecordAnomaly("parsed", "error") /\ UNCHANGED <<config, walk, result, scans>>
  <2>1. /\ UNCHANGED <<config, offset, seen, trail, section, entries, aggregated, trailer,
                       revisions, scans>>
    BY <1>4 DEF walk, result
  <2>2. /\ diagnostics \in Nat /\ diagnostics' \in 0..mode.maxErrors
        /\ anomalies' \in 0..diagnostics'
        /\ \/ pc' = "error"
           \/ pc' = "parsed" /\ diagnostics' = diagnostics + 1
    BY <1>4, AnomalyForms DEF IInv
  <2>3. Owed' = 0 /\ Recoveries' = Recoveries
    BY <2>1, <2>2, SameRecoveries DEF Owed
  <2>4. RecoveriesAreReported'
    BY <1>3, <2>2, <2>3 DEF RecoveriesAreReported
  <2>5. /\ ~Reading' /\ ~Calling' /\ ~Walking'
        /\ pc' \in Steps /\ pc' \notin {"locate", "merge"}
        /\ (pc' = "parsed" => diagnostics' > 0)
    BY <2>2 DEF Reading, Calling, Walking, Steps
  <2> QED BY <2>1, <2>2, <2>4, <2>5, StateTypes, GoOnLemma
<1>5. CASE /\ offset \notin seen /\ seen' = seen \cup {offset} /\ trail' = <<offset>>
           /\ pc' = "read"
           /\ UNCHANGED <<config, offset, section, result, log, scans>>
  <2>1. /\ UNCHANGED <<config, section, entries, aggregated, trailer,
                       revisions, diagnostics, anomalies, scans>>
        /\ offset' = offset
    BY <1>5 DEF result, log
  <2>2. trail' \in Seq(Offsets) /\ trail' # <<>> /\ trail'[1] = offset
    BY <1>2, <1>5
  <2>3. /\ \A i \in DOMAIN revisions : revisions[i].offset # offset
        /\ offset = IF revisions = <<>> THEN file.start ELSE Last(revisions).trailer.prev
    BY <1>1, <1>5, StateTypes DEF WalkFollowsPrev
  <2>4. Owed' = 0 /\ Recoveries' = Recoveries
    BY <1>5, <2>1, SameRecoveries DEF Owed
  <2>5. RecoveriesAreReported'
    BY <1>3, <2>1, <2>4 DEF RecoveriesAreReported
  <2>6. /\ pc' \in Steps /\ pc' \notin {"locate", "merge", "parsed"}
    BY <1>5 DEF Steps
  <2> QED BY <1>2, <1>5, <2>1, <2>2, <2>3, <2>5, <2>6, StateTypes, GoOnLemma
<1> QED BY <1>4, <1>5 DEF Visit, Goto

(* The section cannot be read.                                             *)
LEMMA UnreadableIInv ==
  ASSUME IInv, Unreadable
  PROVE  IInv'
<1>1. /\ UNCHANGED <<config, offset, seen, trail, section, entries, aggregated, trailer,
                     revisions, scans>>
      /\ pc = "unreadable"
  BY DEF Unreadable, walk, result
<1>2. /\ diagnostics \in Nat /\ diagnostics' \in 0..mode.maxErrors
      /\ anomalies' \in 0..diagnostics'
      /\ pc' = "error" \/ (pc' = "scan" /\ diagnostics' = diagnostics + 1)
  <2>1. CASE RecordAnomaly("scan", "error")
    BY <2>1, AnomalyForms DEF IInv
  <2>2. CASE pc' = "error" /\ UNCHANGED log
    BY <2>2, StateTypes DEF log
  <2> QED BY <2>1, <2>2 DEF Unreadable, Goto
<1>3. RecoveriesAreReported'
  <2>1. Owed = 0 /\ Owed' = 0 /\ Recoveries' = Recoveries /\ Recoveries \in Nat
        /\ mode.maxErrors \in Nat
    BY <1>1, <1>2, SameRecoveries, StateTypes DEF Owed
  <2>2. diagnostics = mode.maxErrors \/ Recoveries <= diagnostics
    BY <1>1, <2>1 DEF IInv, RecoveriesAreReported
  <2> QED BY <1>2, <2>1, <2>2 DEF RecoveriesAreReported
<1>4. /\ ~Reading' /\ ~Calling' /\ ~Walking'
      /\ pc' \in Steps /\ pc' \notin {"locate", "merge", "parsed"}
  BY <1>2 DEF Reading, Calling, Walking, Steps
<1> QED BY <1>1, <1>2, <1>3, <1>4, StateTypes, GoOnLemma

(* While a section is read, the loop stays where it is.                    *)
LEMMA ReadOnLemma ==
  ASSUME IInv, Reading, UNCHANGED <<config, offset, seen, aggregated, trailer, revisions>>,
         pc' \in {"read", "returned", "unwind", "merge", "unreadable"},
         trail' \in Seq(Offsets), trail' # <<>>, trail'[1] = offset,
         pc' = "merge" => Len(trail') = 1,
         IsEntries(section'.entries), section'.trailer \in Trailers,
         diagnostics' \in 0..mode.maxErrors, anomalies' \in 0..diagnostics',
         \/ entries' = entries /\ scans' = scans
         \/ entries' = Override(entries, file.body) /\ scans' = scans + 1,
         RecoveriesAreReported'
  PROVE  IInv'
<1>1. /\ offset \in Offsets /\ offset \in seen
      /\ \A i \in DOMAIN revisions : revisions[i].offset # offset
      /\ offset = IF revisions = <<>> THEN file.start ELSE Last(revisions).trailer.prev
  BY StateTypes DEF Walking, TrailStartsHere, WalkFollowsPrev
<1>2. pc' \in Steps /\ pc' \notin {"locate", "parsed"}
  BY DEF Steps
<1> QED BY <1>1, <1>2, StateTypes, GoOnLemma

(* The call at the end of the trail reads at an offset of the file; the    *)
(* outermost one at that of the loop.                                      *)
LEMMA CurrentCall ==
  ASSUME IInv, Calling
  PROVE  /\ Reading /\ trail \in Seq(Offsets) /\ trail # <<>> /\ trail[1] = offset
         /\ Len(trail) \in Nat /\ Len(trail) >= 1
         /\ current \in Offsets /\ IsSection(here)
         /\ Len(trail) = 1 => current = offset
<1>1. Reading /\ trail \in Seq(Offsets) /\ trail # <<>> /\ trail[1] = offset
  BY StateTypes DEF Calling, Reading, TrailStartsHere
<1>2. Len(trail) \in Nat /\ Len(trail) >= 1
  BY <1>1, EmptySeq, LenProperties
<1>3. current = trail[Len(trail)] /\ current \in Offsets
  BY <1>1, <1>2, ElementOfSeq DEF current, Last
<1>4. IsSection(here)
  BY <1>3, StateTypes, FileTypes DEF here
<1> QED BY <1>1, <1>2, <1>3, <1>4

(* A stream that is read has entries, and may add a diagnostic.            *)
LEMMA StreamIsRead ==
  ASSUME IInv, NEW x, ReadsStream(x), LogStream(x)
  PROVE  /\ IsEntries(StreamEntries(x))
         /\ diagnostics' \in 0..mode.maxErrors /\ anomalies' \in 0..diagnostics'
         /\ diagnostics <= diagnostics'
         /\ ~Misplaced(x)
<1>1. x \in Offsets /\ file.at[x].kind \in {"stream", "undecodable"}
      /\ (file.at[x].kind = "undecodable" => CanDiagnose)
  BY DEF ReadsStream
<1>2. IsEntries(StreamEntries(x))
  <2>1. IsSection(file.at[x])
    BY <1>1, StateTypes, FileTypes
  <2> QED BY <2>1, NoEntriesTypes DEF StreamEntries, IsSection
<1>3. /\ diagnostics \in 0..mode.maxErrors /\ anomalies \in 0..diagnostics
      /\ mode.maxErrors \in Nat /\ anomalies' = anomalies
  BY StateTypes DEF LogStream
<1>4. CASE file.at[x].kind = "undecodable"
  <2>1. diagnostics' = diagnostics + 1 /\ diagnostics < mode.maxErrors
    BY <1>1, <1>4 DEF LogStream, CanDiagnose
  <2> QED BY <1>1, <1>2, <1>3, <2>1 DEF Misplaced
<1>5. CASE file.at[x].kind # "undecodable"
  <2>1. diagnostics' = diagnostics + 0
    BY <1>5 DEF LogStream
  <2> QED BY <1>1, <1>2, <1>3, <2>1 DEF Misplaced
<1> QED BY <1>4, <1>5

(* A call returns a section, or fails: the calls below it with it.         *)
LEMMA ReturnIInv ==
  ASSUME IInv, pc = "read",
         UNCHANGED <<config, offset, seen, trail, result, scans>>,
         diagnostics' \in 0..mode.maxErrors, anomalies' \in 0..diagnostics',
         diagnostics <= diagnostics',
         \/ /\ ~Misplaced(current)
            /\ \E e, t : IsEntries(e) /\ t \in Trailers /\ Return(e, t)
         \/ pc' = "unreadable" /\ UNCHANGED section
  PROVE  IInv'
<1>1. /\ Calling /\ UNCHANGED <<entries, aggregated, trailer, revisions>>
  BY DEF Calling, result
<1>2. /\ Reading /\ trail \in Seq(Offsets) /\ trail # <<>> /\ trail[1] = offset
      /\ Len(trail) = 1 => current = offset
  BY <1>1, CurrentCall
<1>3. /\ pc' \in {"returned", "unreadable"}
      /\ pc' = "returned" => ~Misplaced(current)
      /\ IsEntries(section'.entries) /\ section'.trailer \in Trailers
  <2>1. CASE pc' = "unreadable" /\ UNCHANGED section
    BY <2>1, StateTypes
  <2>2. ASSUME NEW e, NEW t, IsEntries(e), t \in Trailers, Return(e, t), ~Misplaced(current)
        PROVE  /\ pc' = "returned" /\ section'.entries = e /\ section'.trailer = t
    BY <2>2 DEF Return, Goto
  <2> QED BY <2>1, <2>2
<1>4. RecoveriesAreReported'
  <2>1. Owed' = 0
    BY <1>2, <1>3 DEF Owed, Misplaced, config
  <2>2. Recoveries' = Recoveries /\ Owed = 0 /\ Recoveries \in Nat
    BY <1>1, SameRecoveries, StateTypes DEF Owed
  <2>3. Recoveries <= diagnostics /\ diagnostics \in Nat
    BY <2>2, StateTypes DEF IInv, RecoveriesAreReported
  <2> QED BY <2>1, <2>2, <2>3, StateTypes DEF RecoveriesAreReported
<1> QED BY <1>1, <1>2, <1>3, <1>4, ReadOnLemma

LEMMA ReadTableIInv ==
  ASSUME IInv, ReadTable
  PROVE  IInv'
<1>1. /\ pc = "read" /\ Calling /\ here.kind = "table"
      /\ UNCHANGED <<config, offset, seen, trail, result, scans>>
  BY DEF ReadTable, Calling
<1>2. /\ IsEntries(here.entries) /\ here.trailer \in Trailers /\ ~Misplaced(current)
  BY <1>1, CurrentCall DEF IsSection, Trailers, Misplaced, here
<1>3. CASE Return(here.entries, here.trailer) /\ UNCHANGED log
  BY <1>1, <1>2, <1>3, StateTypes, ReturnIInv DEF log
<1>4. CASE /\ ReadsStream(here.trailer.stm)
           /\ Return(Override(here.entries, StreamEntries(here.trailer.stm)), here.trailer)
           /\ LogStream(here.trailer.stm)
  BY <1>1, <1>2, <1>4, StreamIsRead, OverrideTypes, ReturnIInv
<1>5. CASE pc' = "unreadable" /\ UNCHANGED <<section, log>>
  BY <1>1, <1>5, StateTypes, ReturnIInv DEF log
<1> QED BY <1>3, <1>4, <1>5 DEF ReadTable, Goto

LEMMA ReadStreamIInv ==
  ASSUME IInv, ReadStream
  PROVE  IInv'
<1>1. /\ pc = "read" /\ Calling
      /\ UNCHANGED <<config, offset, seen, trail, result, scans>>
  BY DEF ReadStream, Calling
<1>2. here.trailer \in Trailers
  BY <1>1, CurrentCall DEF IsSection, Trailers
<1>3. CASE /\ ReadsStream(current) /\ LogStream(current)
           /\ Return(StreamEntries(current), here.trailer)
  BY <1>1, <1>2, <1>3, StreamIsRead, ReturnIInv
<1>4. CASE pc' = "unreadable" /\ UNCHANGED <<section, log>>
  BY <1>1, <1>4, StateTypes, ReturnIInv DEF log
<1> QED BY <1>3, <1>4 DEF ReadStream, Goto

LEMMA LookNearbyIInv ==
  ASSUME IInv, LookNearby
  PROVE  IInv'
<1>1. /\ pc = "read" /\ Calling
      /\ UNCHANGED <<config, offset, seen, section, entries, aggregated, trailer, revisions,
                     diagnostics, anomalies, scans>>
  BY DEF LookNearby, Calling, result, log
<1>2. /\ Reading /\ trail \in Seq(Offsets) /\ trail # <<>> /\ trail[1] = offset
      /\ Len(trail) \in Nat /\ Len(trail) >= 1
  BY <1>1, CurrentCall
<1>3. \/ pc' = "read" /\ \E x \in Offsets : trail' = Append(trail, x)
      \/ pc' = "unreadable" /\ trail' = trail
  BY <1>1 DEF LookNearby, Nearby, Goto
<1>4. trail' \in Seq(Offsets) /\ trail' # <<>> /\ trail'[1] = offset
  <2>1. CASE trail' = trail
    BY <1>2, <2>1
  <2>2. ASSUME NEW x \in Offsets, trail' = Append(trail, x)
        PROVE  trail' \in Seq(Offsets) /\ trail' # <<>> /\ trail'[1] = offset
    BY <1>2, <2>2, AppendProperties
  <2> QED BY <1>3, <2>1, <2>2
<1>5. RecoveriesAreReported'
  <2>1. Owed = 0 /\ Owed' = 0 /\ Recoveries' = Recoveries
    BY <1>1, <1>3, SameRecoveries DEF Owed
  <2> QED BY <1>1, <2>1 DEF IInv, RecoveriesAreReported
<1> QED BY <1>1, <1>2, <1>3, <1>4, <1>5, StateTypes, ReadOnLemma

(* The scan for an empty section                                           *)
LEMMA ScanIfEmptyIInv ==
  ASSUME IInv, ScanIfEmpty
  PROVE  IInv'
<1>1. /\ pc = "returned" /\ Calling
      /\ UNCHANGED <<config, offset, seen, trail, section, aggregated, trailer, revisions>>
  BY DEF ScanIfEmpty, Calling, walk
<1>2. /\ Reading /\ trail \in Seq(Offsets) /\ trail # <<>> /\ trail[1] = offset
  BY <1>1, CurrentCall
<1>3. /\ Recoveries \in Nat /\ Owed \in 0..1 /\ Recoveries + Owed <= diagnostics
      /\ diagnostics \in Nat /\ scans \in Nat /\ Cardinality(Relocated) \in Nat
      /\ Relocated' = Relocated
  BY <1>1, SameRecoveries, StateTypes, RelocatedIsFinite DEF IInv, RecoveriesAreReported
<1>4. Owed' = IF pc' = "unwind" THEN Owed ELSE 0
  <2>1. pc' \in {"unwind", "unreadable"}
    BY StateTypes, ScanForms DEF ScanIfEmpty, Goto
  <2> QED BY <1>1, <2>1 DEF Owed, Misplaced, config
<1>5. CASE Scan("unwind", "unreadable")
  <2>1. /\ diagnostics' \in 0..mode.maxErrors /\ anomalies' \in 0..diagnostics'
        /\ \/ /\ pc' = "unreadable" /\ diagnostics' = diagnostics
              /\ entries' = entries /\ scans' = scans
           \/ /\ entries' = Override(entries, file.body) /\ scans' = scans + 1
              /\ \/ pc' \in {"unwind", "unreadable"} /\ diagnostics' = diagnostics + 1
                 \/ /\ pc' = "unreadable" /\ diagnostics' = diagnostics
                    /\ diagnostics = mode.maxErrors
    BY <1>5, ScanForms DEF IInv
  <2>2. RecoveriesAreReported'
    <3>1. mode' = mode
      BY <1>1 DEF config
    <3> QED BY <1>3, <1>4, <2>1, <3>1 DEF RecoveriesAreReported, Recoveries
  <2> QED BY <1>1, <1>2, <2>1, <2>2, StateTypes, ReadOnLemma
<1>6. CASE pc' = "unwind" /\ UNCHANGED <<entries, log, scans>>
  <2>1. UNCHANGED <<entries, diagnostics, anomalies, scans>>
    BY <1>6 DEF log
  <2>2. RecoveriesAreReported'
    BY <1>3, <1>4, <1>6, <2>1 DEF RecoveriesAreReported, Recoveries
  <2> QED BY <1>1, <1>2, <1>6, <2>1, <2>2, StateTypes, ReadOnLemma
<1> QED BY <1>5, <1>6 DEF ScanIfEmpty, Goto

(* A section that was found nearby is handed on, and reported.             *)
LEMMA UnwindIInv ==
  ASSUME IInv, Unwind
  PROVE  IInv'
<1>1. /\ pc = "unwind" /\ Calling
      /\ UNCHANGED <<config, offset, seen, section, entries, aggregated, trailer,
                     revisions, scans>>
  BY DEF Unwind, Calling, result
<1>2. /\ Reading /\ trail \in Seq(Offsets) /\ trail # <<>> /\ trail[1] = offset
      /\ Len(trail) \in Nat
  BY <1>1, CurrentCall
<1>3. /\ Recoveries \in Nat /\ Owed \in 0..1 /\ Recoveries + Owed <= diagnostics
      /\ diagnostics \in Nat /\ Recoveries' = Recoveries
  BY <1>1, SameRecoveries, StateTypes DEF IInv, RecoveriesAreReported
<1>4. CASE Len(trail) = 1 /\ pc' = "merge" /\ UNCHANGED <<trail, log>>
  <2>1. Owed' = Owed
    BY <1>1, <1>4 DEF Owed, Misplaced, config
  <2>2. RecoveriesAreReported'
    BY <1>3, <1>4, <2>1 DEF RecoveriesAreReported, log
  <2> QED BY <1>1, <1>2, <1>4, <2>2, StateTypes, ReadOnLemma DEF log
<1>5. CASE Len(trail) > 1 /\ trail' = Front(trail) /\ RecordAnomaly("returned", "unreadable")
  <2>1. /\ diagnostics' \in 0..mode.maxErrors /\ anomalies' \in 0..diagnostics'
        /\ \/ pc' \in {"returned", "unreadable"} /\ diagnostics' = diagnostics + 1
           \/ /\ pc' = "unreadable" /\ diagnostics' = diagnostics
              /\ diagnostics = mode.maxErrors
    BY <1>5, AnomalyForms DEF IInv
  <2>2. Owed' \in {0, 1} /\ mode' = mode
    BY <1>1 DEF Owed, config
  <2>3. RecoveriesAreReported'
    <3>1. Len(trail) > 1
      BY <1>5
    <3>6. Len(trail) # 1
      <4>1. \A n \in Nat : n > 1 => n # 1
        OBVIOUS
      <4> QED BY <1>2, <3>1, <4>1
    <3>2. Owed = 0
      BY <3>6 DEF Owed
    <3>3. Recoveries <= diagnostics
      BY <1>3, <3>2
    <3>4. CASE diagnostics' = diagnostics + 1
      <4>1. Recoveries' + Owed' <= diagnostics'
        <5>1. \A r, d \in Nat, o \in {0, 1} : r <= d => r + o <= d + 1
          OBVIOUS
        <5> QED BY <1>3, <2>2, <3>3, <3>4, <5>1
      <4> QED BY <4>1 DEF RecoveriesAreReported
    <3>5. CASE pc' = "unreadable" /\ diagnostics' = diagnostics /\ diagnostics = mode.maxErrors
      BY <2>2, <3>5 DEF RecoveriesAreReported
    <3> QED BY <2>1, <3>4, <3>5
  <2>4. trail' \in Seq(Offsets) /\ trail' # <<>> /\ trail'[1] = offset
    <3> DEFINE m == Len(trail) - 1
    <3>1. /\ m \in Int /\ 1 \in Int /\ 1 <= m
          /\ \A i \in 1..m : trail[i] \in Offsets
      BY <1>2, <1>5, ElementOfSeq
    <3>2. trail' = SubSeq(trail, 1, m)
      BY <1>5 DEF Front
    <3> HIDE DEF m
    <3>3. /\ SubSeq(trail, 1, m) \in Seq(Offsets)
          /\ Len(SubSeq(trail, 1, m)) = IF 1 <= m THEN m - 1 + 1 ELSE 0
          /\ \A i \in 1 .. m - 1 + 1 : SubSeq(trail, 1, m)[i] = trail[1 + i - 1]
      BY <3>1, SubSeqProperties
    <3>4. Len(trail') = m /\ trail'[1] = trail[1]
      <4>1. 1 \in 1 .. m - 1 + 1 /\ 1 + 1 - 1 = 1 /\ m - 1 + 1 = m
        BY <3>1
      <4> QED BY <3>1, <3>2, <3>3, <4>1
    <3>5. trail' # <<>>
      BY <3>1, <3>4, EmptySeq
    <3> QED BY <1>2, <3>2, <3>3, <3>4, <3>5
  <2>5. pc' \in {"returned", "unreadable"}
    BY <2>1
  <2> QED BY <1>1, <1>2, <2>1, <2>3, <2>4, <2>5, StateTypes, ReadOnLemma
<1> QED BY <1>4, <1>5 DEF Unwind, Goto
-----------------------------------------------------------------------------
(* The step that merges a section                                          *)

(* The least of some numbers is the only one that is below them all.       *)
LEMMA LeastIsUnique ==
  ASSUME NEW S \in SUBSET Nat, NEW m \in S, \A j \in S : m <= j
  PROVE  (CHOOSE i \in S : \A j \in S : i <= j) = m
<1>1. \A i \in S : (\A j \in S : i <= j) => i = m
  OBVIOUS
<1> QED BY <1>1

(* Some numbers have a least one.                                          *)
LEMMA LeastExists ==
  ASSUME NEW S \in SUBSET Nat, S # {}
  PROVE  \E m \in S : \A j \in S : m <= j
<1>1. IsWellFoundedOn(OpToRel(<, Nat), Nat)
  BY NatLessThanWellFounded
<1>2. PICK m \in S : \A j \in S : ~(<<j, m>> \in OpToRel(<, Nat))
  BY <1>1, WFMin, Zenon
<1>3. ASSUME NEW j \in S PROVE m <= j
  <2>1. m \in Nat /\ j \in Nat
    OBVIOUS
  <2>2. j < m => <<j, m>> \in OpToRel(<, Nat)
    BY <2>1 DEF OpToRel
  <2>3. ~(j < m)
    BY <1>2, <2>2
  <2> QED BY <2>1, <2>3
<1> QED BY <1>3

LEMMA OverrideAssociates ==
  ASSUME NEW f, NEW g, NEW h
  PROVE  Override(Override(f, g), h) = Override(f, Override(g, h))
BY DEF Override

(* The revisions are those there were, and the new one.                    *)
LEMMA OneMoreRevision ==
  ASSUME TrailStartsHere, NEW r, revisions' = Append(revisions, r)
  PROVE  /\ Len(revisions) \in Nat /\ Len(revisions') = Len(revisions) + 1
         /\ DOMAIN revisions = 1 .. Len(revisions)
         /\ DOMAIN revisions' = 1 .. Len(revisions) + 1
         /\ \A i \in DOMAIN revisions : revisions'[i] = revisions[i]
         /\ revisions'[Len(revisions) + 1] = r
         /\ revisions' \in Seq(ToSet(revisions'))
         /\ revisions' # <<>>
<1> DEFINE R == ToSet(revisions) \cup {r}
<1>1. revisions \in Seq(ToSet(revisions))
  BY DEF TrailStartsHere
<1>2. revisions \in Seq(R) /\ r \in R
  <2>1. \A i \in 1 .. Len(revisions) : revisions[i] \in R
    BY <1>1, ElementOfSeq
  <2> QED BY <1>1, <2>1, LenProperties, SeqDef
<1> HIDE DEF R
<1>3. /\ Len(revisions) \in Nat /\ Len(revisions') = Len(revisions) + 1
      /\ DOMAIN revisions = 1 .. Len(revisions)
      /\ DOMAIN revisions' = 1 .. Len(revisions) + 1
      /\ \A i \in 1 .. Len(revisions) : revisions'[i] = revisions[i]
      /\ revisions'[Len(revisions) + 1] = r
      /\ revisions' \in Seq(R)
  BY <1>2, AppendProperties, LenProperties
<1>4. revisions' \in Seq(ToSet(revisions'))
  <2>1. \A i \in 1 .. Len(revisions') : revisions'[i] \in ToSet(revisions')
    BY <1>3 DEF ToSet
  <2> QED BY <1>3, <2>1, LenProperties, SeqDef
<1>5. revisions' # <<>>
  BY <1>2, AppendProperties
<1> QED BY <1>3, <1>4, <1>5

(* A new revision, an older one, only adds what no other mentions.         *)
LEMMA OlderRevisionFillsIn ==
  ASSUME TrailStartsHere, NEW r, IsEntries(r.entries), revisions' = Append(revisions, r)
  PROVE  Newest' = FillIn(Newest, r.entries)
<1> DEFINE n == Len(revisions)
<1>1. /\ n \in Nat
      /\ DOMAIN revisions = 1..n
      /\ DOMAIN revisions' = 1 .. n + 1
      /\ \A i \in 1..n : revisions'[i] = revisions[i]
      /\ revisions'[n + 1] = r
  BY OneMoreRevision
<1> HIDE DEF n
<1>2. \A o : Mentions(o) \in SUBSET (1..n)
  BY <1>1 DEF Mentions
<1>3. \A o : {i \in DOMAIN revisions' : o \in DOMAIN revisions'[i].entries}
               = Mentions(o) \cup (IF o \in DOMAIN r.entries THEN {n + 1} ELSE {})
  BY <1>1 DEF Mentions
<1> DEFINE Mentioned(o)  == {i \in DOMAIN revisions' : o \in DOMAIN revisions'[i].entries}
           First(S)      == CHOOSE i \in S : \A j \in S : i <= j
           Older         == {o \in Objects : Mentions(o) # {}}
           All           == {o \in Objects : Mentioned(o) # {}}
<1>4. ASSUME NEW o, Mentions(o) # {}
      PROVE  revisions'[First(Mentioned(o))] = revisions[First(Mentions(o))]
  <2>1. PICK m \in Mentions(o) : \A j \in Mentions(o) : m <= j
    <3>1. Mentions(o) \in SUBSET Nat
      BY <1>1, <1>2
    <3> QED BY <1>4, <3>1, LeastExists
  <2>2. m \in 1..n /\ m \in Nat /\ m <= n + 1
    BY <1>1, <1>2
  <2>3. First(Mentions(o)) = m
    <3>1. Mentions(o) \in SUBSET Nat
      BY <1>1, <1>2
    <3> QED BY <2>1, <3>1, LeastIsUnique
  <2>4. First(Mentioned(o)) = m
    <3>1. Mentioned(o) \in SUBSET Nat /\ m \in Mentioned(o)
      BY <1>1, <1>2, <1>3
    <3>2. \A j \in Mentioned(o) : m <= j
      BY <1>3, <2>1, <2>2
    <3> HIDE DEF Mentioned
    <3> QED BY <3>1, <3>2, LeastIsUnique
  <2> HIDE DEF Mentioned, First
  <2> QED BY <1>1, <2>2, <2>3, <2>4
<1>5. ASSUME NEW o, Mentions(o) = {}, o \in DOMAIN r.entries
      PROVE  revisions'[First(Mentioned(o))] = r
  <2>1. Mentioned(o) = {n + 1}
    BY <1>3, <1>5
  <2> HIDE DEF Mentioned
  <2>2. First(Mentioned(o)) = n + 1
    BY <1>1, <2>1, LeastIsUnique
  <2> HIDE DEF First
  <2> QED BY <1>1, <2>2
<1>6. Newest = [o \in Older |-> revisions[First(Mentions(o))].entries[o]]
  BY DEF Newest
<1>7. Newest' = [o \in All |-> revisions'[First(Mentioned(o))].entries[o]]
  BY DEF Newest, Mentions
<1>8. All = Older \cup DOMAIN r.entries
  BY <1>3 DEF IsEntries
<1>9. /\ \A o \in Older : Mentions(o) # {}
      /\ \A o \in DOMAIN r.entries : o \notin Older => Mentions(o) = {}
  BY DEF IsEntries
<1> HIDE DEF All, Older, First, Mentioned
<1>10. FillIn(Newest, r.entries)
         = [o \in Older \cup DOMAIN r.entries |->
              IF o \in Older THEN Newest[o] ELSE r.entries[o]]
  BY <1>6 DEF FillIn, Override
<1>11. \A o \in All : revisions'[First(Mentioned(o))].entries[o]
                        = IF o \in Older THEN Newest[o] ELSE r.entries[o]
  BY <1>4, <1>5, <1>6, <1>8, <1>9
<1> QED BY <1>7, <1>8, <1>10, <1>11

(* A section that was not where it should be is one more.                  *)
LEMMA RelocatedWithRevision ==
  ASSUME TrailStartsHere, NEW r, revisions' = Append(revisions, r), file' = file
  PROVE  /\ Cardinality(Relocated) \in Nat
         /\ Cardinality(Relocated') =
              Cardinality(Relocated) + (IF Misplaced(r.offset) THEN 1 ELSE 0)
<1> DEFINE n == Len(revisions)
<1>1. /\ n \in Nat
      /\ DOMAIN revisions = 1..n
      /\ DOMAIN revisions' = 1 .. n + 1
      /\ \A i \in 1..n : revisions'[i] = revisions[i]
      /\ revisions'[n + 1] = r
  BY OneMoreRevision
<1>2. IsFiniteSet(Relocated) /\ Cardinality(Relocated) \in Nat
  BY RelocatedIsFinite
<1> HIDE DEF n
<1>3. n + 1 \notin Relocated
  BY <1>1 DEF Relocated
<1>4. Relocated' = IF Misplaced(r.offset) THEN Relocated \cup {n + 1} ELSE Relocated
  BY <1>1 DEF Relocated, Misplaced
<1>5. CASE Misplaced(r.offset)
  <2>1. Cardinality(Relocated \cup {n + 1}) = Cardinality(Relocated) + 1
    BY <1>2, <1>3, FS_AddElement
  <2> QED BY <1>2, <1>4, <1>5, <2>1
<1>6. CASE ~Misplaced(r.offset)
  BY <1>2, <1>4, <1>6
<1> QED BY <1>5, <1>6

(* A merged section leads on to the one that its /Prev names.              *)
LEMMA MergeIInv ==
  ASSUME IInv, Merge
  PROVE  IInv'
<1> DEFINE n == Len(revisions)
           E == section.entries
           r == [offset |-> offset, trailer |-> section.trailer, entries |-> E,
                 deltas |-> Deltas(aggregated, E)]
<1>1. /\ pc = "merge" /\ Reading /\ Walking
      /\ entries' = FillIn(entries, E)
      /\ aggregated' = FillIn(aggregated, E)
      /\ trailer' = IF revisions = <<>> THEN section.trailer ELSE trailer
      /\ revisions' = Append(revisions, r)
      /\ UNCHANGED <<file, mode, seen, trail, section, diagnostics, anomalies, scans>>
      /\ \/ section.trailer.prev <= 0 /\ pc' = "parsed" /\ offset' = offset
         \/ section.trailer.prev > 0 /\ pc' = "visit" /\ offset' = section.trailer.prev
  BY DEF Merge, Reading, Walking, config, log, Goto
<1>2. /\ TypeOK /\ TrailStartsHere /\ EntriesAreNewest /\ RevisionsFollowPrev
      /\ WalkFollowsPrev /\ RecoveriesAreReported
      /\ IsEntries(E) /\ section.trailer \in Trailers /\ FileSize \in Nat
  BY StateTypes DEF IInv
<1>3. /\ offset \in Offsets /\ offset \in seen /\ Len(trail) = 1
      /\ \A i \in DOMAIN revisions : revisions[i].offset # offset
      /\ offset = IF revisions = <<>> THEN file.start ELSE Last(revisions).trailer.prev
  BY <1>1, <1>2 DEF TrailStartsHere, WalkFollowsPrev
<1>4. /\ r.offset = offset /\ r.trailer = section.trailer /\ r.entries = E
      /\ r.deltas = Deltas(aggregated, E)
  OBVIOUS
<1> HIDE DEF r
<1>5. /\ n \in Nat /\ Len(revisions') = n + 1
      /\ DOMAIN revisions = 1..n
      /\ DOMAIN revisions' = 1 .. n + 1
      /\ \A i \in 1..n : revisions'[i] = revisions[i]
      /\ revisions'[n + 1] = r
      /\ revisions' \in Seq(ToSet(revisions'))
      /\ revisions' # <<>>
  BY <1>1, <1>2, OneMoreRevision
<1>6. section.trailer.prev \in 0..FileSize
  BY <1>2 DEF Trailers
<1>7. pc' \in {"parsed", "visit"} /\ ~Reading' /\ ~Calling' /\ (Walking' => pc' = "visit")
  BY <1>1 DEF Reading, Calling, Walking
<1>8. IsRevision(r)
  <2>1. \A d \in {"added", "modified", "deleted"} : r.deltas[d] \subseteq DOMAIN E
    BY <1>4 DEF Deltas
  <2> QED BY <1>2, <1>3, <1>4, <2>1 DEF IsRevision
<1>9. TypeOK'
  <2>1. IsEntries(entries') /\ IsEntries(aggregated')
    BY <1>1, <1>2, OverrideTypes DEF TypeOK
  <2>2. \A i \in DOMAIN revisions' : IsRevision(revisions'[i])
    BY <1>2, <1>5, <1>8 DEF TypeOK
  <2>3. pc' \in Steps /\ offset' \in 0..FileSize
    BY <1>1, <1>2, <1>6 DEF Steps, TypeOK
  <2> QED BY <1>1, <1>2, <2>1, <2>2, <2>3 DEF TypeOK, IsRevision
<1>10. TrailStartsHere'
  <2>1. Walking' => offset' \in Offsets
    BY <1>1, <1>2, <1>6, <1>7 DEF Offsets
  <2>2. pc' # "merge"
    BY <1>1
  <2> QED BY <1>1, <1>2, <1>5, <1>7, <2>1, <2>2 DEF TrailStartsHere
<1>11. EntriesAreNewest'
  <2>1. Newest' = FillIn(Newest, E)
    BY <1>1, <1>2, <1>4, OlderRevisionFillsIn
  <2>2. CASE scans = 0
    BY <1>1, <1>2, <2>1, <2>2 DEF EntriesAreNewest
  <2>3. CASE scans # 0
    <3>1. entries' = Override(E, Override(Newest, file.body))
      BY <1>1, <1>2, <2>3 DEF EntriesAreNewest, FillIn
    <3>2. entries' = Override(Newest', file'.body)
      BY <1>1, <2>1, <3>1, OverrideAssociates DEF FillIn
    <3> QED BY <1>1, <2>3, <3>2 DEF EntriesAreNewest
  <2> QED BY <2>2, <2>3
<1>12. RevisionsFollowPrev'
  <2>1. ASSUME NEW i \in DOMAIN revisions', NEW j \in DOMAIN revisions', i < j
        PROVE  /\ revisions'[i].offset # revisions'[j].offset
               /\ j = i + 1 => revisions'[j].offset = revisions'[i].trailer.prev
    <3>1. i \in 1..n /\ j \in 1 .. n + 1 /\ revisions'[i] = revisions[i]
      BY <1>5, <2>1
    <3>2. CASE j \in 1..n
      BY <1>2, <1>5, <2>1, <3>1, <3>2 DEF RevisionsFollowPrev
    <3>3. CASE j = n + 1
      <4>1. revisions'[j] = r
        BY <1>5, <3>3
      <4>2. revisions[i].offset # offset
        BY <1>3, <1>5, <3>1
      <4>3. j = i + 1 => offset = revisions[i].trailer.prev
        <5>1. SUFFICES ASSUME j = i + 1 PROVE offset = revisions[i].trailer.prev
          OBVIOUS
        <5>2. i = n
          BY <1>5, <3>1, <3>3, <5>1
        <5>3. revisions # <<>>
          BY <1>5, <3>1
        <5> QED BY <1>3, <5>2, <5>3 DEF Last
      <4> QED BY <1>4, <3>1, <4>1, <4>2, <4>3
    <3> QED BY <1>5, <3>1, <3>2, <3>3
  <2>2. revisions'[1].offset = file'.start /\ trailer' = revisions'[1].trailer
    <3>1. CASE revisions = <<>>
      <4>1. revisions'[1] = r
        BY <1>5, <3>1
      <4> QED BY <1>1, <1>3, <1>4, <3>1, <4>1
    <3>2. CASE revisions # <<>>
      <4>1. 1 \in 1..n
        BY <1>2, <1>5, <3>2, EmptySeq DEF TrailStartsHere
      <4>2. revisions'[1] = revisions[1]
        BY <1>5, <4>1
      <4> QED BY <1>1, <1>2, <3>2, <4>2 DEF RevisionsFollowPrev
    <3> QED BY <3>1, <3>2
  <2>3. Last(revisions') = r
    BY <1>5 DEF Last
  <2>4. pc' = "parsed" => Last(revisions').trailer.prev = 0
    BY <1>1, <1>4, <1>6, <2>3
  <2> QED BY <1>5, <2>1, <2>2, <2>4 DEF RevisionsFollowPrev
<1>13. WalkFollowsPrev'
  <2>1. \A i \in DOMAIN revisions' : revisions'[i].offset \in seen'
    BY <1>1, <1>2, <1>3, <1>4, <1>5 DEF WalkFollowsPrev
  <2>2. Last(revisions') = r
    BY <1>5 DEF Last
  <2>3. Walking' => offset' = Last(revisions').trailer.prev
    BY <1>1, <1>4, <1>7, <2>2
  <2> QED BY <1>5, <1>7, <2>1, <2>3 DEF WalkFollowsPrev
<1>14. RecoveriesAreReported'
  <2>1. Owed = (IF Misplaced(offset) THEN 1 ELSE 0) /\ Owed' = 0
    BY <1>1, <1>3, <1>7 DEF Owed
  <2>2. /\ Cardinality(Relocated) \in Nat
        /\ Cardinality(Relocated') =
             Cardinality(Relocated) + (IF Misplaced(offset) THEN 1 ELSE 0)
    BY <1>1, <1>2, <1>4, RelocatedWithRevision
  <2>3. Recoveries + Owed <= diagnostics /\ scans \in Nat /\ diagnostics \in Nat
    BY <1>1, <1>2, StateTypes DEF RecoveriesAreReported
  <2>4. Recoveries' + Owed' <= diagnostics'
    BY <1>1, <2>1, <2>2, <2>3 DEF Recoveries
  <2> QED BY <2>4 DEF RecoveriesAreReported
<1> QED BY <1>9, <1>10, <1>11, <1>12, <1>13, <1>14 DEF IInv
-----------------------------------------------------------------------------
(* The theorems                                                            *)

LEMMA InitIInv ==
  ASSUME Init
  PROVE  IInv
<1> USE DEF Init
<1>1. /\ pc = "locate" /\ revisions = <<>> /\ DOMAIN revisions = {}
      /\ ~Reading /\ ~Calling /\ ~Walking
  BY DEF Reading, Calling, Walking
<1>2. /\ IsEntries(section.entries) /\ IsEntries(entries) /\ IsEntries(aggregated)
      /\ section.trailer \in Trailers
  BY NoEntriesTypes DEF NoSection
<1>3. TypeOK
  <2>1. mode.maxErrors \in Nat
    BY ModeAssumption
  <2>2. offset \in 0..FileSize /\ trail \in Seq(Offsets)
    BY SizeAssumption
  <2>3. diagnostics \in 0..mode.maxErrors /\ anomalies \in 0..diagnostics
    BY <2>1
  <2> QED BY <1>1, <1>2, <2>2, <2>3 DEF TypeOK, Steps
<1>4. TrailStartsHere
  BY <1>1, <1>2 DEF TrailStartsHere
<1>5. EntriesAreNewest
  <2>1. \A o : Mentions(o) = {}
    BY <1>1 DEF Mentions
  <2>2. DOMAIN Newest = {}
    BY <2>1 DEF Newest
  <2>3. Newest = NoEntries
    BY <2>2 DEF Newest, NoEntries
  <2> QED BY <2>3 DEF EntriesAreNewest
<1>6. RevisionsFollowPrev
  BY <1>1 DEF RevisionsFollowPrev
<1>7. WalkFollowsPrev
  BY <1>1 DEF WalkFollowsPrev
<1>8. RecoveriesAreReported
  <2>1. Relocated = {}
    BY <1>1 DEF Relocated
  <2>2. Recoveries = 0 /\ Owed = 0
    BY <2>1, FS_EmptySet DEF Recoveries, Owed
  <2> QED BY <2>2 DEF RecoveriesAreReported
<1> QED BY <1>3, <1>4, <1>5, <1>6, <1>7, <1>8 DEF IInv

(* Every step of the parser, or of nothing it does, keeps the invariant.   *)
LEMMA NextIInv ==
  ASSUME IInv, [Next]_vars
  PROVE  IInv'
<1>1. CASE UNCHANGED vars
  <2>1. /\ UNCHANGED <<file, mode, pc, offset, seen, trail, section, entries, aggregated>>
        /\ UNCHANGED <<trailer, revisions, diagnostics, anomalies, scans>>
    BY <1>1 DEF vars
  <2>2. TypeOK' /\ TrailStartsHere' /\ RevisionsFollowPrev' /\ WalkFollowsPrev'
    BY <2>1 DEF IInv, TypeOK, TrailStartsHere, RevisionsFollowPrev, WalkFollowsPrev,
       Walking, Calling, Reading
  <2>3. Newest' = Newest /\ Relocated' = Relocated
    BY <2>1 DEF Newest, Mentions, Relocated
  <2>4. EntriesAreNewest'
    BY <2>1, <2>3 DEF IInv, EntriesAreNewest
  <2>5. RecoveriesAreReported'
    BY <2>1, <2>3 DEF IInv, RecoveriesAreReported, Recoveries, Owed, Misplaced
  <2> QED BY <2>2, <2>4, <2>5 DEF IInv
<1>2. CASE Next
  BY <1>2, LocateIInv, ScanInsteadIInv, VisitIInv, UnreadableIInv, MergeIInv, ReadTableIInv,
     ReadStreamIInv, LookNearbyIInv, ScanIfEmptyIInv, UnwindIInv DEF Next
<1> QED BY <1>1, <1>2

LEMMA IInvHolds == Spec => []IInv
<1>1. Init => IInv
  BY InitIInv
<1>2. IInv /\ [Next]_vars => IInv'
  BY NextIInv
<1> QED BY <1>1, <1>2, PTL DEF Spec

(* The parser's state is well-formed, and it never records more            *)
(* diagnostics than it tolerates, whatever the file holds.                 *)
THEOREM XRefStateIsTyped == Spec => []TypeOK
<1>1. IInv => TypeOK
  BY DEF IInv
<1> QED BY <1>1, IInvHolds, PTL

(* Along any chain, the entry of an object is that of the newest revision  *)
(* that mentions it, or what a scan of the file has put over it.           *)
THEOREM NewestRevisionWins == Spec => []EntriesAreNewest
<1>1. IInv => EntriesAreNewest
  BY DEF IInv
<1> QED BY <1>1, IInvHolds, PTL

(* The revisions are the chain of /Prev from startxref, none of it twice,  *)
(* and all of it when there was nothing to report.                         *)
THEOREM ChainIsFollowed == Spec => []RevisionsFollowPrev
<1>1. IInv => RevisionsFollowPrev
  BY DEF IInv
<1> QED BY <1>1, IInvHolds, PTL

(* A document is returned with a diagnostic for each section that was      *)
(* found elsewhere and for each scan.                                      *)
THEOREM RecoveriesAreNeverSilent == Spec => []NoSilentRecovery
<1>1. IInv => NoSilentRecovery
  <2>1. SUFFICES ASSUME IInv, pc = "parsed"
                 PROVE  /\ Cardinality(Relocated) + scans <= diagnostics
                        /\ diagnostics <= mode.maxErrors
    BY DEF NoSilentRecovery
  <2>2. /\ diagnostics \in 0..mode.maxErrors /\ mode.maxErrors \in Nat /\ Recoveries \in Nat
        /\ RecoveriesAreReported
    BY <2>1, StateTypes DEF IInv
  <2>3. Owed = 0
    BY <2>1 DEF Owed
  <2>4. Recoveries <= diagnostics
    BY <2>1, <2>2, <2>3 DEF RecoveriesAreReported
  <2> QED BY <2>2, <2>4 DEF Recoveries
<1> QED BY <1>1, IInvHolds, PTL
=============================================================================
