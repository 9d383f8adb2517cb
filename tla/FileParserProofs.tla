-------------------------- MODULE FileParserProofs --------------------------
(***************************************************************************)
(* Proofs about the file parser: first ObjectLoader, for any file,         *)
(* whatever cycles its objects form, and any limits; then                  *)
(* DocumentStructure, whatever the page tree, the fields and the actions   *)
(* refer to. The invariant of load_object holds there too, since its calls *)
(* are made one at a time.                                                 *)
(***************************************************************************)
EXTENDS DocumentStructure, SequenceLemmas, SequenceTheorems, FiniteSetTheorems, TLAPS
-----------------------------------------------------------------------------
(* load_object: the inductive invariant                                    *)

Places  == {"start", "entered", "length", "relength", "container"}
WaitingPlaces == {"length", "relength", "container"}
Guesses == {"none", "stream", "observed"}
Answers == Values \cup {"none"}

Frames == [obj : Objects, at : Places, guess : Guesses]

TypesOK ==
  /\ tolerant \in BOOLEAN
  /\ doc \in Documents
  /\ cache \in [Objects -> Answers]
  /\ stack \in Seq(Frames)
  /\ depth \in Nat
  /\ used \in Nat /\ used <= MaxObjects
  /\ diagnostics \in 0 .. MaxErrors
  /\ blamed \subseteq Objects
  /\ stopped \in BOOLEAN
  /\ result \in [ok : BOOLEAN, of : Objects \cup {Nothing.of}, value : Answers]
  /\ result.ok => result.of \in Objects

KindOf(i) == doc.kind[stack[i].obj]
LinkOf(i) == doc.link[stack[i].obj]

(* Only the call at the top has not been entered; each of the others waits *)
(* for what its object depends on, which is the object of the next.        *)
CallsNest ==
  /\ depth = (IF stack = <<>> THEN 0
              ELSE IF Top.at = "start" THEN Len(stack) - 1 ELSE Len(stack))
  /\ depth <= MaxDepth
  /\ \A i \in 1 .. Len(stack) - 1 : /\ stack[i].at \in WaitingPlaces
                                    /\ stack[i + 1].obj = LinkOf(i)
  /\ (stack # <<>> /\ Top.at \in WaitingPlaces) => result.of = LinkOf(Len(stack))

(* A call waits only for what an object of its kind depends on. It parses  *)
(* a stream a second time after a first Length, which was a number, or     *)
(* which a tolerant parser could not get.                                  *)
KindsFit ==
  \A i \in 1 .. Len(stack) :
    /\ stack[i].at = "length" => KindOf(i) \in Streams
    /\ stack[i].at = "container" => KindOf(i) \in Members
    /\ stack[i].at = "relength" =>
         /\ KindOf(i) \in {"stream", "marked"}
         /\ \/ /\ stack[i].guess = "stream"
               /\ doc.kind[LinkOf(i)] \in {"number", "compressed"}
            \/ /\ stack[i].guess = "observed"
               /\ tolerant
               /\ KindOf(i) = "stream"

(* No substitute is an integer.                                            *)
IntegerOf(o, value) ==
  /\ value = "number" => doc.kind[o] \in {"number", "compressed"}
  /\ value = "short" => doc.kind[o] = "short"

IntegersAreExact ==
  /\ \A o \in Objects : IntegerOf(o, cache[o])
  /\ result.ok => IntegerOf(result.of, result.value)

(* Only a limit makes a tolerant parser substitute for an object that is   *)
(* read whole. The substitute is reported, and not cached.                 *)
WholesAreExact ==
  /\ \A o \in Objects :
       doc.kind[o] \in Wholes => cache[o] \in {"none", Exact(doc.kind[o])}
  /\ (result.ok /\ doc.kind[result.of] \in Wholes) =>
       \/ result.value = Exact(doc.kind[result.of])
       \/ result.of \in blamed

(* The i-th call cannot load the object o that it needs, now or later.     *)
Unloadable(i, o) ==
  \/ stopped
  \/ i >= MaxDepth
  \/ used = MaxObjects /\ cache[o] = "none"

(* A stream is cut at a Length that is too small without a diagnostic. It  *)
(* has one all the same if its first Length was another: what made the     *)
(* first load fail was reported, or makes the second fail as well.         *)
LengthsAgree ==
  \A i \in 1 .. Len(stack) :
    doc.kind[LinkOf(i)] = "short" =>
      /\ (stack[i].at = "relength" /\ stack[i].guess = "observed") =>
           \/ LinkOf(i) \in blamed
           \/ Unloadable(i, LinkOf(i)) /\ (i = Len(stack) => ~result.ok)
      /\ (i = Len(stack) /\ stack[i].at = "length") =>
           \/ LinkOf(i) \in blamed
           \/ result.ok /\ result.value = "short"
           \/ ~result.ok /\ Unloadable(i, LinkOf(i))

IInv ==
  /\ TypesOK
  /\ CallsNest
  /\ KindsFit
  /\ IntegersAreExact
  /\ WholesAreExact
  /\ LengthsAgree
  /\ WrongValuesAreExplained
-----------------------------------------------------------------------------
(* What a call does to the stack                                           *)

(* Every object has a kind, and depends on an object.                      *)
LEMMA FileTypes ==
  ASSUME TypesOK, NEW o \in Objects
  PROVE  doc.kind[o] \in Kinds /\ doc.link[o] \in Objects
BY DocumentAssumption DEF TypesOK

(* The frame of each call, and the call at the top.                        *)
LEMMA FrameTypes ==
  ASSUME TypesOK
  PROVE  /\ Len(stack) \in Nat
         /\ \A i \in 1 .. Len(stack) : /\ stack[i] \in Frames
                                       /\ stack[i].obj \in Objects
                                       /\ KindOf(i) \in Kinds
                                       /\ LinkOf(i) \in Objects
         /\ stack # <<>> => /\ Len(stack) \in 1 .. Len(stack)
                            /\ Top = stack[Len(stack)]
                            /\ Current \in Objects
                            /\ Kind = KindOf(Len(stack)) /\ Kind \in Kinds
                            /\ Link = LinkOf(Len(stack)) /\ Link \in Objects
<1>1. stack \in Seq(Frames) /\ Len(stack) \in Nat
  BY LenProperties DEF TypesOK
<1>2. ASSUME NEW i \in 1 .. Len(stack)
      PROVE  /\ stack[i] \in Frames /\ stack[i].obj \in Objects
             /\ KindOf(i) \in Kinds /\ LinkOf(i) \in Objects
  <2>1. stack[i] \in Frames
    BY <1>1, ElementOfSeq
  <2>2. stack[i].obj \in Objects
    BY <2>1 DEF Frames
  <2> QED BY <2>1, <2>2, FileTypes DEF KindOf, LinkOf
<1>3. ASSUME stack # <<>> PROVE Len(stack) \in 1 .. Len(stack)
  BY <1>1, <1>3, EmptySeq
<1> QED BY <1>1, <1>2, <1>3 DEF Top, Last, Current, Kind, Link, KindOf, LinkOf

(* A return removes the frame at the top.                                  *)
LEMMA FrontProperties ==
  ASSUME TypesOK, stack # <<>>
  PROVE  /\ Front(stack) \in Seq(Frames)
         /\ Len(Front(stack)) = Len(stack) - 1
         /\ \A i \in 1 .. Len(stack) - 1 : Front(stack)[i] = stack[i]
<1> DEFINE m == Len(stack) - 1
<1>1. /\ m \in Nat /\ 1 \in Int
      /\ \A i \in 1..m : stack[i] \in Frames
  BY FrameTypes
<1> HIDE DEF m
<1>2. /\ SubSeq(stack, 1, m) \in Seq(Frames)
      /\ Len(SubSeq(stack, 1, m)) = IF 1 <= m THEN m - 1 + 1 ELSE 0
      /\ \A i \in 1 .. m - 1 + 1 : SubSeq(stack, 1, m)[i] = stack[1 + i - 1]
  BY <1>1, SubSeqProperties
<1>3. /\ Len(SubSeq(stack, 1, m)) = m
      /\ \A i \in 1..m : SubSeq(stack, 1, m)[i] = stack[i]
  BY <1>1, <1>2
<1>4. Front(stack) = SubSeq(stack, 1, m)
  BY DEF Front, m
<1> QED BY <1>2, <1>3, <1>4 DEF m

(* A nested call changes where the frame at the top goes on, and adds one. *)
LEMMA NestProperties ==
  ASSUME TypesOK, stack # <<>>, NEW place \in Places, NEW guess \in Guesses,
         NEW o \in Objects, Nest(o, place, guess)
  PROVE  /\ stack' \in Seq(Frames)
         /\ Len(stack') = Len(stack) + 1
         /\ \A i \in 1 .. Len(stack) - 1 : stack'[i] = stack[i]
         /\ stack'[Len(stack)] = [obj |-> Current, at |-> place, guess |-> guess]
         /\ stack'[Len(stack) + 1] = Frame(o)
<1> DEFINE n == Len(stack)
           f == [obj |-> Current, at |-> place, guess |-> guess]
           s == [stack EXCEPT ![n] = f]
<1>1. stack \in Seq(Frames) /\ n \in Nat /\ n \in 1..n
  BY FrameTypes DEF TypesOK
<1>2. f \in Frames
  BY FrameTypes DEF Frames
<1>3. Frame(o) \in Frames
  BY DEF Frame, Frames, Places, Guesses
<1>4. stack' = Append(s, Frame(o))
  BY DEF Nest
<1>5. /\ s \in Seq(Frames) /\ Len(s) = n
      /\ \A i \in 1..n : s[i] = IF i = n THEN f ELSE stack[i]
  <2> HIDE DEF f
  <2> QED BY <1>1, <1>2, ExceptSeq
<1> HIDE DEF s, f
<1>6. /\ stack' \in Seq(Frames) /\ Len(stack') = n + 1
      /\ \A i \in 1..n : stack'[i] = s[i]
      /\ stack'[n + 1] = Frame(o)
  BY <1>3, <1>4, <1>5, AppendProperties
<1>7. f = [obj |-> Current, at |-> place, guess |-> guess]
  BY DEF f
<1> QED BY <1>1, <1>5, <1>6, <1>7

(* A call that is entered is the one at the top, and changes only its      *)
(* place.                                                                  *)
LEMMA EnterProperties ==
  ASSUME TypesOK, stack # <<>>,
         stack' = [stack EXCEPT ![Len(stack)].at = "entered"]
  PROVE  /\ stack' \in Seq(Frames)
         /\ Len(stack') = Len(stack)
         /\ \A i \in 1 .. Len(stack) - 1 : stack'[i] = stack[i]
         /\ stack'[Len(stack)] = [obj |-> Current, at |-> "entered", guess |-> Top.guess]
<1> DEFINE n == Len(stack)
           e == stack[n]
           f == [e EXCEPT !.at = "entered"]
           s == [stack EXCEPT ![n] = f]
<1>1. stack \in Seq(Frames) /\ n \in Nat /\ n \in 1..n /\ e \in Frames /\ Top = e
  BY FrameTypes DEF TypesOK
<1>2. stack' = s
  OBVIOUS
<1>3. f \in Frames /\ f = [obj |-> e.obj, at |-> "entered", guess |-> e.guess]
  <2> HIDE DEF e
  <2> QED BY <1>1 DEF Frames, Places
<1>4. /\ s \in Seq(Frames) /\ Len(s) = n
      /\ \A i \in 1..n : s[i] = IF i = n THEN f ELSE stack[i]
  <2> HIDE DEF f
  <2> QED BY <1>1, <1>3, ExceptSeq
<1> HIDE DEF s, f, e
<1> QED BY <1>1, <1>2, <1>3, <1>4 DEF Current
-----------------------------------------------------------------------------
(* The ways a call goes on                                                 *)

(* What the invariant says of the call at the top: if it has been entered, *)
(* depth counts it. The call below it waits for its object.                *)
LEMMA TopCall ==
  ASSUME IInv, stack # <<>>
  PROVE  /\ depth = IF Top.at = "start" THEN Len(stack) - 1 ELSE Len(stack)
         /\ Len(stack) > 1 => /\ stack[Len(stack) - 1].at \in WaitingPlaces
                              /\ Current = LinkOf(Len(stack) - 1)
<1>1. /\ depth = IF Top.at = "start" THEN Len(stack) - 1 ELSE Len(stack)
      /\ \A i \in 1 .. Len(stack) - 1 : /\ stack[i].at \in WaitingPlaces
                                        /\ stack[i + 1].obj = LinkOf(i)
  BY DEF IInv, CallsNest
<1>2. Len(stack) \in Nat /\ Current = stack[Len(stack)].obj
  BY FrameTypes DEF IInv, Current
<1>3. ASSUME Len(stack) > 1
      PROVE  /\ stack[Len(stack) - 1].at \in WaitingPlaces
             /\ Current = LinkOf(Len(stack) - 1)
  <2>1. /\ Len(stack) - 1 \in 1 .. Len(stack) - 1
        /\ Len(stack) - 1 + 1 = Len(stack)
    BY <1>2, <1>3
  <2> QED BY <1>1, <1>2, <2>1
<1> QED BY <1>1, <1>3

(* The call at the top, for object o and above n others, returns. Its      *)
(* answer is exact or excused; and if it failed to load a Length that is   *)
(* too small, it will fail again, unless there is a diagnostic about it.   *)
Returns(o, n, ok, value) ==
  /\ stack # <<>>
  /\ o = Current
  /\ n = Len(stack) - 1
  /\ Leave(ok, value)
  /\ UNCHANGED <<file, stopped>>
  /\ depth' = IF Top.at = "start" THEN depth ELSE depth - 1
  /\ \/ UNCHANGED cache
     \/ ok /\ cache' = [cache EXCEPT ![o] = value]
  /\ used' \in Nat /\ used <= used' /\ used' <= MaxObjects
  /\ diagnostics' \in 0 .. MaxErrors
  /\ blamed \subseteq blamed' /\ blamed' \subseteq Objects
  /\ ok => /\ value = Exact(Kind) \/ Excused(o)'
           /\ IntegerOf(o, value)
           /\ Kind \in Wholes => \/ value = Exact(Kind)
                                 \/ o \in blamed' /\ UNCHANGED cache
  /\ Kind = "short" => \/ o \in blamed'
                       \/ ok /\ value = "short" /\ ~Unloadable(n, o)
                       \/ ~ok /\ Unloadable(n, o)'

(* A return keeps the invariant.                                           *)
LEMMA ReturnLemma ==
  ASSUME IInv, NEW o, NEW n, NEW ok \in BOOLEAN, NEW value \in Answers,
         Returns(o, n, ok, value)
  PROVE  IInv'
<1> USE DEF Returns
<1>1. /\ TypesOK /\ CallsNest /\ KindsFit /\ IntegersAreExact /\ LengthsAgree
      /\ WholesAreExact /\ WrongValuesAreExplained
  BY DEF IInv
<1>2. /\ n \in Nat /\ Len(stack) = n + 1
      /\ o \in Objects /\ Top = stack[n + 1] /\ o = stack[n + 1].obj
      /\ Kind = doc.kind[o]
      /\ \A i \in 1 .. n + 1 : LinkOf(i) \in Objects
  BY <1>1, FrameTypes DEF Current, Kind
<1>3. /\ stack' \in Seq(Frames) /\ Len(stack') = n
      /\ \A i \in 1..n : stack'[i] = stack[i]
  BY <1>1, FrontProperties DEF Leave
<1>4. /\ tolerant' = tolerant /\ doc' = doc /\ stopped' = stopped
      /\ result' = [ok |-> ok, of |-> o, value |-> value]
  BY DEF file, Leave
<1>5. /\ depth' = n /\ n <= depth
      /\ n > 0 => stack[n].at \in WaitingPlaces /\ o = LinkOf(n)
  BY <1>2, TopCall
<1>6. TypesOK'
  <2>1. cache' \in [Objects -> Answers]
    BY <1>1, <1>2 DEF TypesOK
  <2>2. result' \in [ok : BOOLEAN, of : Objects \cup {Nothing.of}, value : Answers]
    BY <1>2, <1>4
  <2> QED BY <1>1, <1>2, <1>3, <1>4, <1>5, <2>1, <2>2 DEF TypesOK
<1>7. /\ \A i \in 1..n : KindOf(i)' = KindOf(i) /\ LinkOf(i)' = LinkOf(i)
      /\ n > 0 => stack' # <<>> /\ Top' = stack[n]
      /\ n = 0 => stack' = <<>>
  BY <1>2, <1>3, <1>4, EmptySeq DEF KindOf, LinkOf, Top, Last
<1>8. CallsNest'
  <2>1. depth' = (IF stack' = <<>> THEN 0
                  ELSE IF Top'.at = "start" THEN Len(stack') - 1 ELSE Len(stack'))
    <3>1. CASE n = 0
      BY <1>5, <1>7, <3>1
    <3>2. CASE n > 0
      <4>1. stack' # <<>> /\ Top'.at # "start"
        BY <1>5, <1>7, <3>2 DEF WaitingPlaces
      <4> QED BY <1>3, <1>5, <4>1
    <3> QED BY <1>2, <3>1, <3>2
  <2>2. depth' <= MaxDepth
    <3>1. n <= depth /\ depth <= MaxDepth /\ depth \in Nat
      BY <1>1, <1>5 DEF CallsNest, TypesOK
    <3> HIDE DEF Returns
    <3>2. MaxDepth \in Nat /\ n \in Nat /\ depth' = n
      BY <1>2, <1>5, LoaderAssumption
    <3> QED BY <3>1, <3>2, <1>5
  <2>3. ASSUME NEW i \in 1 .. n - 1
        PROVE  stack'[i].at \in WaitingPlaces /\ stack'[i + 1].obj = LinkOf(i)'
    <3>1. i \in 1..n /\ i + 1 \in 1..n /\ i \in 1 .. Len(stack) - 1
      BY <1>2
    <3>2. stack[i].at \in WaitingPlaces /\ stack[i + 1].obj = LinkOf(i)
      BY <1>1, <3>1 DEF CallsNest
    <3> QED BY <1>3, <1>7, <3>1, <3>2
  <2>4. ASSUME stack' # <<>> PROVE result'.of = LinkOf(n)'
    <3>1. n > 0 /\ n \in 1..n
      BY <1>2, <1>7, <2>4
    <3> QED BY <1>4, <1>5, <1>7, <3>1
  <2> QED BY <1>3, <2>1, <2>2, <2>3, <2>4 DEF CallsNest, Top
<1>9. KindsFit'
  <2> SUFFICES ASSUME NEW i \in 1..n
      PROVE /\ stack'[i].at = "length" => KindOf(i)' \in Streams
            /\ stack'[i].at = "container" => KindOf(i)' \in Members
            /\ stack'[i].at = "relength" =>
                 /\ KindOf(i)' \in {"stream", "marked"}
                 /\ \/ /\ stack'[i].guess = "stream"
                       /\ doc'.kind[LinkOf(i)'] \in {"number", "compressed"}
                    \/ /\ stack'[i].guess = "observed"
                       /\ tolerant'
                       /\ KindOf(i)' = "stream"
    BY <1>3 DEF KindsFit
  <2>1. stack'[i] = stack[i] /\ KindOf(i)' = KindOf(i) /\ LinkOf(i)' = LinkOf(i)
    BY <1>3, <1>7
  <2>2. i \in 1 .. Len(stack)
    BY <1>2
  <2> HIDE DEF Returns
  <2> QED BY <1>1, <1>4, <2>1, <2>2 DEF KindsFit
<1>10. IntegersAreExact' /\ WholesAreExact'
  <2>1. ASSUME NEW p \in Objects
        PROVE  /\ IntegerOf(p, cache[p])'
               /\ doc'.kind[p] \in Wholes => cache'[p] \in {"none", Exact(doc'.kind[p])}
    <3>1. CASE cache'[p] = cache[p]
      BY <1>1, <1>4, <3>1 DEF IntegersAreExact, WholesAreExact, IntegerOf
    <3>2. CASE p = o /\ ok /\ cache' # cache /\ cache'[p] = value
      <4>1. IntegerOf(p, value)'
        BY <1>4, <3>2 DEF IntegerOf
      <4>2. doc'.kind[p] \in Wholes => value = Exact(doc'.kind[p])
        BY <1>2, <1>4, <3>2
      <4> QED BY <3>2, <4>1, <4>2 DEF IntegerOf
    <3>3. cache'[p] = cache[p] \/ (p = o /\ ok /\ cache' # cache /\ cache'[p] = value)
      BY <1>1, <1>2 DEF TypesOK
    <3> QED BY <3>1, <3>2, <3>3
  <2>2. result'.ok => IntegerOf(result.of, result.value)'
    BY <1>4 DEF IntegerOf
  <2>3. (result'.ok /\ doc'.kind[result'.of] \in Wholes) =>
          result'.value = Exact(doc'.kind[result'.of]) \/ result'.of \in blamed'
    BY <1>2, <1>4
  <2> QED BY <2>1, <2>2, <2>3 DEF IntegersAreExact, WholesAreExact
<1>11. LengthsAgree'
  <2> SUFFICES ASSUME NEW i \in 1..n, doc.kind[LinkOf(i)] = "short"
      PROVE /\ (stack[i].at = "relength" /\ stack[i].guess = "observed") =>
                 \/ LinkOf(i) \in blamed'
                 \/ Unloadable(i, LinkOf(i))' /\ (i = n => ~ok)
            /\ (i = n /\ stack[i].at = "length") =>
                 \/ LinkOf(i) \in blamed'
                 \/ ok /\ value = "short"
                 \/ ~ok /\ Unloadable(i, LinkOf(i))'
    BY <1>3, <1>4, <1>7 DEF LengthsAgree, Unloadable
  <2>1. CASE i = n
    <3>1. o = LinkOf(i) /\ Kind = "short" /\ doc.kind[o] = "short"
      <4> HIDE DEF Returns
      <4> QED BY <1>2, <1>5, <2>1
    <3>2. \/ o \in blamed'
          \/ ok /\ value = "short" /\ ~Unloadable(i, o)
          \/ ~ok /\ Unloadable(i, o)'
      BY <2>1, <3>1
    <3>3. (stack[i].at = "relength" /\ stack[i].guess = "observed") =>
             o \in blamed \/ Unloadable(i, o)
      <4>1. i \in 1 .. Len(stack)
        BY <1>2
      <4> QED BY <1>1, <3>1, <4>1 DEF LengthsAgree
    <3>4. Unloadable(i, LinkOf(i))' <=> Unloadable(i, o)'
      BY <1>4, <1>7, <3>1 DEF Unloadable
    <3> QED BY <3>1, <3>2, <3>3, <3>4
  <2>2. CASE i # n
    <3>1. i \in 1 .. n + 1 /\ i + 1 \in 1..n /\ i # n
      BY <1>2, <2>2
    <3>2. stack[i + 1].at \in WaitingPlaces /\ KindOf(i + 1) = "short"
      BY <1>1, <3>1 DEF CallsNest, KindOf
    <3>3. FALSE
      BY <1>1, <1>2, <3>1, <3>2 DEF KindsFit, WaitingPlaces, Streams, Members
    <3> QED BY <3>3
  <2> QED BY <2>1, <2>2
<1>12. WrongValuesAreExplained'
  <2>1. ASSUME NEW p \in Objects, Excused(p) PROVE Excused(p)'
    BY <1>4, <2>1 DEF Excused
  <2>2. ASSUME NEW p \in Objects
        PROVE  cache'[p] \in {"none", Exact(doc'.kind[p])} \/ Excused(p)'
    <3>1. cache'[p] = cache[p] \/ (p = o /\ ok /\ cache'[p] = value)
      BY <1>1, <1>2 DEF TypesOK
    <3> QED BY <1>1, <1>2, <1>4, <2>1, <3>1 DEF WrongValuesAreExplained
  <2>3. result'.ok => \/ result'.value = Exact(doc'.kind[result'.of])
                      \/ Excused(result.of)'
    BY <1>2, <1>4 DEF Excused
  <2> QED BY <2>2, <2>3 DEF WrongValuesAreExplained
<1> QED BY <1>6, <1>8, <1>9, <1>10, <1>11, <1>12 DEF IInv

(* A nested call keeps the invariant, if the call that makes it then waits *)
(* for something that its object depends on.                               *)
LEMMA NestLemma ==
  ASSUME IInv, stack # <<>>, Top.at # "start",
         NEW place \in WaitingPlaces, NEW guess \in Guesses, NEW o \in Objects, o = Link,
         Nest(o, place, guess),
         UNCHANGED <<file, cache, depth, diagnostics, blamed, stopped, result>>,
         used' \in Nat, used <= used', used' <= MaxObjects,
         place = "length" => Kind \in Streams,
         place = "container" => Kind \in Members,
         place = "relength" =>
           /\ Kind \in {"stream", "marked"}
           /\ \/ guess = "stream" /\ doc.kind[o] \in {"number", "compressed"}
              \/ guess = "observed" /\ tolerant /\ Kind = "stream"
           /\ (guess = "observed" /\ doc.kind[o] = "short") =>
                o \in blamed \/ Unloadable(Len(stack), o)
  PROVE  IInv'
<1>1. /\ TypesOK /\ CallsNest /\ KindsFit /\ IntegersAreExact /\ LengthsAgree
      /\ WholesAreExact /\ WrongValuesAreExplained
  BY DEF IInv
<1>2. PICK n : n = Len(stack)
  OBVIOUS
<1>3. /\ n \in Nat /\ n >= 1
      /\ Top = stack[n] /\ Kind = KindOf(n) /\ o = LinkOf(n)
      /\ Current = stack[n].obj
  BY <1>1, <1>2, FrameTypes DEF Current
<1>4. place \in Places /\ place # "start"
  BY DEF WaitingPlaces, Places
<1>5. /\ stack' \in Seq(Frames) /\ Len(stack') = n + 1
      /\ \A i \in 1 .. n - 1 : stack'[i] = stack[i]
      /\ stack'[n] = [obj |-> Current, at |-> place, guess |-> guess]
      /\ stack'[n + 1] = [obj |-> o, at |-> "start", guess |-> "none"]
  BY <1>1, <1>2, <1>4, NestProperties DEF Frame
<1>6. /\ tolerant' = tolerant /\ doc' = doc /\ cache' = cache /\ depth' = depth
      /\ diagnostics' = diagnostics /\ blamed' = blamed /\ stopped' = stopped
      /\ result' = result
  BY DEF file
<1>7. \A i \in 1..n : KindOf(i)' = KindOf(i) /\ LinkOf(i)' = LinkOf(i)
  <2>1. ASSUME NEW i \in 1..n PROVE stack'[i].obj = stack[i].obj
    BY <1>3, <1>5
  <2> QED BY <1>6, <2>1 DEF KindOf, LinkOf
<1>8. stack' # <<>> /\ Top' = [obj |-> o, at |-> "start", guess |-> "none"]
  BY <1>3, <1>5, EmptySeq DEF Top, Last
<1>9. TypesOK'
  BY <1>1, <1>5, <1>6 DEF TypesOK
<1>10. CallsNest'
  <2>1. depth' = n /\ depth' <= MaxDepth
    BY <1>1, <1>2, <1>6 DEF CallsNest
  <2>2. ASSUME NEW i \in 1..n
        PROVE  stack'[i].at \in WaitingPlaces /\ stack'[i + 1].obj = LinkOf(i)'
    <3>1. CASE i = n
      BY <1>3, <1>5, <1>7, <3>1
    <3>2. CASE i # n
      <4>1. i \in 1 .. n - 1 /\ i + 1 \in 1..n
        BY <1>3, <3>2
      <4>2. stack[i].at \in WaitingPlaces /\ stack[i + 1].obj = LinkOf(i)
        BY <1>1, <1>2, <4>1 DEF CallsNest
      <4>3. stack'[i + 1].obj = stack[i + 1].obj
        BY <1>3, <1>5, <4>1
      <4> QED BY <1>5, <1>7, <4>1, <4>2, <4>3
    <3> QED BY <3>1, <3>2
  <2>3. Top'.at \notin WaitingPlaces
    BY <1>8 DEF WaitingPlaces
  <2> QED BY <1>3, <1>5, <1>8, <2>1, <2>2, <2>3 DEF CallsNest
<1>11. KindsFit'
  <2> SUFFICES ASSUME NEW i \in 1 .. n + 1
      PROVE /\ stack'[i].at = "length" => KindOf(i)' \in Streams
            /\ stack'[i].at = "container" => KindOf(i)' \in Members
            /\ stack'[i].at = "relength" =>
                 /\ KindOf(i)' \in {"stream", "marked"}
                 /\ \/ /\ stack'[i].guess = "stream"
                       /\ doc'.kind[LinkOf(i)'] \in {"number", "compressed"}
                    \/ /\ stack'[i].guess = "observed"
                       /\ tolerant'
                       /\ KindOf(i)' = "stream"
    BY <1>5 DEF KindsFit
  <2>1. CASE i = n + 1
    BY <1>5, <2>1
  <2>2. CASE i = n
    BY <1>3, <1>5, <1>6, <1>7, <2>2
  <2>3. CASE i \in 1 .. n - 1
    <3>1. i \in 1..n
      BY <1>3, <2>3
    <3> QED BY <1>1, <1>2, <1>5, <1>6, <1>7, <2>3, <3>1 DEF KindsFit
  <2> QED BY <1>3, <2>1, <2>2, <2>3
<1>12. IntegersAreExact' /\ WholesAreExact'
  BY <1>1, <1>6 DEF IntegersAreExact, WholesAreExact, IntegerOf
<1>13. ASSUME NEW i, NEW p, Unloadable(i, p) PROVE Unloadable(i, p)'
  BY <1>1, <1>6, <1>13, LoaderAssumption DEF Unloadable, TypesOK
<1>14. LengthsAgree'
  <2> SUFFICES ASSUME NEW i \in 1 .. n + 1, doc'.kind[LinkOf(i)'] = "short"
      PROVE /\ (stack'[i].at = "relength" /\ stack'[i].guess = "observed") =>
                 \/ LinkOf(i)' \in blamed'
                 \/ Unloadable(i, LinkOf(i))' /\ (i = n + 1 => ~result'.ok)
            /\ (i = n + 1 /\ stack'[i].at = "length") =>
                 \/ LinkOf(i)' \in blamed'
                 \/ result'.ok /\ result'.value = "short"
                 \/ ~result'.ok /\ Unloadable(i, LinkOf(i))'
    BY <1>5 DEF LengthsAgree
  <2>1. CASE i = n + 1
    BY <1>5, <2>1
  <2>2. CASE i = n
    <3>1. /\ i # n + 1 /\ LinkOf(i)' = o
          /\ (Unloadable(i, LinkOf(i))' <=> Unloadable(i, o)')
      BY <1>3, <1>7, <2>2 DEF Unloadable
    <3>2. (place = "relength" /\ guess = "observed") => o \in blamed \/ Unloadable(i, o)
      BY <1>2, <1>6, <2>2, <3>1
    <3> QED BY <1>5, <1>6, <1>13, <2>2, <3>1, <3>2
  <2>3. CASE i \in 1 .. n - 1
    <3>1. i \in 1..n /\ i # n + 1 /\ i # n
      BY <1>3, <2>3
    <3>2. (stack[i].at = "relength" /\ stack[i].guess = "observed") =>
             LinkOf(i) \in blamed \/ Unloadable(i, LinkOf(i))
      BY <1>1, <1>2, <1>6, <1>7, <3>1 DEF LengthsAgree
    <3>3. Unloadable(i, LinkOf(i)) => Unloadable(i, LinkOf(i))'
      <4>1. PICK p : p = LinkOf(i)
        OBVIOUS
      <4>2. Unloadable(i, LinkOf(i))' <=> Unloadable(i, p)'
        BY <1>7, <3>1, <4>1 DEF Unloadable
      <4> QED BY <1>13, <4>1, <4>2
    <3> QED BY <1>5, <1>6, <1>7, <2>3, <3>1, <3>2, <3>3
  <2> QED BY <1>3, <2>1, <2>2, <2>3
<1>15. WrongValuesAreExplained'
  BY <1>1, <1>6 DEF WrongValuesAreExplained, Excused
<1> QED BY <1>9, <1>10, <1>11, <1>12, <1>14, <1>15 DEF IInv

(* A call that fails keeps the invariant.                                  *)
LEMMA FailLemma ==
  ASSUME IInv, stack # <<>>, Top.at # "start", Fail, Quiet, UNCHANGED <<file, stopped>>,
         used' \in Nat, used <= used', used' <= MaxObjects,
         Kind = "short" => UNCHANGED used /\ Unloadable(Len(stack) - 1, Current)
  PROVE  IInv'
<1>1. PICK o, n : o = Current /\ n = Len(stack) - 1
  OBVIOUS
<1>2. TypesOK
  BY DEF IInv
<1>3. Kind = "short" => Unloadable(n, o)'
  BY <1>1, <1>2, FrameTypes DEF Unloadable, Fail, file
<1>4. Returns(o, n, FALSE, "none")
  BY <1>1, <1>2, <1>3 DEF Returns, Fail, Quiet, TypesOK
<1> QED BY <1>4, ReturnLemma DEF Answers

(* An answer that is exact, or that has an excuse, keeps it.               *)
LEMMA AnswerLemma ==
  ASSUME IInv, stack # <<>>, Top.at # "start", NEW value \in Answers,
         Give(value) \/ Keep(value), UNCHANGED <<file, stopped>>,
         used' \in Nat, used <= used', used' <= MaxObjects,
         diagnostics' \in 0 .. MaxErrors, blamed \subseteq blamed', blamed' \subseteq Objects,
         \/ value = Exact(Kind)
         \/ tolerant /\ (Current \in blamed' \/ Link \in blamed' \/ Kind = "absent"),
         IntegerOf(Current, value),
         Kind \in Wholes => value = Exact(Kind),
         Kind = "short" => value = "short" /\ ~Unloadable(Len(stack) - 1, Current)
  PROVE  IInv'
<1>1. PICK o, n : o = Current /\ n = Len(stack) - 1
  OBVIOUS
<1>2. UNCHANGED cache \/ cache' = [cache EXCEPT ![o] = value]
  BY <1>1 DEF Give, Keep
<1>3. value = Exact(Kind) \/ Excused(o)'
  BY <1>1 DEF Excused, Kind, Link, file
<1>4. /\ Leave(TRUE, value)
      /\ depth' = IF Top.at = "start" THEN depth ELSE depth - 1
  BY DEF Give, Keep
<1>5. IntegerOf(o, value)
  BY <1>1
<1>6. Returns(o, n, TRUE, value)
  BY <1>1, <1>2, <1>3, <1>4, <1>5 DEF Returns
<1> QED BY <1>6, ReturnLemma

(* The substitutes for what is damaged: none is an integer.                *)
Substitutes == {"null", "observed", "stream"}

(* A defect of the object, or of what it depends on, keeps it: there is a  *)
(* diagnostic, or the call fails.                                          *)
LEMMA DefectLemma ==
  ASSUME IInv, stack # <<>>, Top.at # "start", Kind \notin Wholes,
         NEW value \in Substitutes, NEW o \in {Current, Link}, Defect(o, value),
         UNCHANGED <<file, stopped>>,
         used' \in Nat, used <= used', used' <= MaxObjects
  PROVE  IInv'
<1>1. TypesOK /\ Current \in Objects /\ Link \in Objects /\ Kind # "short"
  BY FrameTypes DEF IInv, Wholes
<1>2. CASE tolerant /\ Record(o) /\ Substitute(value)
  <2>1. /\ diagnostics' \in 0 .. MaxErrors
        /\ blamed \subseteq blamed' /\ blamed' \subseteq Objects /\ o \in blamed'
    BY <1>1, <1>2, LoaderAssumption DEF Record, CanRecord, TypesOK
  <2>2. value \in Answers /\ IntegerOf(Current, value)
    BY DEF Substitutes, Answers, Values, IntegerOf
  <2>3. Give(value) \/ Keep(value)
    BY <1>2 DEF Substitute
  <2>4. tolerant /\ (Current \in blamed' \/ Link \in blamed' \/ Kind = "absent")
    BY <1>2, <2>1
  <2> QED BY <1>1, <2>1, <2>2, <2>3, <2>4, AnswerLemma
<1>3. CASE Quiet /\ Fail
  BY <1>1, <1>3, FailLemma
<1> QED BY <1>2, <1>3 DEF Defect
-----------------------------------------------------------------------------
(* The steps                                                               *)

(* The invariant holds at first.                                           *)
LEMMA InitIInv == Init => IInv
<1> SUFFICES ASSUME Init PROVE IInv
  OBVIOUS
<1> USE DEF Init
<1>1. PICK x : x = Nothing.of /\ result = [ok |-> FALSE, of |-> x, value |-> "none"]
  BY DEF Nothing
<1>2. TypesOK
  <2>1. stack \in Seq(Frames) /\ cache \in [Objects -> Answers]
    BY EmptySeq DEF Answers
  <2>2. result \in [ok : BOOLEAN, of : Objects \cup {Nothing.of}, value : Answers]
    BY <1>1 DEF Answers
  <2>3. 0 \in Nat /\ 0 <= MaxObjects /\ 0 \in 0 .. MaxErrors /\ ~result.ok
    BY <1>1, LoaderAssumption
  <2> QED BY <2>1, <2>2, <2>3 DEF TypesOK
<1>3. Len(stack) = 0 /\ ~result.ok /\ \A o \in Objects : cache[o] = "none"
  BY <1>1, EmptySeq
<1>4. CallsNest /\ KindsFit /\ LengthsAgree
  BY <1>3, LoaderAssumption DEF CallsNest, KindsFit, LengthsAgree
<1>5. IntegersAreExact /\ WholesAreExact /\ WrongValuesAreExplained
  BY <1>3 DEF IntegersAreExact, WholesAreExact, IntegerOf, WrongValuesAreExplained
<1> QED BY <1>2, <1>4, <1>5 DEF IInv

(* A call of the program, with no other in progress.                       *)
LEMMA CallIInv ==
  ASSUME IInv, NEW o \in Objects, Call(o)
  PROVE  IInv'
<1> USE DEF Call
<1>1. /\ TypesOK /\ CallsNest /\ KindsFit /\ IntegersAreExact /\ LengthsAgree
      /\ WholesAreExact /\ WrongValuesAreExplained
  BY DEF IInv
<1>2. /\ Frame(o) = [obj |-> o, at |-> "start", guess |-> "none"]
      /\ Frame(o) \in Frames
  BY DEF Frame, Frames, Places, Guesses
<1>3. /\ stack' = <<Frame(o)>> /\ stack' \in Seq(Frames)
      /\ Len(stack') = 1 /\ stack'[1] = Frame(o) /\ stack' # <<>>
  BY <1>2
<1>4. Top' = Frame(o) /\ depth = 0
  BY <1>1, <1>3 DEF Top, Last, CallsNest
<1>5. TypesOK'
  BY <1>1, <1>3 DEF TypesOK
<1>6. CallsNest'
  BY <1>1, <1>2, <1>3, <1>4 DEF CallsNest, WaitingPlaces
<1>7. KindsFit' /\ LengthsAgree'
  <2>1. \A i \in 1 .. Len(stack') : stack'[i].at = "start"
    BY <1>2, <1>3
  <2> QED BY <2>1 DEF KindsFit, LengthsAgree
<1>8. IntegersAreExact' /\ WholesAreExact' /\ WrongValuesAreExplained'
  BY <1>1 DEF IntegersAreExact, WholesAreExact, IntegerOf, WrongValuesAreExplained, Excused
<1> QED BY <1>5, <1>6, <1>7, <1>8 DEF IInv

(* Cancellation.                                                           *)
LEMMA StopIInv ==
  ASSUME IInv, Stop
  PROVE  IInv'
<1> USE DEF Stop, file
<1>1. /\ TypesOK /\ CallsNest /\ KindsFit /\ IntegersAreExact /\ LengthsAgree
      /\ WholesAreExact /\ WrongValuesAreExplained
  BY DEF IInv
<1>2. \A i \in 1 .. Len(stack) : KindOf(i)' = KindOf(i) /\ LinkOf(i)' = LinkOf(i)
  BY DEF KindOf, LinkOf
<1>3. TypesOK'
  BY <1>1 DEF TypesOK
<1>4. CallsNest'
  BY <1>1 DEF CallsNest, Top, LinkOf
<1>5. KindsFit'
  BY <1>1 DEF KindsFit, KindOf, LinkOf
<1>6. LengthsAgree'
  BY <1>1 DEF LengthsAgree, Unloadable, LinkOf
<1>7. IntegersAreExact' /\ WholesAreExact' /\ WrongValuesAreExplained'
  BY <1>1 DEF IntegersAreExact, WholesAreExact, IntegerOf, WrongValuesAreExplained, Excused
<1> QED BY <1>3, <1>4, <1>5, <1>6, <1>7 DEF IInv

(* Any other step that changes nothing.                                    *)
LEMMA StutterIInv ==
  ASSUME IInv, UNCHANGED vars
  PROVE  IInv'
<1> USE DEF vars
<1>1. TypesOK' /\ CallsNest' /\ KindsFit'
  BY DEF IInv, TypesOK, CallsNest, KindsFit, Top, KindOf, LinkOf
<1>2. LengthsAgree'
  BY DEF IInv, LengthsAgree, Unloadable, LinkOf
<1>3. IntegersAreExact' /\ WholesAreExact' /\ WrongValuesAreExplained'
  BY DEF IInv, IntegersAreExact, WholesAreExact, IntegerOf, WrongValuesAreExplained, Excused
<1> QED BY <1>1, <1>2, <1>3 DEF IInv

(* Beyond the depth limit.                                                 *)
LEMMA TooDeepIInv ==
  ASSUME IInv, TooDeep
  PROVE  IInv'
<1> USE DEF TooDeep, Running
<1>1. PICK o, n : o = Current /\ n = Len(stack) - 1
  OBVIOUS
<1>2. TypesOK /\ o \in Objects /\ depth = n /\ n \in Nat
  BY <1>1, FrameTypes, TopCall DEF IInv
<1>3. /\ UNCHANGED <<file, stopped>> /\ UNCHANGED cache /\ stack # <<>>
      /\ depth' = IF Top.at = "start" THEN depth ELSE depth - 1
      /\ used' \in Nat /\ used <= used' /\ used' <= MaxObjects
  BY <1>2 DEF TypesOK
<1>4. CASE tolerant /\ Record(Current) /\ Leave(TRUE, "null")
  <2>1. /\ diagnostics' \in 0 .. MaxErrors
        /\ blamed \subseteq blamed' /\ blamed' \subseteq Objects /\ o \in blamed'
    BY <1>1, <1>2, <1>4, LoaderAssumption DEF Record, CanRecord, TypesOK
  <2>2. Excused(o)' /\ IntegerOf(o, "null")
    BY <1>3, <1>4, <2>1 DEF Excused, file, IntegerOf
  <2>3. Returns(o, n, TRUE, "null")
    <3> HIDE DEF TooDeep, Running
    <3> QED BY <1>1, <1>3, <1>4, <2>1, <2>2 DEF Returns
  <2> QED BY <2>3, ReturnLemma DEF Answers, Values
<1>5. CASE Quiet /\ Leave(FALSE, "none")
  <2>1. Unloadable(n, o)'
    BY <1>2, LoaderAssumption DEF Unloadable
  <2>2. Returns(o, n, FALSE, "none")
    <3> HIDE DEF TooDeep, Running
    <3> QED BY <1>1, <1>2, <1>3, <1>5, <2>1 DEF Returns, TypesOK, Quiet
  <2> QED BY <2>2, ReturnLemma DEF Answers
<1> QED BY <1>4, <1>5

(* A call that is entered is counted.                                      *)
LEMMA EnterIInv ==
  ASSUME IInv, Enter
  PROVE  IInv'
<1> USE DEF Enter, Running, file
<1>1. /\ TypesOK /\ CallsNest /\ KindsFit /\ IntegersAreExact /\ LengthsAgree
      /\ WholesAreExact /\ WrongValuesAreExplained
  BY DEF IInv
<1>2. PICK n : n = Len(stack)
  OBVIOUS
<1>3. /\ n \in Nat /\ n >= 1 /\ depth = n - 1 /\ depth' = n /\ n <= MaxDepth
      /\ Top = stack[n] /\ stack[n].at = "start"
      /\ Current = stack[n].obj /\ Top.guess \in Guesses
  BY <1>1, <1>2, FrameTypes, TopCall DEF Current, Frames
<1>4. /\ stack' \in Seq(Frames) /\ Len(stack') = n
      /\ \A i \in 1 .. n - 1 : stack'[i] = stack[i]
      /\ stack'[n] = [obj |-> Current, at |-> "entered", guess |-> Top.guess]
  BY <1>1, <1>2, EnterProperties
<1>5. \A i \in 1..n : /\ stack'[i].obj = stack[i].obj
                      /\ stack'[i].at = IF i = n THEN "entered" ELSE stack[i].at
                      /\ stack'[i].guess = stack[i].guess
  <2> SUFFICES ASSUME NEW i \in 1..n
      PROVE  /\ stack'[i].obj = stack[i].obj
             /\ stack'[i].at = IF i = n THEN "entered" ELSE stack[i].at
             /\ stack'[i].guess = stack[i].guess
    OBVIOUS
  <2>1. CASE i = n
    BY <1>3, <1>4, <2>1
  <2>2. CASE i # n
    BY <1>3, <1>4, <2>2
  <2> QED BY <2>1, <2>2
<1>6. \A i \in 1..n : KindOf(i)' = KindOf(i) /\ LinkOf(i)' = LinkOf(i)
  BY <1>5 DEF KindOf, LinkOf
<1>7. TypesOK'
  BY <1>1, <1>3, <1>4 DEF TypesOK
<1>8. CallsNest'
  <2>1. stack' # <<>> /\ Top'.at = "entered"
    BY <1>3, <1>4, EmptySeq DEF Top, Last
  <2>2. ASSUME NEW i \in 1 .. n - 1
        PROVE  stack'[i].at \in WaitingPlaces /\ stack'[i + 1].obj = LinkOf(i)'
    <3>1. i \in 1..n /\ i # n /\ i + 1 \in 1..n
      BY <1>3
    <3> QED BY <1>1, <1>2, <1>5, <1>6, <3>1 DEF CallsNest
  <2> QED BY <1>3, <1>4, <2>1, <2>2 DEF CallsNest, WaitingPlaces
<1>9. KindsFit'
  BY <1>1, <1>2, <1>4, <1>5, <1>6 DEF KindsFit
<1>10. LengthsAgree'
  <2>1. ASSUME NEW i \in 1..n PROVE Unloadable(i, LinkOf(i))' <=> Unloadable(i, LinkOf(i))
    BY <1>6 DEF Unloadable
  <2> QED BY <1>1, <1>2, <1>4, <1>5, <1>6, <2>1 DEF LengthsAgree
<1>11. IntegersAreExact' /\ WholesAreExact' /\ WrongValuesAreExplained'
  BY <1>1 DEF IntegersAreExact, WholesAreExact, IntegerOf, WrongValuesAreExplained, Excused
<1> QED BY <1>7, <1>8, <1>9, <1>10, <1>11 DEF IInv

(* A call for an object that is read whole waits for no other object.      *)
LEMMA WholesDoNotWait ==
  ASSUME IInv, stack # <<>>, Top.at \in WaitingPlaces
  PROVE  Kind \notin Wholes /\ Kind # "short"
<1>1. TypesOK /\ KindsFit
  BY DEF IInv
<1>2. PICK n : n = Len(stack) /\ n \in 1 .. Len(stack) /\ Top = stack[n] /\ Kind = KindOf(n)
  BY <1>1, FrameTypes
<1> QED BY <1>1, <1>2 DEF KindsFit, WaitingPlaces, Streams, Members, Wholes

(* Stopped before it begins.                                               *)
LEMMA StoppedIInv ==
  ASSUME IInv, Stopped
  PROVE  IInv'
<1> USE DEF Stopped, Running
<1>1. Unloadable(Len(stack) - 1, Current)
  BY DEF Unloadable
<1>2. used \in Nat /\ used <= MaxObjects
  BY DEF IInv, TypesOK
<1> QED BY <1>1, <1>2, FailLemma DEF Quiet

(* Answered from the cache.                                                *)
LEMMA CacheHitIInv ==
  ASSUME IInv, CacheHit
  PROVE  IInv'
<1> USE DEF CacheHit, Running, Cached
<1>1. /\ TypesOK /\ CallsNest /\ IntegersAreExact /\ WholesAreExact
      /\ WrongValuesAreExplained
  BY DEF IInv
<1>2. PICK o : o = Current /\ o \in Objects /\ Kind = doc.kind[o] /\ Link = doc.link[o]
  BY <1>1, FrameTypes DEF Kind, Link
<1>3. cache[o] \in Answers /\ cache[o] # "none"
  BY <1>1, <1>2 DEF TypesOK
<1>4. cache[o] = Exact(Kind) \/ Excused(o)
  BY <1>1, <1>2, <1>3 DEF WrongValuesAreExplained
<1>5. /\ IntegerOf(o, cache[o])
      /\ Kind \in Wholes => cache[o] = Exact(Kind)
      /\ Kind = "short" => cache[o] = "short"
  BY <1>1, <1>2, <1>3 DEF IntegersAreExact, WholesAreExact, Wholes, Exact
<1>6. ~Unloadable(Len(stack) - 1, o)
  <2>1. Len(stack) = depth /\ depth <= MaxDepth /\ depth \in Nat
    BY <1>1, TopCall DEF CallsNest, TypesOK
  <2>2. ~(Len(stack) - 1 >= MaxDepth)
    BY <2>1, LoaderAssumption
  <2> QED BY <1>3, <2>2 DEF Unloadable
<1>7. \/ cache[o] = Exact(Kind)
      \/ tolerant /\ (o \in blamed' \/ Link \in blamed' \/ Kind = "absent")
  BY <1>2, <1>4 DEF Excused
<1>8. /\ used' \in Nat /\ used <= used' /\ used' <= MaxObjects
      /\ diagnostics' \in 0 .. MaxErrors /\ blamed \subseteq blamed' /\ blamed' \subseteq Objects
  BY <1>1 DEF TypesOK
<1> QED BY <1>2, <1>3, <1>5, <1>6, <1>7, <1>8, AnswerLemma

(* Out of budget.                                                          *)
LEMMA ExhaustedIInv ==
  ASSUME IInv, Exhausted
  PROVE  IInv'
<1> USE DEF Exhausted, Running, Cached
<1>1. used \in Nat /\ used <= MaxObjects
  BY DEF IInv, TypesOK
<1>2. Unloadable(Len(stack) - 1, Current)
  BY DEF Unloadable
<1> QED BY <1>1, <1>2, FailLemma DEF Quiet

(* Reading the object.                                                     *)
LEMMA ReadIInv ==
  ASSUME IInv, Read
  PROVE  IInv'
<1>1. /\ stack # <<>> /\ Top.at = "entered" /\ ~stopped /\ used < MaxObjects
      /\ used' = used + 1 /\ UNCHANGED <<file, stopped>>
  BY DEF Read, Running
<1>2. TypesOK /\ Kind \in Kinds /\ Link \in Objects /\ Current \in Objects
  BY <1>1, FrameTypes DEF IInv
<1>3. used' \in Nat /\ used <= used' /\ used' <= MaxObjects
  BY <1>1, <1>2, LoaderAssumption DEF TypesOK
<1>4. ~Unloadable(Len(stack) - 1, Current)
  <2>1. Len(stack) = depth /\ depth <= MaxDepth /\ depth \in Nat
    BY <1>1, <1>2, TopCall DEF IInv, CallsNest, TypesOK
  <2>2. ~(Len(stack) - 1 >= MaxDepth)
    BY <2>1, LoaderAssumption
  <2>3. used # MaxObjects
    BY <1>1, <1>2, LoaderAssumption DEF TypesOK
  <2> QED BY <1>1, <2>2, <2>3 DEF Unloadable
<1>5. CASE Kind \in {"missing", "garbled"} /\ Defect(Current, "null")
  BY <1>1, <1>3, <1>5, DefectLemma DEF Substitutes, Wholes
<1>6. CASE Kind = "outside" /\ Fail /\ Quiet
  BY <1>1, <1>3, <1>6, FailLemma
<1>7. CASE Kind \in Wholes \cup {"free"} /\ Keep(Exact(Kind)) /\ Quiet
  <2>1. /\ Exact(Kind) \in Answers /\ IntegerOf(Current, Exact(Kind))
        /\ Kind = "short" => Exact(Kind) = "short"
    BY <1>7 DEF Exact, Answers, Values, IntegerOf, Wholes, Kind
  <2>2. diagnostics' \in 0 .. MaxErrors /\ blamed \subseteq blamed' /\ blamed' \subseteq Objects
    BY <1>2, <1>7 DEF Quiet, TypesOK
  <2> QED BY <1>1, <1>3, <1>4, <1>7, <2>1, <2>2, AnswerLemma
<1>8. CASE /\ Kind \in Streams /\ Nest(Link, "length", "none")
           /\ Quiet /\ UNCHANGED <<cache, depth, result>>
  BY <1>1, <1>2, <1>3, <1>8, NestLemma DEF WaitingPlaces, Guesses, Quiet
<1>9. CASE /\ Kind \in Members /\ Nest(Link, "container", "none")
           /\ Quiet /\ UNCHANGED <<cache, depth, result>>
  BY <1>1, <1>2, <1>3, <1>9, NestLemma DEF WaitingPlaces, Guesses, Quiet
<1> QED BY <1>5, <1>6, <1>7, <1>8, <1>9 DEF Read

(* What the invariant says of a call that waits and has its answer.        *)
LEMMA WaitingCall ==
  ASSUME IInv, stack # <<>>, Top.at \in WaitingPlaces
  PROVE  /\ Current \in Objects /\ Link \in Objects
         /\ Kind \notin Wholes /\ Kind # "short"
         /\ result.of = Link
         /\ result.ok => IntegerOf(Link, result.value)
         /\ Top.at = "length" => Kind \in Streams
         /\ Top.at = "container" => Kind \in Members
         /\ Top.at = "relength" =>
              /\ Kind \in {"stream", "marked"}
              /\ \/ /\ Top.guess = "stream"
                    /\ doc.kind[Link] \in {"number", "compressed"}
                 \/ Top.guess = "observed" /\ tolerant
         /\ (doc.kind[Link] = "short" /\ Top.at = "relength" /\ Top.guess = "observed") =>
              Link \in blamed \/ ~result.ok
         /\ (doc.kind[Link] = "short" /\ Top.at = "length") =>
              \/ Link \in blamed
              \/ result.ok /\ result.value = "short"
              \/ Unloadable(Len(stack), Link)
<1>1. TypesOK /\ CallsNest /\ KindsFit /\ IntegersAreExact /\ LengthsAgree
  BY DEF IInv
<1>2. PICK n : /\ n = Len(stack) /\ n \in 1 .. Len(stack)
               /\ Top = stack[n] /\ Kind = KindOf(n) /\ Link = LinkOf(n)
               /\ Current \in Objects /\ Link \in Objects
  BY <1>1, FrameTypes
<1>3. result.of = Link
  BY <1>1, <1>2 DEF CallsNest
<1>4. result.ok => IntegerOf(Link, result.value)
  BY <1>1, <1>3 DEF IntegersAreExact
<1>5. Kind \notin Wholes /\ Kind # "short"
  BY WholesDoNotWait
<1>6. /\ Top.at = "length" => Kind \in Streams
      /\ Top.at = "container" => Kind \in Members
      /\ Top.at = "relength" =>
           /\ Kind \in {"stream", "marked"}
           /\ \/ Top.guess = "stream" /\ doc.kind[Link] \in {"number", "compressed"}
              \/ Top.guess = "observed" /\ tolerant
  BY <1>1, <1>2 DEF KindsFit
<1>7. doc.kind[Link] = "short" =>
        /\ (Top.at = "relength" /\ Top.guess = "observed") => Link \in blamed \/ ~result.ok
        /\ Top.at = "length" =>
             \/ Link \in blamed
             \/ result.ok /\ result.value = "short"
             \/ Unloadable(n, Link)
  BY <1>1, <1>2 DEF LengthsAgree
<1> QED BY <1>2, <1>3, <1>4, <1>5, <1>6, <1>7

(* Parsing a stream again.                                                 *)
LEMMA ParsedLemma ==
  ASSUME IInv, stack # <<>>, Top.at = "length",
         NEW guess \in {"stream", "observed"}, Parsed(guess),
         UNCHANGED <<file, used, stopped>>,
         guess = "stream" => result.ok /\ result.value = "number",
         guess = "observed" => /\ tolerant /\ Kind # "marked"
                               /\ ~(result.ok /\ result.value \in {"number", "short"})
  PROVE  IInv'
<1>1. /\ Current \in Objects /\ Link \in Objects /\ Kind \notin Wholes
      /\ result.ok => IntegerOf(Link, result.value)
      /\ Kind \in Streams
      /\ doc.kind[Link] = "short" =>
           \/ Link \in blamed
           \/ result.ok /\ result.value = "short"
           \/ Unloadable(Len(stack), Link)
  BY WaitingCall DEF WaitingPlaces
<1>2. UNCHANGED <<file, stopped>> /\ used' \in Nat /\ used <= used' /\ used' <= MaxObjects
  BY DEF IInv, TypesOK
<1>3. CASE Kind = "misplaced"
  <2>1. Defect(Current, "null")
    BY <1>3 DEF Parsed
  <2> QED BY <1>1, <1>2, <2>1, DefectLemma DEF Substitutes
<1>4. CASE Kind # "misplaced"
  <2>1. Nest(Link, "relength", guess) /\ Quiet /\ UNCHANGED <<cache, depth, result>>
    BY <1>4 DEF Parsed
  <2>2. /\ Kind \in {"stream", "marked"}
        /\ \/ guess = "stream" /\ doc.kind[Link] \in {"number", "compressed"}
           \/ guess = "observed" /\ tolerant /\ Kind = "stream"
    BY <1>1, <1>4 DEF Streams, IntegerOf
  <2>3. (guess = "observed" /\ doc.kind[Link] = "short") =>
           Link \in blamed \/ Unloadable(Len(stack), Link)
    BY <1>1
  <2> QED BY <1>1, <1>2, <2>1, <2>2, <2>3, NestLemma DEF WaitingPlaces, Guesses, Quiet
<1> QED BY <1>3, <1>4

(* The Length of a stream is there, or could not be loaded.                *)
LEMMA LengthLoadedIInv ==
  ASSUME IInv, LengthLoaded
  PROVE  IInv'
<1>1. /\ stack # <<>> /\ Top.at = "length"
      /\ UNCHANGED <<file, used, stopped>> /\ UNCHANGED <<file, stopped>>
  BY DEF LengthLoaded, Running
<1>2. Kind \notin Wholes /\ Kind # "short"
  BY <1>1, WaitingCall DEF WaitingPlaces
<1>3. used' \in Nat /\ used <= used' /\ used' <= MaxObjects
  BY <1>1 DEF IInv, TypesOK
<1>4. CASE result.ok /\ result.value = "number" /\ Parsed("stream")
  BY <1>1, <1>4, ParsedLemma
<1>5. CASE Defect(Current, "null")
  BY <1>1, <1>2, <1>3, <1>5, DefectLemma DEF Substitutes
<1>6. CASE Fail /\ Quiet
  BY <1>1, <1>2, <1>3, <1>6, FailLemma
<1>7. CASE /\ ~(result.ok /\ result.value \in {"number", "short"})
           /\ tolerant /\ Kind # "marked" /\ Parsed("observed")
  BY <1>1, <1>7, ParsedLemma
<1> QED BY <1>4, <1>5, <1>6, <1>7 DEF LengthLoaded

(* Its bytes are cut to the second Length.                                 *)
LEMMA LengthReloadedIInv ==
  ASSUME IInv, LengthReloaded
  PROVE  IInv'
<1>1. /\ stack # <<>> /\ Top.at = "relength"
      /\ UNCHANGED <<file, stopped>>
  BY DEF LengthReloaded, Running
<1>2. /\ Kind \in {"stream", "marked"} /\ Kind \notin Wholes
      /\ Top.guess \in {"stream", "observed"}
      /\ result.ok => IntegerOf(Link, result.value)
      /\ doc.kind[Link] = "short" =>
           tolerant /\ (Link \in blamed \/ ~result.ok)
  BY <1>1, WaitingCall DEF WaitingPlaces
<1>3. /\ used' \in Nat /\ used <= used' /\ used' <= MaxObjects
      /\ Quiet => /\ diagnostics' \in 0 .. MaxErrors
                  /\ blamed \subseteq blamed' /\ blamed' \subseteq Objects
  BY DEF IInv, TypesOK, LengthReloaded, Quiet
<1>4. CASE Keep("stream") /\ Quiet
  BY <1>1, <1>2, <1>3, <1>4, AnswerLemma DEF Exact, Answers, Values, IntegerOf
<1>5. CASE result.ok /\ result.value = "short" /\ Keep("cut") /\ Quiet
  <2>1. tolerant /\ Link \in blamed'
    BY <1>2, <1>5 DEF IntegerOf, Quiet
  <2> QED BY <1>1, <1>2, <1>3, <1>5, <2>1, AnswerLemma DEF Answers, Values, IntegerOf
<1>6. CASE Defect(Current, "observed") \/ Defect(Current, Top.guess)
  BY <1>1, <1>2, <1>3, <1>6, DefectLemma DEF Substitutes
<1> QED BY <1>4, <1>5, <1>6 DEF LengthReloaded

(* The object stream is there, or could not be loaded.                     *)
LEMMA ContainerLoadedIInv ==
  ASSUME IInv, ContainerLoaded
  PROVE  IInv'
<1>1. /\ stack # <<>> /\ Top.at = "container"
      /\ UNCHANGED <<file, stopped>>
  BY DEF ContainerLoaded, Running
<1>2. Kind \in Members /\ Kind \notin Wholes /\ Kind # "short"
  BY <1>1, WaitingCall DEF WaitingPlaces
<1>3. /\ used' \in Nat /\ used <= used' /\ used' <= MaxObjects
      /\ Quiet => /\ diagnostics' \in 0 .. MaxErrors
                  /\ blamed \subseteq blamed' /\ blamed' \subseteq Objects
  BY DEF IInv, TypesOK, ContainerLoaded, Quiet
<1>4. CASE Fail /\ Quiet
  BY <1>1, <1>2, <1>3, <1>4, FailLemma
<1>5. CASE Defect(Link, "null")
  BY <1>1, <1>2, <1>3, <1>5, DefectLemma DEF Substitutes
<1>6. CASE Kind = "compressed" /\ Keep("number") /\ Quiet
  BY <1>1, <1>3, <1>6, AnswerLemma DEF Exact, Answers, Values, IntegerOf, Kind
<1>7. CASE Kind = "absent" /\ tolerant /\ Keep("null") /\ Quiet
  BY <1>1, <1>2, <1>3, <1>7, AnswerLemma DEF Answers, Values, IntegerOf
<1> QED BY <1>4, <1>5, <1>6, <1>7 DEF ContainerLoaded
-----------------------------------------------------------------------------
(* The theorems                                                            *)

(* Every step of load_object keeps the invariant.                          *)
LEMMA StepIInv ==
  ASSUME IInv, Step
  PROVE  IInv'
BY TooDeepIInv, EnterIInv, StoppedIInv, CacheHitIInv, ExhaustedIInv, ReadIInv,
   LengthLoadedIInv, LengthReloadedIInv, ContainerLoadedIInv DEF Step

(* So does every step of the specification.                                *)
LEMMA NextIInv == IInv /\ [Next]_vars => IInv'
<1> SUFFICES ASSUME IInv, [Next]_vars PROVE IInv'
  OBVIOUS
<1>1. CASE Step
  BY <1>1, StepIInv
<1>2. CASE Stop
  BY <1>2, StopIInv
<1>3. CASE \E o \in Objects : Call(o)
  BY <1>3, CallIInv
<1>4. CASE UNCHANGED vars
  BY <1>4, StutterIInv
<1> QED BY <1>1, <1>2, <1>3, <1>4 DEF Next

(* What has been entered is all but, perhaps, the call at the top.         *)
LEMMA DepthCounts ==
  ASSUME IInv
  PROVE  DepthIsNesting
<1> DEFINE n == Len(stack)
           In == {i \in DOMAIN stack : stack[i].at # "start"}
<1>1. TypesOK /\ CallsNest
  BY DEF IInv
<1>2. n \in Nat /\ DOMAIN stack = 1..n
  BY <1>1, LenProperties DEF TypesOK
<1>3. \A i \in 1 .. n - 1 : stack[i].at # "start"
  BY <1>1 DEF CallsNest, WaitingPlaces
<1>4. depth \in Nat /\ In = 1..depth
  <2>1. CASE stack = <<>>
    BY <1>1, <1>2, <2>1, EmptySeq DEF CallsNest
  <2>2. CASE stack # <<>> /\ stack[n].at = "start"
    <3>1. depth = n - 1 /\ n >= 1
      BY <1>1, <1>2, <2>2, EmptySeq DEF TypesOK, CallsNest, Top, Last
    <3> QED BY <1>2, <1>3, <2>2, <3>1
  <2>3. CASE stack # <<>> /\ stack[n].at # "start"
    <3>1. depth = n /\ n >= 1
      BY <1>1, <1>2, <2>3, EmptySeq DEF TypesOK, CallsNest, Top, Last
    <3> QED BY <1>2, <1>3, <2>3, <3>1
  <2> QED BY <2>1, <2>2, <2>3
<1>5. Cardinality(1..depth) = depth
  BY <1>4, FS_Interval
<1> QED BY <1>4, <1>5 DEF DepthIsNesting

(* The depth is exactly the number of calls in progress that were entered, *)
(* at any depth and on every way out of load_object.                       *)
THEOREM DepthAlwaysNests == Spec => []DepthIsNesting
<1>1. Init => IInv
  BY InitIInv
<1>2. IInv /\ [Next]_vars => IInv'
  BY NextIInv
<1>3. IInv => DepthIsNesting
  BY DepthCounts
<1> QED BY <1>1, <1>2, <1>3, PTL DEF Spec

(* Whatever the file, the limits and the order of the calls, a value that  *)
(* is cached or returned is exact, or the parser is tolerant and reports.  *)
THEOREM WrongValuesHaveReasons == Spec => []WrongValuesAreExplained
<1>1. Init => IInv
  BY InitIInv
<1>2. IInv /\ [Next]_vars => IInv'
  BY NextIInv
<1>3. IInv => WrongValuesAreExplained
  BY DEF IInv
<1> QED BY <1>1, <1>2, <1>3, PTL DEF Spec

(* No more calls are nested than the limit allows and one that is refused. *)
THEOREM NestingIsBounded == Spec => [](Len(stack) <= MaxDepth + 1)
<1>1. Init => IInv
  BY InitIInv
<1>2. IInv /\ [Next]_vars => IInv'
  BY NextIInv
<1>3. ASSUME IInv PROVE Len(stack) <= MaxDepth + 1
  <2>1. TypesOK /\ CallsNest /\ Len(stack) \in Nat
    BY <1>3, FrameTypes DEF IInv
  <2>2. CASE stack = <<>>
    BY <2>2, EmptySeq, LoaderAssumption
  <2>3. CASE stack # <<>>
    BY <2>1, <2>3, LoaderAssumption DEF CallsNest, TypesOK
  <2> QED BY <2>2, <2>3
<1> QED BY <1>1, <1>2, <1>3, PTL DEF Spec
-----------------------------------------------------------------------------
(* What is cached between two calls of the program stays                   *)

(* The entry for o cannot be overwritten: no call is reading o, as one     *)
(* that began before the entry was made may be.                            *)
Settled(o, v) ==
  /\ cache[o] = v
  /\ \A i \in 1 .. Len(stack) : stack[i].obj = o => stack[i].at \notin WaitingPlaces

(* A step of load_object ends the call at the top, with or without an      *)
(* entry for its object, makes a nested call, or enters the call.          *)
Ended ==
  /\ \E ok \in BOOLEAN, value \in Answers \cup {Exact(Kind)} : Leave(ok, value)
  /\ \/ UNCHANGED cache
     \/ \E value : cache' = [cache EXCEPT ![Current] = value]
Nested ==
  /\ \E place \in WaitingPlaces, guess \in Guesses : Nest(Link, place, guess)
  /\ UNCHANGED cache

LEMMA EndForms ==
  ASSUME NEW value \in Answers \cup {Exact(Kind)}, Fail \/ Give(value) \/ Keep(value)
  PROVE  Ended
BY DEF Ended, Fail, Give, Keep, Answers

LEMMA DefectForms ==
  ASSUME NEW value \in Answers, NEW o, Defect(o, value)
  PROVE  Ended
BY EndForms DEF Defect, Substitute

(* Only a call whose object has no entry, or that is reading it already,   *)
(* makes an entry or a nested call.                                        *)
LEMMA StepForms ==
  ASSUME IInv, Step
  PROVE  /\ stack # <<>>
         /\ \/ Enter
            \/ Ended /\ UNCHANGED cache
            \/ /\ Ended \/ Nested
               /\ Top.at \in WaitingPlaces \/ cache[Current] = "none"
<1>1. CASE TooDeep
  BY <1>1 DEF TooDeep, Running, Ended, Answers, Values
<1>2. CASE Enter
  BY <1>2 DEF Enter, Running
<1>3. CASE Stopped \/ Exhausted
  BY <1>3 DEF Stopped, Exhausted, Running, Fail, Ended, Answers
<1>4. CASE CacheHit
  <2>1. stack # <<>> /\ Give(cache[Current]) /\ UNCHANGED cache
    BY <1>4 DEF CacheHit, Running, Give
  <2>2. cache[Current] \in Answers
    BY <2>1, FrameTypes DEF IInv, TypesOK
  <2> QED BY <2>1, <2>2, EndForms
<1>5. CASE Read
  <2>1. stack # <<>> /\ cache[Current] = "none"
    BY <1>5 DEF Read, Running, Cached
  <2>2. CASE Defect(Current, "null")
    BY <2>1, <2>2, DefectForms DEF Answers, Values
  <2>3. CASE Fail
    BY <2>1, <2>3, EndForms DEF Answers
  <2>4. CASE Keep(Exact(Kind))
    BY <2>1, <2>4, EndForms
  <2>5. CASE /\ Nest(Link, "length", "none") \/ Nest(Link, "container", "none")
             /\ UNCHANGED cache
    BY <2>1, <2>5 DEF Nested, WaitingPlaces, Guesses
  <2> QED BY <1>5, <2>2, <2>3, <2>4, <2>5 DEF Read
<1>6. CASE LengthLoaded
  <2>1. stack # <<>> /\ Top.at \in WaitingPlaces
    BY <1>6 DEF LengthLoaded, Running, WaitingPlaces
  <2>2. CASE Defect(Current, "null") \/ Fail
    BY <2>1, <2>2, DefectForms, EndForms DEF Answers, Values
  <2>3. ASSUME NEW guess \in {"stream", "observed"}, Nest(Link, "relength", guess),
               UNCHANGED cache
        PROVE  Nested
    BY <2>3 DEF Nested, WaitingPlaces, Guesses
  <2> QED BY <1>6, <2>1, <2>2, <2>3 DEF LengthLoaded, Parsed
<1>7. CASE LengthReloaded
  <2>1. stack # <<>> /\ Top.at \in WaitingPlaces /\ Top.guess \in Answers
    <3>1. stack # <<>> /\ Top.at = "relength"
      BY <1>7 DEF LengthReloaded, Running
    <3> QED BY <3>1, WaitingCall DEF WaitingPlaces, Answers, Values
  <2>2. CASE Defect(Current, "observed") \/ Defect(Current, Top.guess)
    BY <2>1, <2>2, DefectForms DEF Answers, Values
  <2>3. CASE Keep("stream") \/ Keep("cut")
    BY <2>1, <2>3, EndForms DEF Answers, Values
  <2> QED BY <1>7, <2>2, <2>3 DEF LengthReloaded
<1>8. CASE ContainerLoaded
  <2>1. stack # <<>> /\ Top.at \in WaitingPlaces
    BY <1>8 DEF ContainerLoaded, Running, WaitingPlaces
  <2>2. CASE Defect(Link, "null") \/ Fail
    BY <2>1, <2>2, DefectForms, EndForms DEF Answers, Values
  <2>3. CASE Keep("number") \/ Keep("null")
    BY <2>1, <2>3, EndForms DEF Answers, Values
  <2> QED BY <1>8, <2>2, <2>3 DEF ContainerLoaded
<1> QED BY <1>1, <1>2, <1>3, <1>4, <1>5, <1>6, <1>7, <1>8 DEF Step

(* An entry that is settled remains so.                                    *)
LEMMA NextSettled ==
  ASSUME IInv, NEW o \in Objects, NEW v \in Values, Settled(o, v), [Next]_vars
  PROVE  Settled(o, v)'
<1>1. TypesOK /\ v # "none" /\ Len(stack) \in Nat
  BY FrameTypes DEF IInv, Values
<1>2. CASE Step
  <2>1. /\ stack # <<>>
        /\ Len(stack) \in 1 .. Len(stack) /\ Top = stack[Len(stack)]
        /\ Current = stack[Len(stack)].obj
        /\ Current \in Objects /\ Link \in Objects
    BY <1>1, <1>2, StepForms, FrameTypes DEF Current
  <2>2. (Top.at \in WaitingPlaces \/ cache[Current] = "none") => Current # o
    BY <1>1, <2>1 DEF Settled
  <2>3. ASSUME Enter PROVE Settled(o, v)'
    <3>1. /\ Len(stack') = Len(stack) /\ cache' = cache
          /\ \A i \in 1 .. Len(stack) - 1 : stack'[i] = stack[i]
          /\ stack'[Len(stack)].at = "entered"
      BY <1>1, <2>1, <2>3, EnterProperties DEF Enter
    <3>2. \A i \in 1 .. Len(stack) : i \in 1 .. Len(stack) - 1 \/ i = Len(stack)
      BY <1>1
    <3> QED BY <3>1, <3>2 DEF Settled, WaitingPlaces
  <2>4. ASSUME Ended, cache' = cache \/ Current # o PROVE Settled(o, v)'
    <3>1. cache'[o] = cache[o]
      BY <1>1, <2>4 DEF Ended, TypesOK
    <3>2. stack' = Front(stack)
      BY <2>4 DEF Ended, Leave
    <3>3. /\ Len(stack') = Len(stack) - 1
          /\ \A i \in 1 .. Len(stack) - 1 : stack'[i] = stack[i] /\ i \in 1 .. Len(stack)
      BY <1>1, <2>1, <3>2, FrontProperties
    <3> QED BY <3>1, <3>3 DEF Settled
  <2>5. ASSUME Nested, Current # o PROVE Settled(o, v)'
    <3>1. PICK place \in WaitingPlaces, guess \in Guesses : Nest(Link, place, guess)
      BY <2>5 DEF Nested
    <3>2. place \in Places
      BY DEF WaitingPlaces, Places
    <3>3. /\ Len(stack') = Len(stack) + 1 /\ cache' = cache
          /\ \A i \in 1 .. Len(stack) - 1 : stack'[i] = stack[i]
          /\ stack'[Len(stack)].obj = Current
          /\ stack'[Len(stack) + 1].at = "start"
      <4>1. /\ Len(stack') = Len(stack) + 1
            /\ \A i \in 1 .. Len(stack) - 1 : stack'[i] = stack[i]
            /\ stack'[Len(stack)] = [obj |-> Current, at |-> place, guess |-> guess]
            /\ stack'[Len(stack) + 1] = Frame(Link)
        BY <1>1, <2>1, <3>1, <3>2, NestProperties
      <4>2. cache' = cache /\ Frame(Link).at = "start"
        BY <2>5 DEF Nested, Frame
      <4> QED BY <4>1, <4>2
    <3>4. \A i \in 1 .. Len(stack) + 1 :
             \/ i \in 1 .. Len(stack) - 1 /\ i \in 1 .. Len(stack)
             \/ i = Len(stack) \/ i = Len(stack) + 1
      BY <1>1
    <3> QED BY <2>5, <3>3, <3>4 DEF Settled, WaitingPlaces
  <2> QED BY <1>2, <2>2, <2>3, <2>4, <2>5, StepForms
<1>3. CASE Stop \/ UNCHANGED vars
  BY <1>3 DEF Settled, Stop, vars
<1>4. ASSUME NEW p \in Objects, Call(p) PROVE Settled(o, v)'
  <2>1. stack' = <<Frame(p)>> /\ Frame(p).at = "start" /\ cache' = cache
    BY <1>4 DEF Call, Frame
  <2> QED BY <2>1 DEF Settled, WaitingPlaces
<1> QED BY <1>2, <1>3, <1>4 DEF Next

(* What is cached for an object when no call is in progress is what every  *)
(* later call will find, although in a cycle a call overwrites what those  *)
(* nested in it have cached.                                               *)
THEOREM CachedEntriesSettle == Spec => EntriesSettle
<1> SUFFICES ASSUME NEW o \in Objects, NEW v \in Values
    PROVE  Spec => []((stack = <<>> /\ cache[o] = v) => [](cache[o] = v))
  BY DEF EntriesSettle
<1>1. Init => IInv
  BY InitIInv
<1>2. IInv /\ [Next]_vars => IInv'
  BY NextIInv
<1>3. stack = <<>> /\ cache[o] = v => Settled(o, v)
  BY EmptySeq DEF Settled
<1>4. IInv /\ Settled(o, v) /\ [Next]_vars => Settled(o, v)'
  BY NextSettled
<1>5. Settled(o, v) => cache[o] = v
  BY DEF Settled
<1> QED BY <1>1, <1>2, <1>3, <1>4, <1>5, PTL DEF Spec
-----------------------------------------------------------------------------
(* The document structure: the inductive invariant                         *)

Doings == {"catalog", "open", "action", "names", "xmp", "formref", "form", "probe",
           "page", "loose", "script", "field", "annot", "packet", "entry"}

NodeTypes == {"catalog", "action", "script", "loose", "form", "page", "field",
              "annotation", "xmp", "packet", "entry"}
Links     == {"none", "child", "reference"}

TaskSet == [do : Doings, obj : Objects, parent : Nat, depth : Nat]
Node    == [type : NodeTypes, obj : Objects]
Edge    == [from : Nat, to : Nat, type : Links]

StructureTypes ==
  /\ pc \in {"take", "loading", "resources", "done", "error"}
  /\ todo \in Seq(TaskSet)
  /\ task \in TaskSet
  /\ visited \subseteq Objects
  /\ nodes \in Seq(Node) /\ Len(nodes) <= MaxNodes
  /\ edges \in Seq(Edge) /\ Len(edges) <= MaxEdges

(* A load is in progress, or has just ended.                               *)
Loading == pc \in {"loading", "resources"}

(* The outermost call of load_object is that for the task.                 *)
LoadIsForTask ==
  /\ ~Loading => stack = <<>>
  /\ pc = "loading" => IF stack = <<>> THEN result.of = task.obj
                                       ELSE stack[1].obj = task.obj
  /\ pc = "resources" => task.do = "page"

LoaderLimit ==
  \/ stopped \/ used = MaxObjects \/ diagnostics = MaxErrors
  \/ \E o \in Objects : doc.kind[o] = "outside"

(* A tolerant call fails only when a limit is reached, for good.           *)
FailsAtLimits ==
  (/\ tolerant /\ ~result.ok
   /\ IF stack = <<>> THEN Loading ELSE Top.at \in WaitingPlaces) => LoaderLimit

(* A page has a node only when it was visited; the one that is being       *)
(* loaded was visited and has no node yet.                                 *)
LoadingPage(k) == Loading /\ task.do = "page" /\ task.obj = k

PagesAreVisited ==
  /\ \A n \in PageNodes : nodes[n].obj \in visited
  /\ \A k \in Objects : LoadingPage(k) =>
       k \in visited /\ \A n \in PageNodes : nodes[n].obj # k

(* Parents of nodes, and of tasks, exist.                                  *)
ParentsExist ==
  /\ \A t \in ToSet(todo) : t.parent <= Len(nodes)
  /\ task.parent <= Len(nodes)
  /\ \A i \in DOMAIN edges : edges[i].to <= Len(nodes)

(* Until the walk fails, a page that was visited is accounted for or being *)
(* loaded, and a kid of a page node that is neither waits for its turn.    *)
KidsArePending ==
  pc # "error" =>
    /\ \A k \in visited : Accounted(k) \/ LoadingPage(k)
    /\ \A n \in PageNodes : \A k \in ToSet(doc.kids[nodes[n].obj]) :
         \/ Accounted(k)
         \/ LoadingPage(k)
         \/ \E t \in ToSet(todo) : t.do = "page" /\ t.obj = k

(* The order of kids: what was walked and what is left of a Kids array     *)

(* For the nodes N, edges E and tasks L, and the Kids arrays K             *)
Pages(N) == {n \in DOMAIN N : N[n].type = "page"}

PageEdges(N, E) == {i \in DOMAIN E : /\ E[i].type = "child"
                                     /\ E[i].from \in Pages(N) /\ E[i].to \in Pages(N)}

PageTasks(N, L) == {x \in DOMAIN L : L[x].do = "page" /\ L[x].parent \in Pages(N)}

KidAt(N, K, p, k, o) == /\ k \in Nat /\ k \in DOMAIN K[N[p].obj]
                        /\ K[N[p].obj][k] = o

(* f and g say where in the Kids array of its parent the page of an edge,  *)
(* or of a task, is. Later edges are nearer to the front, so are tasks     *)
(* than edges, and a task than those behind it, which are taken first.     *)
InLine(N, E, L, K, f, g) ==
  /\ \A i \in PageEdges(N, E) : KidAt(N, K, E[i].from, f[i], N[E[i].to].obj)
  /\ \A i, j \in PageEdges(N, E) : E[i].from = E[j].from /\ i < j => f[j] < f[i]
  /\ \A x \in PageTasks(N, L) : KidAt(N, K, L[x].parent, g[x], L[x].obj)
  /\ \A x, y \in PageTasks(N, L) : L[x].parent = L[y].parent /\ x < y => g[x] < g[y]
  /\ \A x \in PageTasks(N, L), i \in PageEdges(N, E) :
       L[x].parent = E[i].from => g[x] < f[i]

(* What is left to walk, that which is being walked last                   *)
Line == IF Loading THEN Append(todo, task) ELSE todo

(* The nodes that a page has among its children, the one that is about to  *)
(* join them, and the kids that wait are, in this order backwards, kids of *)
(* its Kids array in the order of the array.                               *)
KidsInLine == \E f, g : InLine(nodes, edges, Line, doc.kids, f, g)

SInv ==
  /\ IInv
  /\ StructureTypes
  /\ pc = "done" => todo = <<>>
  /\ LoadIsForTask
  /\ FailsAtLimits
  /\ TolerantFailsAtLimits
  /\ PagesAreVisited
  /\ OneNodePerPage
  /\ ParentsExist
  /\ ParentsComeFirst
  /\ KidsArePending
  /\ KidsInLine
-----------------------------------------------------------------------------
(* Sequences, and the sets of their elements                               *)

(* The elements of a sequence are in the set it is over.                   *)
LEMMA ElementsInSet ==
  ASSUME NEW S, NEW s \in Seq(S)
  PROVE  /\ ToSet(s) \subseteq S
         /\ \A i \in 1 .. Len(s) : s[i] \in ToSet(s)
         /\ \A x \in ToSet(s) : \E i \in 1 .. Len(s) : x = s[i]
<1>1. DOMAIN s = 1 .. Len(s) /\ Len(s) \in Nat /\ \A i \in 1 .. Len(s) : s[i] \in S
  BY LenProperties, ElementOfSeq
<1> QED BY <1>1 DEF ToSet

(* Those of two sequences, one behind the other, are those of both.        *)
LEMMA ConcatElements ==
  ASSUME NEW S, NEW s \in Seq(S), NEW t \in Seq(S)
  PROVE  s \o t \in Seq(S) /\ ToSet(s \o t) = ToSet(s) \cup ToSet(t)
<1>1. /\ s \o t \in Seq(S) /\ Len(s \o t) = Len(s) + Len(t)
      /\ \A i \in 1 .. Len(s) + Len(t) :
           (s \o t)[i] = IF i <= Len(s) THEN s[i] ELSE t[i - Len(s)]
  BY ConcatProperties
<1>2. Len(s) \in Nat /\ Len(t) \in Nat
  BY LenProperties
<1> DEFINE u == s \o t
<1> HIDE DEF u
<1>3. ASSUME NEW x \in ToSet(u) PROVE x \in ToSet(s) \cup ToSet(t)
  <2>1. PICK i \in 1 .. Len(s) + Len(t) : x = u[i]
    BY <1>1, ElementsInSet DEF u
  <2>2. CASE i <= Len(s)
    <3>1. i \in 1 .. Len(s) /\ x = s[i]
      BY <1>1, <1>2, <2>1, <2>2 DEF u
    <3> QED BY <3>1, ElementsInSet
  <2>3. CASE ~(i <= Len(s))
    <3>1. i - Len(s) \in 1 .. Len(t) /\ x = t[i - Len(s)]
      BY <1>1, <1>2, <2>1, <2>3 DEF u
    <3> QED BY <3>1, ElementsInSet
  <2> QED BY <2>2, <2>3
<1>4. ASSUME NEW x \in ToSet(s) PROVE x \in ToSet(u)
  <2>1. PICK i \in 1 .. Len(s) : x = s[i]
    BY ElementsInSet
  <2>2. i \in 1 .. Len(u) /\ u[i] = x
    BY <1>1, <1>2, <2>1 DEF u
  <2> QED BY <1>1, <2>2, ElementsInSet DEF u
<1>5. ASSUME NEW x \in ToSet(t) PROVE x \in ToSet(u)
  <2>1. PICK i \in 1 .. Len(t) : x = t[i]
    BY ElementsInSet
  <2>2. i + Len(s) \in 1 .. Len(u) /\ u[i + Len(s)] = x
    <3>1. /\ i + Len(s) \in 1 .. Len(s) + Len(t) /\ ~(i + Len(s) <= Len(s))
          /\ i + Len(s) - Len(s) = i
      BY <1>2
    <3> QED BY <1>1, <2>1, <3>1 DEF u
  <2> QED BY <1>1, <2>2, ElementsInSet DEF u
<1> QED BY <1>1, <1>3, <1>4, <1>5 DEF u

(* A sequence has the same elements backwards.                             *)
LEMMA ReverseElements ==
  ASSUME NEW S, NEW s \in Seq(S)
  PROVE  Reverse(s) \in Seq(S) /\ ToSet(Reverse(s)) = ToSet(s)
<1> DEFINE n == Len(s)
           r == Reverse(s)
<1>1. n \in Nat /\ \A i \in 1..n : s[i] \in S
  BY LenProperties, ElementOfSeq
<1>2. r = [i \in 1..n |-> s[(n - i) + 1]]
  BY DEF Reverse
<1>3. \A i \in 1..n : (n - i) + 1 \in 1..n /\ (n - ((n - i) + 1)) + 1 = i
  BY <1>1
<1>4. r \in [1..n -> S]
  BY <1>1, <1>2, <1>3
<1>5. r \in Seq(S) /\ Len(r) = n
  BY <1>1, <1>4, SeqDef
<1> HIDE DEF r, n
<1>6. ASSUME NEW x PROVE x \in ToSet(r) <=> x \in ToSet(s)
  <2>1. ASSUME x \in ToSet(r) PROVE x \in ToSet(s)
    <3>1. PICK i \in 1..n : x = r[i]
      BY <1>5, <2>1, ElementsInSet
    <3> QED BY <1>2, <1>3, <3>1, ElementsInSet DEF n
  <2>2. ASSUME x \in ToSet(s) PROVE x \in ToSet(r)
    <3>1. PICK i \in 1..n : x = s[i]
      BY <2>2, ElementsInSet DEF n
    <3>2. (n - i) + 1 \in 1..n /\ r[(n - i) + 1] = x
      BY <1>2, <1>3, <3>1
    <3> QED BY <1>5, <3>2, ElementsInSet
  <2> QED BY <2>1, <2>2
<1> QED BY <1>5, <1>6 DEF r

(* The last element and those before it.                                   *)
LEMMA FrontElements ==
  ASSUME NEW S, NEW s \in Seq(S), s # <<>>
  PROVE  /\ Front(s) \in Seq(S) /\ Last(s) \in S
         /\ ToSet(s) = ToSet(Front(s)) \cup {Last(s)}
         /\ Len(Front(s)) \in Nat /\ Len(s) = Len(Front(s)) + 1
         /\ \A i \in 1 .. Len(Front(s)) : Front(s)[i] = s[i]
         /\ Last(s) = s[Len(Front(s)) + 1]
<1> DEFINE m == Len(s) - 1
           f == Front(s)
<1>1. m \in Nat /\ Len(s) = m + 1 /\ \A i \in 1 .. m + 1 : s[i] \in S
  BY EmptySeq, LenProperties, ElementOfSeq
<1>2. m \in Int /\ 1 \in Int /\ \A i \in 1..m : s[i] \in S
  BY <1>1
<1>3. f = SubSeq(s, 1, m)
  BY DEF Front
<1> HIDE DEF m, f
<1>4. /\ f \in Seq(S)
      /\ Len(f) = IF 1 <= m THEN m - 1 + 1 ELSE 0
      /\ \A i \in 1 .. m - 1 + 1 : f[i] = s[1 + i - 1]
  BY <1>2, <1>3, SubSeqProperties
<1>5. Len(f) = m /\ \A i \in 1..m : f[i] = s[i]
  BY <1>1, <1>4
<1>6. Last(s) = s[m + 1] /\ Last(s) \in S /\ Last(s) \in ToSet(s)
  BY <1>1, ElementsInSet DEF Last
<1>7. ASSUME NEW x PROVE x \in ToSet(s) <=> x \in ToSet(f) \/ x = Last(s)
  <2>1. ASSUME x \in ToSet(s), x # Last(s) PROVE x \in ToSet(f)
    <3>1. PICK i \in 1 .. m + 1 : x = s[i]
      BY <1>1, <2>1, ElementsInSet
    <3>2. i \in 1..m /\ f[i] = x
      BY <1>1, <1>5, <1>6, <2>1, <3>1
    <3> QED BY <1>4, <1>5, <3>2, ElementsInSet
  <2>2. ASSUME x \in ToSet(f) PROVE x \in ToSet(s)
    <3>1. PICK i \in 1..m : x = f[i]
      BY <1>4, <1>5, <2>2, ElementsInSet
    <3>2. i \in 1 .. Len(s) /\ x = s[i]
      BY <1>1, <1>5, <3>1
    <3> QED BY <3>2, ElementsInSet
  <2> QED BY <1>6, <2>1, <2>2
<1> QED BY <1>1, <1>4, <1>5, <1>6, <1>7 DEF f

(* A list of references becomes one task for each.                         *)
LEMMA TasksElements ==
  ASSUME NEW do \in Doings, NEW list \in Lists, NEW p \in Nat, NEW d \in Nat
  PROVE  /\ Tasks(do, list, p, d) \in Seq(TaskSet)
         /\ \A t \in ToSet(Tasks(do, list, p, d)) :
              t.do = do /\ t.parent = p /\ t.obj \in ToSet(list)
         /\ \A o \in ToSet(list) : Task(do, o, p, d) \in ToSet(Tasks(do, list, p, d))
<1> DEFINE ts == Tasks(do, list, p, d)
           n == Len(list)
<1>1. /\ list \in Seq(Objects) /\ n \in Nat /\ DOMAIN list = 1..n
      /\ \A i \in 1..n : list[i] \in Objects
  BY LenProperties, ElementOfSeq DEF Lists
<1>2. ts = [i \in 1..n |-> Task(do, list[i], p, d)]
  BY <1>1 DEF Tasks
<1>3. ts \in [1..n -> TaskSet]
  BY <1>1, <1>2 DEF Task, TaskSet
<1>4. ts \in Seq(TaskSet) /\ Len(ts) = n
  BY <1>1, <1>3, SeqDef
<1> HIDE DEF ts
<1>5. ASSUME NEW t \in ToSet(ts)
      PROVE  t.do = do /\ t.parent = p /\ t.obj \in ToSet(list)
  <2>1. PICK i \in 1..n : t = ts[i]
    BY <1>4, ElementsInSet
  <2>2. t = Task(do, list[i], p, d)
    BY <1>2, <2>1
  <2> QED BY <1>1, <2>2, ElementsInSet DEF Task
<1>6. ASSUME NEW o \in ToSet(list) PROVE Task(do, o, p, d) \in ToSet(ts)
  <2>1. PICK i \in 1..n : o = list[i]
    BY <1>1, ElementsInSet
  <2>2. ts[i] = Task(do, o, p, d)
    BY <1>2, <2>1
  <2>3. ts[i] \in ToSet(ts)
    BY <1>4, <2>1, ElementsInSet
  <2> QED BY <2>2, <2>3
<1> QED BY <1>4, <1>5, <1>6 DEF ts
-----------------------------------------------------------------------------
(* The ways a step goes on                                                 *)

(* What Go leaves on the list: what waited, and what is new.               *)
LEMMA GoLemma ==
  ASSUME StructureTypes, pc = "take" => todo # <<>>,
         NEW list \in Seq(TaskSet), Go(list)
  PROVE  /\ pc' = "take" /\ todo' \in Seq(TaskSet)
         /\ \A t \in ToSet(todo') : t \in ToSet(todo) \/ t \in ToSet(list)
         /\ \A t \in ToSet(list) : t \in ToSet(todo')
         /\ \A t \in ToSet(todo) : t \in ToSet(todo') \/ (pc = "take" /\ t = Last(todo))
<1>1. /\ Waiting \in Seq(TaskSet)
      /\ \A t \in ToSet(Waiting) : t \in ToSet(todo)
      /\ \A t \in ToSet(todo) : t \in ToSet(Waiting) \/ (pc = "take" /\ t = Last(todo))
  <2>1. CASE pc = "take"
    BY <2>1, FrontElements DEF Waiting, StructureTypes
  <2>2. CASE pc # "take"
    BY <2>2 DEF Waiting, StructureTypes
  <2> QED BY <2>1, <2>2
<1>2. Reverse(list) \in Seq(TaskSet) /\ ToSet(Reverse(list)) = ToSet(list)
  BY ReverseElements
<1>3. /\ Waiting \o Reverse(list) \in Seq(TaskSet)
      /\ ToSet(Waiting \o Reverse(list)) = ToSet(Waiting) \cup ToSet(list)
  BY <1>1, <1>2, ConcatElements
<1> QED BY <1>1, <1>3 DEF Go

(* A new node is a page node only if it is given that type.                *)
LEMMA NewNode ==
  ASSUME StructureTypes, Len(nodes) < MaxNodes, NEW type \in NodeTypes, NEW o \in Objects,
         nodes' = Append(nodes, [type |-> type, obj |-> o])
  PROVE  /\ nodes' \in Seq(Node) /\ Len(nodes') = Len(nodes) + 1 /\ Len(nodes) \in Nat
         /\ Len(nodes') <= MaxNodes
         /\ \A m : m \in PageNodes' <=> \/ m \in PageNodes
                                        \/ type = "page" /\ m = Len(nodes) + 1
         /\ \A m \in PageNodes : nodes'[m] = nodes[m] /\ m # Len(nodes) + 1
         /\ nodes'[Len(nodes) + 1].obj = o
<1> DEFINE n == Len(nodes)
           x == [type |-> type, obj |-> o]
<1>1. nodes \in Seq(Node) /\ n \in Nat /\ DOMAIN nodes = 1..n /\ x \in Node
  BY LenProperties DEF StructureTypes, Node
<1>2. x.type = type /\ x.obj = o /\ nodes' = Append(nodes, x)
  OBVIOUS
<1> HIDE DEF x
<1>3. /\ nodes' \in Seq(Node) /\ Len(nodes') = n + 1
      /\ \A i \in 1..n : nodes'[i] = nodes[i]
      /\ nodes'[n + 1] = x
  BY <1>1, <1>2, AppendProperties
<1>4. DOMAIN nodes' = 1 .. n + 1
  BY <1>3, LenProperties
<1>5. \A m : m \in 1 .. n + 1 <=> m \in 1..n \/ m = n + 1
  BY <1>1
<1>6. n + 1 \notin 1..n /\ n + 1 <= MaxNodes
  BY <1>1, StructureAssumption
<1>7. \A m : m \in PageNodes' <=> m \in PageNodes \/ (type = "page" /\ m = n + 1)
  BY <1>1, <1>2, <1>3, <1>4, <1>5, <1>6 DEF PageNodes
<1>8. \A m \in PageNodes : m \in 1..n
  BY <1>1 DEF PageNodes
<1> QED BY <1>1, <1>2, <1>3, <1>6, <1>7, <1>8

(* A new edge leads to the new node, which had none.                       *)
LEMMA NewEdge ==
  ASSUME StructureTypes, ParentsComeFirst, ParentsExist, Len(edges) < MaxEdges,
         NEW p \in Nat, p <= Len(nodes), NEW link \in Links,
         edges' = Append(edges, [from |-> p, to |-> Added, type |-> link])
  PROVE  /\ edges' \in Seq(Edge) /\ Len(edges') <= MaxEdges
         /\ \A i \in DOMAIN edges' : edges'[i].to <= Len(nodes) + 1
         /\ ParentsComeFirst'
<1> DEFINE n == Len(edges)
           x == [from |-> p, to |-> Added, type |-> link]
<1>1. /\ edges \in Seq(Edge) /\ n \in Nat /\ DOMAIN edges = 1..n
      /\ Len(nodes) \in Nat /\ Added = Len(nodes) + 1 /\ x \in Edge
      /\ \A i \in 1..n : edges[i] \in Edge /\ edges[i].to \in Nat
  <2>1. edges \in Seq(Edge) /\ nodes \in Seq(Node)
    BY DEF StructureTypes
  <2>2. n \in Nat /\ DOMAIN edges = 1..n /\ Len(nodes) \in Nat /\ Added = Len(nodes) + 1
    BY <2>1, LenProperties DEF Added
  <2>3. ASSUME NEW i \in 1..n PROVE edges[i] \in Edge /\ edges[i].to \in Nat
    <3>1. edges[i] \in Edge
      BY <2>1, ElementOfSeq
    <3> QED BY <3>1 DEF Edge
  <2>4. x \in Edge
    BY <2>2 DEF Edge
  <2> QED BY <2>1, <2>2, <2>3, <2>4
<1>2. x.from = p /\ x.to = Added /\ edges' = Append(edges, x)
  OBVIOUS
<1> HIDE DEF x
<1>3. /\ edges' \in Seq(Edge) /\ Len(edges') = n + 1
      /\ \A i \in 1..n : edges'[i] = edges[i]
      /\ edges'[n + 1] = x
  BY <1>1, <1>2, AppendProperties
<1>4. DOMAIN edges' = 1 .. n + 1
  BY <1>3, LenProperties
<1>5. \A i \in 1 .. n + 1 : i \in 1..n \/ i = n + 1
  BY <1>1
<1>6. n + 1 <= MaxEdges
  BY <1>1, StructureAssumption
<1>7. \A i \in 1..n : edges[i].to <= Len(nodes) /\ edges[i].to # Added
  <2>1. ASSUME NEW i \in 1..n PROVE edges[i].to <= Len(nodes) /\ edges[i].to # Added
    <3>1. edges[i].to \in Nat /\ Len(nodes) \in Nat /\ Added = Len(nodes) + 1 /\ i \in DOMAIN edges
      BY <1>1
    <3>2. edges[i].to <= Len(nodes)
      BY <3>1 DEF ParentsExist
    <3> QED BY <3>1, <3>2
  <2> QED BY <2>1
<1>8. \A i \in 1 .. n + 1 : edges'[i].to <= Len(nodes) + 1
  BY <1>1, <1>2, <1>3, <1>5, <1>7
<1>9. ParentsComeFirst'
  <2> SUFFICES ASSUME NEW i \in 1 .. n + 1
      PROVE  /\ edges'[i].from < edges'[i].to
             /\ \A j \in 1 .. n + 1 : edges'[j].to = edges'[i].to => i = j
    BY <1>4 DEF ParentsComeFirst
  <2>1. CASE i \in 1..n
    <3>1. /\ edges[i].from < edges[i].to
          /\ \A j \in 1..n : edges[j].to = edges[i].to => i = j
      BY <1>1, <2>1 DEF ParentsComeFirst
    <3> QED BY <1>2, <1>3, <1>5, <1>7, <2>1, <3>1
  <2>2. CASE i = n + 1
    <3>1. p < Added
      BY <1>1
    <3> QED BY <1>2, <1>3, <1>5, <1>7, <2>2, <3>1
  <2> QED BY <1>5, <2>1, <2>2
<1> QED BY <1>3, <1>4, <1>6, <1>8, <1>9

-----------------------------------------------------------------------------
(* The line of kids when nothing joins it, and when a page joins its parent *)

(* Nothing new for a page                                                  *)
LEMMA LineShrinks ==
  ASSUME NEW N, NEW E, NEW L, NEW K, NEW f, NEW g, InLine(N, E, L, K, f, g),
         NEW N2, NEW E2, NEW L2,
         \A n \in Pages(N) : n \in Pages(N2) /\ N2[n] = N[n],
         \A i \in PageEdges(N2, E2) : i \in PageEdges(N, E) /\ E2[i] = E[i],
         \A x \in PageTasks(N2, L2) : x \in PageTasks(N, L) /\ L2[x] = L[x]
  PROVE  InLine(N2, E2, L2, K, f, g)
<1>1. \A i \in PageEdges(N, E) : E[i].from \in Pages(N) /\ E[i].to \in Pages(N)
  BY DEF PageEdges
<1>2. \A x \in PageTasks(N, L) : L[x].parent \in Pages(N)
  BY DEF PageTasks
<1>3. \A i \in PageEdges(N2, E2) : KidAt(N2, K, E2[i].from, f[i], N2[E2[i].to].obj)
  BY <1>1 DEF InLine, KidAt
<1>4. \A x \in PageTasks(N2, L2) : KidAt(N2, K, L2[x].parent, g[x], L2[x].obj)
  BY <1>2 DEF InLine, KidAt
<1> QED BY <1>3, <1>4 DEF InLine

(* The page whose turn it is, the last in line, gets its node and its edge *)
(* and its kids join the line.                                             *)
PageJoins(N, E, L, K, N2, E2, L2, m, e, l) ==
  /\ m \in Nat /\ e \in Nat /\ l \in Nat
  /\ \A n \in Pages(N) : n <= m /\ n \in Nat /\ N2[n] = N[n]
  /\ \A n : n \in Pages(N2) <=> n \in Pages(N) \/ n = m + 1
  /\ N2[m + 1].obj = L[l + 1].obj
  /\ DOMAIN E = 1..e /\ \A i \in 1..e : E[i].from \in 0..m /\ E[i].to \in 0..m
  /\ DOMAIN E2 = 1 .. e + 1 /\ \A i \in 1..e : E2[i] = E[i]
  /\ E2[e + 1].from = L[l + 1].parent /\ E2[e + 1].to = m + 1
  /\ DOMAIN L = 1 .. l + 1 /\ L[l + 1].do = "page" /\ L[l + 1].parent \in 0..m
  /\ \A x \in 1..l : L[x].parent \in 0..m
  /\ \A x \in PageTasks(N2, L2) :
       \/ x \in 1..l /\ L2[x] = L[x]
       \/ /\ x \in Nat /\ x > l /\ L2[x].parent = m + 1
          /\ x - l \in DOMAIN K[L[l + 1].obj] /\ L2[x].obj = K[L[l + 1].obj][x - l]

LEMMA LineGoesOn ==
  ASSUME NEW N, NEW E, NEW L, NEW K, NEW f, NEW g, InLine(N, E, L, K, f, g),
         NEW N2, NEW E2, NEW L2, NEW m, NEW e, NEW l,
         PageJoins(N, E, L, K, N2, E2, L2, m, e, l)
  PROVE  \E f2, g2 : InLine(N2, E2, L2, K, f2, g2)
<1> USE DEF PageJoins
<1> DEFINE t == L[l + 1]
           f2 == [i \in 1 .. e + 1 |-> IF i <= e THEN f[i] ELSE g[l + 1]]
           g2 == [x \in DOMAIN L2 |-> IF x <= l THEN g[x] ELSE x - l]
<1>0. /\ \A i \in PageEdges(N, E) : KidAt(N, K, E[i].from, f[i], N[E[i].to].obj)
      /\ \A i, j \in PageEdges(N, E) : E[i].from = E[j].from /\ i < j => f[j] < f[i]
      /\ \A x \in PageTasks(N, L) : KidAt(N, K, L[x].parent, g[x], L[x].obj)
      /\ \A x, y \in PageTasks(N, L) : L[x].parent = L[y].parent /\ x < y => g[x] < g[y]
      /\ \A x \in PageTasks(N, L), i \in PageEdges(N, E) :
           L[x].parent = E[i].from => g[x] < f[i]
  BY DEF InLine
<1>1. m + 1 \notin Pages(N) /\ m + 1 \notin 0..m /\ e + 1 \notin 1..e /\ l + 1 \notin 1..l
  OBVIOUS
<1>2. /\ \A i \in 1..e : f2[i] = f[i]
      /\ f2[e + 1] = g[l + 1]
  OBVIOUS
<1>3. /\ \A x \in PageTasks(N2, L2) : x \in 1..l => g2[x] = g[x]
      /\ \A x \in PageTasks(N2, L2) : x \in Nat /\ x > l => g2[x] = x - l
  BY DEF PageTasks
<1> HIDE DEF f2, g2
<1>4. ASSUME NEW i \in PageEdges(N2, E2)
      PROVE  \/ i \in 1..e /\ i \in PageEdges(N, E) /\ E2[i] = E[i] /\ f2[i] = f[i]
             \/ /\ i = e + 1 /\ E2[i].from = t.parent /\ E2[i].to = m + 1
                /\ l + 1 \in PageTasks(N, L) /\ f2[i] = g[l + 1]
  <2>1. i \in 1 .. e + 1 /\ E2[i].from \in Pages(N2) /\ E2[i].to \in Pages(N2)
        /\ E2[i].type = "child"
    BY DEF PageEdges
  <2>2. CASE i \in 1..e
    <3>1. E2[i].from \in Pages(N) /\ E2[i].to \in Pages(N)
      BY <1>1, <2>1, <2>2
    <3> QED BY <1>2, <2>1, <2>2, <3>1 DEF PageEdges
  <2>3. CASE i = e + 1
    <3>1. t.parent \in Pages(N)
      BY <1>1, <2>1, <2>3
    <3>2. l + 1 \in PageTasks(N, L)
      BY <3>1 DEF PageTasks
    <3> QED BY <1>2, <2>3, <3>2
  <2> QED BY <2>1, <2>2, <2>3
<1>5. ASSUME NEW x \in PageTasks(N2, L2)
      PROVE  \/ x \in 1..l /\ x \in PageTasks(N, L) /\ L2[x] = L[x] /\ g2[x] = g[x]
             \/ /\ x \in Nat /\ x > l /\ L2[x].parent = m + 1 /\ g2[x] = x - l
                /\ x - l \in DOMAIN K[t.obj] /\ L2[x].obj = K[t.obj][x - l]
  <2>1. L2[x].do = "page" /\ L2[x].parent \in Pages(N2)
    BY DEF PageTasks
  <2>2. CASE x \in 1..l /\ L2[x] = L[x]
    <3>1. L[x].parent \in Pages(N)
      BY <1>1, <2>1, <2>2
    <3> QED BY <1>3, <2>1, <2>2, <3>1 DEF PageTasks
  <2>3. CASE x \in Nat /\ x > l
    BY <1>3, <2>3
  <2> QED BY <2>2, <2>3
<1>6. \A i \in PageEdges(N2, E2) : KidAt(N2, K, E2[i].from, f2[i], N2[E2[i].to].obj)
  <2> SUFFICES ASSUME NEW i \in PageEdges(N2, E2)
               PROVE  KidAt(N2, K, E2[i].from, f2[i], N2[E2[i].to].obj)
    OBVIOUS
  <2>1. CASE i \in 1..e
    <3>1. /\ i \in PageEdges(N, E) /\ E2[i] = E[i] /\ f2[i] = f[i]
          /\ E[i].from \in Pages(N) /\ E[i].to \in Pages(N)
      BY <1>1, <1>4, <2>1 DEF PageEdges
    <3>2. KidAt(N, K, E[i].from, f[i], N[E[i].to].obj)
      BY <1>0, <3>1
    <3>3. N2[E[i].from] = N[E[i].from] /\ N2[E[i].to] = N[E[i].to]
      BY <3>1
    <3> QED BY <3>1, <3>2, <3>3 DEF KidAt
  <2>2. CASE i = e + 1
    <3>1. /\ E2[i].from = t.parent /\ E2[i].to = m + 1 /\ f2[i] = g[l + 1]
          /\ l + 1 \in PageTasks(N, L) /\ t.parent \in Pages(N)
      BY <1>1, <1>4, <2>2 DEF PageTasks
    <3>2. KidAt(N, K, t.parent, g[l + 1], t.obj)
      BY <1>0, <3>1
    <3> QED BY <3>1, <3>2 DEF KidAt
  <2> QED BY <1>4, <2>1, <2>2
<1>7. \A i, j \in PageEdges(N2, E2) : E2[i].from = E2[j].from /\ i < j => f2[j] < f2[i]
  <2> SUFFICES ASSUME NEW i \in PageEdges(N2, E2), NEW j \in PageEdges(N2, E2),
                      E2[i].from = E2[j].from, i < j
               PROVE  f2[j] < f2[i]
    OBVIOUS
  <2>1. i \in 1 .. e + 1 /\ j \in 1 .. e + 1 /\ i \in 1..e
    BY DEF PageEdges
  <2>2. i \in PageEdges(N, E) /\ E2[i] = E[i] /\ f2[i] = f[i]
    BY <1>1, <1>4, <2>1
  <2>3. CASE j \in 1..e
    BY <1>0, <1>1, <1>4, <2>2, <2>3
  <2>4. CASE j = e + 1
    <3>1. E2[j].from = t.parent /\ l + 1 \in PageTasks(N, L) /\ f2[j] = g[l + 1]
      BY <1>1, <1>4, <2>4
    <3> QED BY <1>0, <2>2, <3>1
  <2> QED BY <2>1, <2>3, <2>4
<1>8. \A x \in PageTasks(N2, L2) : KidAt(N2, K, L2[x].parent, g2[x], L2[x].obj)
  <2> SUFFICES ASSUME NEW x \in PageTasks(N2, L2)
               PROVE  KidAt(N2, K, L2[x].parent, g2[x], L2[x].obj)
    OBVIOUS
  <2>1. CASE x \in 1..l /\ x \in PageTasks(N, L) /\ L2[x] = L[x] /\ g2[x] = g[x]
    <3>1. L[x].parent \in Pages(N)
      BY <2>1 DEF PageTasks
    <3>2. KidAt(N, K, L[x].parent, g[x], L[x].obj) /\ N2[L[x].parent] = N[L[x].parent]
      BY <1>0, <2>1, <3>1
    <3> QED BY <2>1, <3>2 DEF KidAt
  <2>2. CASE /\ x \in Nat /\ x > l /\ L2[x].parent = m + 1 /\ g2[x] = x - l
             /\ x - l \in DOMAIN K[t.obj] /\ L2[x].obj = K[t.obj][x - l]
    BY <2>2 DEF KidAt
  <2> QED BY <1>5, <2>1, <2>2
<1>9. \A x, y \in PageTasks(N2, L2) : L2[x].parent = L2[y].parent /\ x < y => g2[x] < g2[y]
  <2> SUFFICES ASSUME NEW x \in PageTasks(N2, L2), NEW y \in PageTasks(N2, L2),
                      L2[x].parent = L2[y].parent, x < y
               PROVE  g2[x] < g2[y]
    OBVIOUS
  <2>1. CASE y \in 1..l
    <3>1. x \in 1..l
      BY <1>5, <2>1
    <3> QED BY <1>0, <1>5, <2>1, <3>1
  <2>2. CASE y \in Nat /\ y > l
    <3>1. L2[y].parent = m + 1 /\ g2[y] = y - l
      BY <1>5, <2>2
    <3>2. ASSUME x \in 1..l PROVE FALSE
      <4>1. L2[x] = L[x] /\ L[x].parent \in 0..m
        BY <1>5, <3>2
      <4> QED BY <1>1, <3>1, <4>1
    <3>3. x \in Nat /\ x > l /\ g2[x] = x - l
      BY <1>5, <3>2
    <3> QED BY <2>2, <3>1, <3>3
  <2> QED BY <1>5, <2>1, <2>2
<1>10. \A x \in PageTasks(N2, L2), i \in PageEdges(N2, E2) :
         L2[x].parent = E2[i].from => g2[x] < f2[i]
  <2> SUFFICES ASSUME NEW x \in PageTasks(N2, L2), NEW i \in PageEdges(N2, E2),
                      L2[x].parent = E2[i].from
               PROVE  g2[x] < f2[i]
    OBVIOUS
  <2>1. E2[i].from \in 0..m
    BY <1>4
  <2>2. x \in 1..l /\ x \in PageTasks(N, L) /\ L2[x] = L[x] /\ g2[x] = g[x]
    BY <1>1, <1>5, <2>1
  <2>3. CASE i \in 1..e
    BY <1>0, <1>1, <1>4, <2>2, <2>3
  <2>4. CASE i = e + 1
    <3>1. E2[i].from = t.parent /\ l + 1 \in PageTasks(N, L) /\ f2[i] = g[l + 1]
      BY <1>1, <1>4, <2>4
    <3>2. x < l + 1
      BY <2>2
    <3> QED BY <1>0, <2>2, <3>1, <3>2
  <2> QED BY <1>4, <2>3, <2>4
<1> QED BY <1>6, <1>7, <1>8, <1>9, <1>10 DEF InLine

LEMMA LineTypes ==
  ASSUME StructureTypes, ParentsExist, ParentsComeFirst
  PROVE  /\ Line \in Seq(TaskSet) /\ Len(Line) \in Nat /\ DOMAIN Line = 1 .. Len(Line)
         /\ \A x \in 1 .. Len(Line) : Line[x].parent \in 0 .. Len(nodes)
         /\ Len(nodes) \in Nat /\ \A n \in PageNodes : n \in Nat /\ n <= Len(nodes)
         /\ DOMAIN edges = 1 .. Len(edges) /\ Len(edges) \in Nat
         /\ \A i \in 1 .. Len(edges) : /\ edges[i].from \in 0 .. Len(nodes)
                                       /\ edges[i].to \in 0 .. Len(nodes)
<1>1. /\ todo \in Seq(TaskSet) /\ task \in TaskSet /\ nodes \in Seq(Node)
      /\ edges \in Seq(Edge) /\ Len(nodes) \in Nat /\ Len(edges) \in Nat
      /\ DOMAIN nodes = 1 .. Len(nodes) /\ DOMAIN edges = 1 .. Len(edges)
  BY LenProperties DEF StructureTypes
<1>2. /\ Line \in Seq(TaskSet)
      /\ \A x \in 1 .. Len(Line) : Line[x] \in ToSet(todo) \/ Line[x] = task
  <2>1. CASE ~Loading
    BY <1>1, <2>1, ElementsInSet DEF Line
  <2>2. CASE Loading
    <3> DEFINE s == Append(todo, task)
    <3>1. /\ s \in Seq(TaskSet) /\ Len(s) = Len(todo) + 1 /\ Len(todo) \in Nat
          /\ \A x \in 1 .. Len(todo) : s[x] = todo[x]
          /\ s[Len(todo) + 1] = task
      BY <1>1, AppendProperties, LenProperties
    <3>2. \A x \in 1 .. Len(todo) : todo[x] \in ToSet(todo)
      BY <1>1, ElementsInSet
    <3> HIDE DEF s
    <3>3. \A x \in 1 .. Len(s) : x \in 1 .. Len(todo) \/ x = Len(todo) + 1
      BY <3>1
    <3>4. Line = s
      BY <2>2 DEF Line, s
    <3> QED BY <3>1, <3>2, <3>3, <3>4
  <2> QED BY <2>1, <2>2
<1>3. Len(Line) \in Nat /\ DOMAIN Line = 1 .. Len(Line)
  BY <1>2, LenProperties
<1>4. ASSUME NEW x \in 1 .. Len(Line) PROVE Line[x].parent \in 0 .. Len(nodes)
  <2>1. Line[x] \in TaskSet
    BY <1>2, ElementOfSeq
  <2>2. Line[x].parent \in Nat
    BY <2>1 DEF TaskSet
  <2>3. Line[x].parent <= Len(nodes)
    BY <1>2 DEF ParentsExist
  <2> QED BY <1>1, <2>2, <2>3
<1>5. ASSUME NEW i \in 1 .. Len(edges)
      PROVE  edges[i].from \in 0 .. Len(nodes) /\ edges[i].to \in 0 .. Len(nodes)
  <2>1. edges[i] \in Edge
    BY <1>1, ElementOfSeq
  <2>2. edges[i].from \in Nat /\ edges[i].to \in Nat
    BY <2>1 DEF Edge
  <2>3. edges[i].to <= Len(nodes) /\ edges[i].from < edges[i].to
    BY <1>1 DEF ParentsExist, ParentsComeFirst
  <2> QED BY <1>1, <2>2, <2>3
<1> QED BY <1>1, <1>2, <1>3, <1>4, <1>5 DEF PageNodes

(* No node and no edge is added, and no page joins the line.               *)
LEMMA LineKeeps ==
  ASSUME KidsInLine, UNCHANGED <<nodes, edges, doc>>,
         \A x \in DOMAIN Line' : \/ Line'[x].do # "page"
                                 \/ x \in DOMAIN Line /\ Line'[x] = Line[x]
  PROVE  KidsInLine'
<1>1. PICK f, g : InLine(nodes, edges, Line, doc.kids, f, g)
  BY DEF KidsInLine
<1>2. PICK L2 : L2 = Line'
  OBVIOUS
<1>3. \A x \in PageTasks(nodes, L2) : x \in PageTasks(nodes, Line) /\ L2[x] = Line[x]
  BY <1>2 DEF PageTasks
<1>4. InLine(nodes, edges, L2, doc.kids, f, g)
  BY <1>1, <1>3, LineShrinks
<1> QED BY <1>2, <1>4 DEF KidsInLine

(* The walk fails, a node without its edge left behind or not.             *)
LEMMA LineAborts ==
  ASSUME KidsInLine, StructureTypes, ParentsExist, ParentsComeFirst,
         pc' = "error", todo' = <<>>, UNCHANGED <<edges, doc>>,
         \A n \in PageNodes : n \in PageNodes' /\ nodes'[n] = nodes[n],
         \A n \in PageNodes' : n \in PageNodes \/ n = Len(nodes) + 1
  PROVE  KidsInLine'
<1>1. PICK f, g : InLine(nodes, edges, Line, doc.kids, f, g)
  BY DEF KidsInLine
<1>2. PICK N2 : N2 = nodes'
  OBVIOUS
<1>3. Line' = <<>>
  BY DEF Line, Loading
<1>4. Pages(nodes) = PageNodes /\ Pages(N2) = PageNodes'
  BY <1>2 DEF Pages, PageNodes
<1>5. \A i \in PageEdges(N2, edges) : i \in PageEdges(nodes, edges)
  <2>1. \A i \in DOMAIN edges : /\ edges[i].from # Len(nodes) + 1
                                /\ edges[i].to # Len(nodes) + 1
    BY LineTypes
  <2> QED BY <1>4, <2>1 DEF PageEdges
<1>6. \A x \in PageTasks(N2, <<>>) : x \in PageTasks(nodes, Line) /\ <<>>[x] = Line[x]
  BY DEF PageTasks
<1>7. InLine(N2, edges, <<>>, doc.kids, f, g)
  BY <1>1, <1>2, <1>4, <1>5, <1>6, LineShrinks
<1> QED BY <1>2, <1>3, <1>7 DEF KidsInLine

(* The task at the end of the line makes way for a list of others.         *)
LEMMA GoLine ==
  ASSUME StructureTypes, pc \in {"take", "loading", "resources"},
         pc = "take" => todo # <<>>, NEW list \in Seq(TaskSet), Go(list)
  PROVE  \E l \in Nat :
           /\ Len(Line) = l + 1
           /\ Line[l + 1] = IF pc = "take" THEN Last(todo) ELSE task
           /\ Line' \in Seq(TaskSet) /\ Len(Line') = l + Len(list)
           /\ \A x \in 1..l : Line'[x] = Line[x]
           /\ \A x \in 1 .. Len(list) : Line'[l + x] = list[(Len(list) - x) + 1]
<1>1. /\ todo \in Seq(TaskSet) /\ task \in TaskSet /\ Len(todo) \in Nat
      /\ Len(list) \in Nat
  BY LenProperties DEF StructureTypes
<1>2. \E l \in Nat :
        /\ Waiting \in Seq(TaskSet) /\ Len(Waiting) = l /\ Len(Line) = l + 1
        /\ \A x \in 1..l : Waiting[x] = Line[x]
        /\ Line[l + 1] = IF pc = "take" THEN Last(todo) ELSE task
  <2>1. CASE pc = "take"
    <3>1. Waiting = Front(todo) /\ Line = todo
      BY <2>1 DEF Waiting, Line, Loading
    <3> QED BY <1>1, <2>1, <3>1, FrontElements
  <2>2. CASE pc # "take"
    <3>1. Waiting = todo /\ Line = Append(todo, task)
      BY <2>2 DEF Waiting, Line, Loading
    <3>2. /\ Len(Append(todo, task)) = Len(todo) + 1
          /\ \A x \in 1 .. Len(todo) : Append(todo, task)[x] = todo[x]
          /\ Append(todo, task)[Len(todo) + 1] = task
      BY <1>1, AppendProperties
    <3> QED BY <1>1, <2>2, <3>1, <3>2
  <2> QED BY <2>1, <2>2
<1>3. PICK l \in Nat :
        /\ Waiting \in Seq(TaskSet) /\ Len(Waiting) = l /\ Len(Line) = l + 1
        /\ \A x \in 1..l : Waiting[x] = Line[x]
        /\ Line[l + 1] = IF pc = "take" THEN Last(todo) ELSE task
  BY <1>2
<1> DEFINE r == Reverse(list)
<1>4. /\ r \in Seq(TaskSet) /\ Len(r) = Len(list)
      /\ \A x \in 1 .. Len(list) : r[x] = list[(Len(list) - x) + 1]
  <2>1. r \in Seq(TaskSet)
    BY ReverseElements
  <2>2. r = [x \in 1 .. Len(list) |-> list[(Len(list) - x) + 1]]
    BY DEF Reverse
  <2>3. DOMAIN r = 1 .. Len(r) /\ Len(r) \in Nat
    BY <2>1, LenProperties
  <2>4. DOMAIN r = 1 .. Len(list)
    BY <2>2
  <2>5. Len(r) = Len(list)
    BY <1>1, <2>3, <2>4
  <2> QED BY <2>1, <2>2, <2>5
<1>5. Line' = Waiting \o r
  BY DEF Go, Line, Loading
<1> HIDE DEF r
<1>6. /\ Waiting \o r \in Seq(TaskSet) /\ Len(Waiting \o r) = l + Len(list)
      /\ \A x \in 1 .. l + Len(list) :
           (Waiting \o r)[x] = IF x <= l THEN Waiting[x] ELSE r[x - l]
  <2>1. PICK w : w = Waiting
    OBVIOUS
  <2>2. w \in Seq(TaskSet) /\ r \in Seq(TaskSet)
    BY <1>3, <1>4, <2>1
  <2>3. /\ w \o r \in Seq(TaskSet) /\ Len(w \o r) = Len(w) + Len(r)
        /\ \A x \in 1 .. Len(w) + Len(r) :
             (w \o r)[x] = IF x <= Len(w) THEN w[x] ELSE r[x - Len(w)]
    BY <2>2, ConcatProperties
  <2>4. Len(w) = l /\ Len(r) = Len(list)
    BY <1>3, <1>4, <2>1
  <2> QED BY <2>1, <2>3, <2>4
<1>7. \A x \in 1..l : x \in 1 .. l + Len(list) /\ x <= l
  BY <1>1
<1>8. \A x \in 1 .. Len(list) : /\ l + x \in 1 .. l + Len(list) /\ ~(l + x <= l)
                                /\ (l + x) - l = x
  BY <1>1
<1>9. \A x \in 1 .. Len(list) : (Waiting \o r)[l + x] = r[x]
  BY <1>6, <1>8
<1> QED BY <1>3, <1>4, <1>5, <1>6, <1>7, <1>9

(* Only a page has pages next, which are the kids of its array, backwards. *)
KidsComeNext(list, type, o) ==
  \A k \in 1 .. Len(list) :
    list[k].do = "page" =>
      /\ list[k].parent = Added
      /\ type = "page" => /\ (Len(list) - k) + 1 \in DOMAIN doc.kids[o]
                          /\ list[k].obj = doc.kids[o][(Len(list) - k) + 1]

(* A node for the task, and an edge to it.                                 *)
LEMMA LineAdds ==
  ASSUME KidsInLine, StructureTypes, ParentsExist, ParentsComeFirst, UNCHANGED doc,
         pc \in {"take", "loading", "resources"}, pc = "take" => todo # <<>>,
         NEW type \in NodeTypes, NEW t \in TaskSet, NEW list \in Seq(TaskSet), Go(list),
         type = "page" => pc # "take" /\ t = task /\ t.do = "page",
         KidsComeNext(list, type, t.obj),
         \A m : m \in PageNodes' <=> \/ m \in PageNodes
                                     \/ type = "page" /\ m = Len(nodes) + 1,
         \A m \in PageNodes : nodes'[m] = nodes[m],
         nodes'[Len(nodes) + 1].obj = t.obj,
         \/ type # "page" /\ edges' = edges
         \/ /\ edges' \in Seq(Edge) /\ Len(edges') = Len(edges) + 1
            /\ \A i \in 1 .. Len(edges) : edges'[i] = edges[i]
            /\ edges'[Len(edges) + 1].from = t.parent
            /\ edges'[Len(edges) + 1].to = Added
  PROVE  KidsInLine'
<1>1. PICK f, g : InLine(nodes, edges, Line, doc.kids, f, g)
  BY DEF KidsInLine
<1>2. PICK N2, E2, L2 : N2 = nodes' /\ E2 = edges' /\ L2 = Line'
  OBVIOUS
<1>3. PICK m \in Nat, e \in Nat : m = Len(nodes) /\ e = Len(edges) /\ Added = m + 1
  BY LineTypes DEF Added
<1>4. PICK l \in Nat :
        /\ Len(Line) = l + 1
        /\ Line[l + 1] = IF pc = "take" THEN Last(todo) ELSE task
        /\ L2 \in Seq(TaskSet) /\ Len(L2) = l + Len(list)
        /\ \A x \in 1..l : L2[x] = Line[x]
        /\ \A x \in 1 .. Len(list) : L2[l + x] = list[(Len(list) - x) + 1]
  BY <1>2, GoLine
<1>5. /\ Pages(nodes) = PageNodes /\ Pages(N2) = PageNodes'
      /\ \A n \in Pages(nodes) : n \in Nat /\ n <= m /\ N2[n] = nodes[n]
      /\ \A n : n \in Pages(N2) <=> n \in Pages(nodes) \/ (type = "page" /\ n = m + 1)
  <2>1. Pages(nodes) = PageNodes /\ Pages(N2) = PageNodes'
    BY <1>2 DEF Pages, PageNodes
  <2>2. \A n \in PageNodes : n \in Nat /\ n <= m
    BY <1>3, LineTypes
  <2> QED BY <1>2, <1>3, <2>1, <2>2
<1>6. /\ DOMAIN edges = 1..e /\ DOMAIN Line = 1 .. l + 1
      /\ \A i \in 1..e : edges[i].from \in 0..m /\ edges[i].to \in 0..m
      /\ \A x \in 1 .. l + 1 : Line[x].parent \in 0..m
  BY <1>3, <1>4, LineTypes
<1>7. DOMAIN L2 = 1 .. l + Len(list) /\ Len(list) \in Nat
  BY <1>4, LenProperties
<1>8. ASSUME NEW x \in PageTasks(N2, L2)
      PROVE  \/ x \in 1..l /\ L2[x] = Line[x]
             \/ /\ x \in Nat /\ x > l /\ L2[x].parent = m + 1
                /\ type = "page" => /\ x - l \in DOMAIN doc.kids[t.obj]
                                    /\ L2[x].obj = doc.kids[t.obj][x - l]
  <2>1. x \in 1 .. l + Len(list) /\ L2[x].do = "page"
    BY <1>7 DEF PageTasks
  <2>2. CASE x \in 1..l
    BY <1>4, <2>2
  <2>3. CASE x > l
    <3> DEFINE k == (Len(list) - (x - l)) + 1
    <3>1. x - l \in 1 .. Len(list) /\ l + (x - l) = x /\ x \in Nat
      BY <1>7, <2>1, <2>3
    <3>2. k \in 1 .. Len(list) /\ (Len(list) - k) + 1 = x - l
      BY <1>7, <3>1
    <3>3. L2[x] = list[k]
      BY <1>4, <3>1
    <3> HIDE DEF k
    <3>4. /\ L2[x].parent = Added
          /\ type = "page" => /\ (Len(list) - k) + 1 \in DOMAIN doc.kids[t.obj]
                              /\ L2[x].obj = doc.kids[t.obj][(Len(list) - k) + 1]
      BY <2>1, <3>2, <3>3 DEF KidsComeNext
    <3> QED BY <1>3, <2>3, <3>1, <3>2, <3>4
  <2> QED BY <1>7, <2>1, <2>2, <2>3
<1>9. \E f2, g2 : InLine(N2, E2, L2, doc.kids, f2, g2)
  <2>1. CASE type # "page"
    <3>1. \A i \in PageEdges(N2, E2) : i \in PageEdges(nodes, edges) /\ E2[i] = edges[i]
      <4>1. \A n : n \in Pages(N2) <=> n \in Pages(nodes)
        BY <1>5, <2>1
      <4>2. CASE edges' = edges
        BY <1>2, <4>1, <4>2 DEF PageEdges
      <4>3. CASE /\ edges' \in Seq(Edge) /\ Len(edges') = Len(edges) + 1
                 /\ \A i \in 1 .. Len(edges) : edges'[i] = edges[i]
                 /\ edges'[Len(edges) + 1].to = Added
        <5>1. DOMAIN E2 = 1 .. e + 1
          BY <1>2, <1>3, <4>3, LenProperties
        <5>2. \A i \in 1 .. e + 1 : i \in 1..e \/ i = e + 1
          OBVIOUS
        <5>3. E2[e + 1].to \notin Pages(N2)
          BY <1>2, <1>3, <1>5, <4>1, <4>3
        <5>4. \A i \in 1..e : E2[i] = edges[i]
          BY <1>2, <1>3, <4>3
        <5> QED BY <1>6, <4>1, <5>1, <5>2, <5>3, <5>4 DEF PageEdges
      <4> QED BY <4>2, <4>3
    <3>2. \A x \in PageTasks(N2, L2) : x \in PageTasks(nodes, Line) /\ L2[x] = Line[x]
      <4> SUFFICES ASSUME NEW x \in PageTasks(N2, L2)
                   PROVE  x \in PageTasks(nodes, Line) /\ L2[x] = Line[x]
        OBVIOUS
      <4>1. L2[x].do = "page" /\ L2[x].parent \in Pages(nodes)
        BY <1>5, <2>1 DEF PageTasks
      <4>2. L2[x].parent # m + 1
        BY <1>5, <4>1
      <4>3. x \in 1..l /\ L2[x] = Line[x]
        BY <1>8, <4>2
      <4> QED BY <1>6, <4>1, <4>3 DEF PageTasks
    <3>3. \A n \in Pages(nodes) : n \in Pages(N2) /\ N2[n] = nodes[n]
      BY <1>5
    <3> QED BY <1>1, <3>1, <3>2, <3>3, LineShrinks
  <2>2. CASE type = "page"
    <3>1. Line[l + 1] = t /\ t.do = "page" /\ l + 1 \in 1 .. l + 1
      BY <1>4, <2>2
    <3>2. /\ DOMAIN E2 = 1 .. e + 1 /\ \A i \in 1..e : E2[i] = edges[i]
          /\ E2[e + 1].from = t.parent /\ E2[e + 1].to = m + 1
      BY <1>2, <1>3, <2>2, LenProperties
    <3>3. N2[m + 1].obj = Line[l + 1].obj
      BY <1>2, <1>3, <3>1
    <3>4. \A n : n \in Pages(N2) <=> n \in Pages(nodes) \/ n = m + 1
      BY <1>5, <2>2
    <3>5. \A x \in PageTasks(N2, L2) :
            \/ x \in 1..l /\ L2[x] = Line[x]
            \/ /\ x \in Nat /\ x > l /\ L2[x].parent = m + 1
               /\ x - l \in DOMAIN doc.kids[Line[l + 1].obj]
               /\ L2[x].obj = doc.kids[Line[l + 1].obj][x - l]
      BY <1>8, <2>2, <3>1
    <3>6. /\ \A n \in Pages(nodes) : n <= m /\ n \in Nat
          /\ \A n \in Pages(nodes) : N2[n] = nodes[n]
          /\ \A i \in 1..e : edges[i].from \in 0..m /\ edges[i].to \in 0..m
          /\ \A x \in 1..l : Line[x].parent \in 0..m
          /\ Line[l + 1].parent \in 0..m
      BY <1>5, <1>6
    <3>7. /\ DOMAIN edges = 1..e /\ DOMAIN Line = 1 .. l + 1 /\ Line[l + 1].do = "page"
          /\ E2[e + 1].from = Line[l + 1].parent
      BY <1>6, <3>1, <3>2
    <3>8. PageJoins(nodes, edges, Line, doc.kids, N2, E2, L2, m, e, l)
      BY <3>2, <3>3, <3>4, <3>5, <3>6, <3>7 DEF PageJoins
    <3> QED BY <1>1, <3>8, LineGoesOn
  <2> QED BY <2>1, <2>2
<1> QED BY <1>2, <1>9 DEF KidsInLine

(* A step that builds on what was loaded, and leaves the page that was     *)
(* being loaded accounted for, keeps the invariant.                        *)
LEMMA BuiltLemma ==
  ASSUME SInv, pc # "error", stack = <<>>, UNCHANGED vars,
         pc' \in {"take", "done", "error"}, pc' = "done" => todo' = <<>>,
         todo' \in Seq(TaskSet), task' \in TaskSet, visited' = visited,
         nodes' \in Seq(Node), Len(nodes') <= MaxNodes,
         edges' \in Seq(Edge), Len(edges') <= MaxEdges,
         (tolerant /\ pc' = "error") =>
            LoaderLimit \/ Len(nodes') = MaxNodes \/ Len(edges') = MaxEdges,
         \A m \in PageNodes : m \in PageNodes' /\ nodes'[m] = nodes[m],
         \A m \in PageNodes' : \/ m \in PageNodes
                               \/ /\ m = Len(nodes) + 1
                                  /\ \E o \in Objects : LoadingPage(o) /\ nodes'[m].obj = o,
         ParentsExist', ParentsComeFirst', KidsInLine',
         pc' # "error" =>
            /\ \A k \in Objects : LoadingPage(k) => Accounted(k)'
            /\ \A m \in PageNodes' : m \notin PageNodes =>
                  \A k \in ToSet(doc.kids[nodes'[m].obj]) :
                    \E t \in ToSet(todo') : t.do = "page" /\ t.obj = k
            /\ \A t \in ToSet(todo) : t.do = "page" => t \in ToSet(todo')
  PROVE  SInv'
<1>1. IInv'
  BY StutterIInv DEF SInv
<1>2. /\ UNCHANGED <<tolerant, doc, stack, used, diagnostics, blamed, stopped, result>>
      /\ pc' \notin {"loading", "resources"} /\ stack' = <<>>
  BY DEF vars
<1>3. StructureTypes'
  BY DEF SInv, StructureTypes
<1>4. LoadIsForTask' /\ FailsAtLimits'
  BY <1>2 DEF LoadIsForTask, FailsAtLimits, Loading
<1>5. TolerantFailsAtLimits'
  BY <1>2 DEF TolerantFailsAtLimits, LoaderLimit
<1>6. /\ \A n \in PageNodes : nodes[n].obj \in visited
      /\ \A k \in Objects : LoadingPage(k) =>
           k \in visited /\ \A n \in PageNodes : nodes[n].obj # k
      /\ OneNodePerPage
      /\ visited \subseteq Objects
  BY DEF SInv, PagesAreVisited, StructureTypes
<1>7. PagesAreVisited'
  <2>1. \A k \in Objects : ~LoadingPage(k)'
    BY <1>2 DEF LoadingPage, Loading
  <2>2. \A n \in PageNodes' : nodes'[n].obj \in visited'
    BY <1>6
  <2> QED BY <2>1, <2>2 DEF PagesAreVisited
<1>8. OneNodePerPage'
  <2> SUFFICES ASSUME NEW m \in PageNodes', NEW n \in PageNodes',
                      nodes'[m].obj = nodes'[n].obj
      PROVE  m = n
    BY DEF OneNodePerPage
  <2>1. CASE m \in PageNodes /\ n \in PageNodes
    BY <1>6, <2>1 DEF OneNodePerPage
  <2>2. CASE m \notin PageNodes \/ n \notin PageNodes
    BY <1>6, <2>2
  <2> QED BY <2>1, <2>2
<1>9. ASSUME NEW k, Accounted(k) PROVE Accounted(k)'
  BY <1>2, <1>9 DEF Accounted
<1>10. ASSUME pc' # "error"
       PROVE  KidsArePending'
  <2>1. /\ \A k \in visited : Accounted(k) \/ LoadingPage(k)
        /\ \A n \in PageNodes : \A k \in ToSet(doc.kids[nodes[n].obj]) :
             \/ Accounted(k)
             \/ LoadingPage(k)
             \/ \E t \in ToSet(todo) : t.do = "page" /\ t.obj = k
    <3>1. pc # "error"
      OBVIOUS
    <3> QED BY <3>1 DEF SInv, KidsArePending
  <2>2. \A k \in visited : Accounted(k)'
    BY <1>6, <1>9, <1>10, <2>1
  <2>3. ASSUME NEW n \in PageNodes', NEW k \in ToSet(doc.kids[nodes'[n].obj])
        PROVE  Accounted(k)' \/ \E t \in ToSet(todo') : t.do = "page" /\ t.obj = k
    <3>1. CASE n \in PageNodes
      <4>1. nodes'[n] = nodes[n]
        BY <3>1
      <4>2. \/ Accounted(k)
            \/ LoadingPage(k)
            \/ \E t \in ToSet(todo) : t.do = "page" /\ t.obj = k
        BY <2>1, <3>1, <4>1
      <4>3. LoadingPage(k) => k \in Objects
        BY DEF LoadingPage, SInv, StructureTypes, TaskSet
      <4> QED BY <1>9, <1>10, <4>2, <4>3
    <3>2. CASE n \notin PageNodes
      BY <1>10, <3>2
    <3> QED BY <3>1, <3>2
  <2> QED BY <1>2, <2>2, <2>3 DEF KidsArePending
<1>11. KidsArePending'
  BY <1>10 DEF KidsArePending
<1> QED BY <1>1, <1>3, <1>4, <1>5, <1>7, <1>8, <1>11 DEF SInv

(* A node for the task, with its edge and its tasks, or a limit.           *)
LEMMA AddLemma ==
  ASSUME SInv, pc \in {"take", "loading", "resources"}, stack = <<>>, UNCHANGED vars,
         pc = "take" => todo # <<>> /\ Last(todo).do # "page",
         NEW t \in TaskSet, t.parent <= Len(nodes), pc # "take" => t = task,
         NEW type \in NodeTypes, NEW link \in Links, NEW list \in Seq(TaskSet),
         type = "page" <=> (pc # "take" /\ t.do = "page"), type = "page" => link = "child",
         \A x \in ToSet(list) : x.parent <= Added, KidsComeNext(list, type, t.obj),
         type = "page" => \A k \in ToSet(doc.kids[t.obj]) :
                             \E x \in ToSet(list) : x.do = "page" /\ x.obj = k,
         AddFor(t, type, link, list)
  PROVE  SInv'
<1>1. /\ StructureTypes /\ ParentsExist /\ ParentsComeFirst /\ t.obj \in Objects
      /\ nodes \in Seq(Node) /\ edges \in Seq(Edge) /\ todo \in Seq(TaskSet)
      /\ Len(nodes) \in Nat /\ Len(edges) \in Nat
      /\ Len(nodes) <= MaxNodes /\ Len(edges) <= MaxEdges
      /\ \A i \in DOMAIN edges : edges[i].to \in Nat
      /\ KidsInLine /\ doc' = doc
  <2>1. /\ StructureTypes /\ ParentsExist /\ ParentsComeFirst /\ t.obj \in Objects
        /\ nodes \in Seq(Node) /\ edges \in Seq(Edge) /\ todo \in Seq(TaskSet)
        /\ Len(nodes) <= MaxNodes /\ Len(edges) <= MaxEdges
        /\ KidsInLine /\ doc' = doc
    BY DEF SInv, StructureTypes, TaskSet, vars
  <2>2. DOMAIN edges = 1 .. Len(edges) /\ Len(nodes) \in Nat /\ Len(edges) \in Nat
    BY <2>1, LenProperties
  <2>3. \A i \in DOMAIN edges : edges[i] \in Edge
    BY <2>1, <2>2, ElementOfSeq
  <2> QED BY <2>1, <2>2, <2>3 DEF Edge
<1>2. /\ task' = t /\ visited' = visited
      /\ \A k : LoadingPage(k) => type = "page" /\ k = t.obj
      /\ type = "page" => LoadingPage(t.obj)
  BY DEF AddFor, LoadingPage, Loading
<1>3. CASE (stopped \/ Len(nodes) >= MaxNodes) /\ Abort /\ UNCHANGED <<nodes, edges>>
  <2>1. /\ pc' = "error" /\ todo' = <<>> /\ nodes' = nodes /\ edges' = edges
        /\ ToSet(todo') = {} /\ todo' \in Seq(TaskSet)
    BY <1>3, EmptySeq DEF Abort, ToSet
  <2>2. LoaderLimit \/ Len(nodes') = MaxNodes
    BY <1>1, <1>3, <2>1, StructureAssumption DEF LoaderLimit
  <2>3. ParentsExist' /\ ParentsComeFirst' /\ PageNodes' = PageNodes
    BY <1>1, <1>2, <2>1 DEF ParentsExist, ParentsComeFirst, PageNodes
  <2>4. KidsInLine'
    BY <1>1, <2>1, <2>3, LineAborts
  <2> QED BY <1>1, <1>2, <2>1, <2>2, <2>3, <2>4, BuiltLemma
<1>4. ASSUME Len(nodes) < MaxNodes, nodes' = Append(nodes, [type |-> type, obj |-> t.obj])
      PROVE  /\ nodes' \in Seq(Node) /\ Len(nodes') = Len(nodes) + 1
             /\ Len(nodes') <= MaxNodes
             /\ \A m \in PageNodes : m \in PageNodes' /\ nodes'[m] = nodes[m]
             /\ \A m \in PageNodes' : \/ m \in PageNodes
                                      \/ /\ m = Len(nodes) + 1
                                         /\ type = "page" /\ nodes'[m].obj = t.obj
             /\ type = "page" => Len(nodes) + 1 \in PageNodes'
             /\ nodes'[Len(nodes) + 1].obj = t.obj
  <2>1. /\ nodes' \in Seq(Node) /\ Len(nodes') = Len(nodes) + 1
        /\ Len(nodes') <= MaxNodes
        /\ \A m : m \in PageNodes' <=> \/ m \in PageNodes
                                       \/ type = "page" /\ m = Len(nodes) + 1
        /\ \A m \in PageNodes : nodes'[m] = nodes[m]
        /\ nodes'[Len(nodes) + 1].obj = t.obj
    BY <1>1, <1>4, NewNode
  <2> QED BY <2>1
<1>5. CASE /\ Len(nodes) < MaxNodes
           /\ nodes' = Append(nodes, [type |-> type, obj |-> t.obj])
           /\ Len(edges) >= MaxEdges /\ Abort /\ UNCHANGED edges
  <2>1. /\ pc' = "error" /\ todo' = <<>> /\ edges' = edges
        /\ ToSet(todo') = {} /\ todo' \in Seq(TaskSet)
    BY <1>5, EmptySeq DEF Abort, ToSet
  <2>2. Len(edges') = MaxEdges
    BY <1>1, <1>5, <2>1, StructureAssumption
  <2>3. ParentsExist' /\ ParentsComeFirst'
    <3>1. Len(nodes') = Len(nodes) + 1
      BY <1>4, <1>5
    <3>2. t.parent <= Len(nodes')
      BY <1>1, <3>1 DEF TaskSet
    <3>3. \A i \in DOMAIN edges : edges[i].to <= Len(nodes')
      BY <1>1, <3>1 DEF ParentsExist
    <3> QED BY <1>1, <1>2, <2>1, <3>2, <3>3 DEF ParentsExist, ParentsComeFirst
  <2>4. KidsInLine'
    BY <1>1, <1>4, <1>5, <2>1, LineAborts
  <2> QED BY <1>1, <1>2, <1>4, <1>5, <2>1, <2>2, <2>3, <2>4, BuiltLemma
<1>6. ASSUME Len(nodes) < MaxNodes, Go(list),
             nodes' = Append(nodes, [type |-> type, obj |-> t.obj]),
             edges' \in Seq(Edge), Len(edges') <= MaxEdges, ParentsComeFirst',
             \A i \in DOMAIN edges' : edges'[i].to <= Len(nodes) + 1,
             \/ type # "page" /\ edges' = edges
             \/ /\ Len(edges') = Len(edges) + 1
                /\ \A i \in 1 .. Len(edges) : edges'[i] = edges[i]
                /\ edges'[Len(edges) + 1].from = t.parent
                /\ edges'[Len(edges) + 1].to = Added
      PROVE  SInv'
  <2>1. /\ pc' = "take" /\ todo' \in Seq(TaskSet)
        /\ \A x \in ToSet(todo') : x \in ToSet(todo) \/ x \in ToSet(list)
        /\ \A x \in ToSet(list) : x \in ToSet(todo')
        /\ \A x \in ToSet(todo) : x \in ToSet(todo') \/ x.do # "page"
    BY <1>1, <1>6, GoLemma
  <2>2. ParentsExist'
    <3>1. Len(nodes') = Len(nodes) + 1 /\ Added = Len(nodes) + 1
      BY <1>4, <1>6 DEF Added
    <3>2. \A x \in ToSet(todo) : x \in TaskSet
      BY <1>1, ElementsInSet
    <3>3. \A x \in ToSet(todo') : x.parent <= Len(nodes')
      BY <1>1, <2>1, <3>1, <3>2 DEF ParentsExist, TaskSet
    <3>4. t.parent <= Len(nodes')
      BY <1>1, <3>1 DEF TaskSet
    <3> QED BY <1>2, <1>6, <3>1, <3>3, <3>4 DEF ParentsExist
  <2>3. ASSUME NEW k \in Objects, LoadingPage(k) PROVE Accounted(k)'
    BY <1>2, <1>4, <1>6, <2>3 DEF Accounted
  <2>4. ASSUME NEW m \in PageNodes', m \notin PageNodes,
               NEW k \in ToSet(doc.kids[nodes'[m].obj])
        PROVE  \E x \in ToSet(todo') : x.do = "page" /\ x.obj = k
    <3>1. type = "page" /\ nodes'[m].obj = t.obj
      BY <1>4, <1>6, <2>4
    <3>2. \E x \in ToSet(list) : x.do = "page" /\ x.obj = k
      BY <2>4, <3>1
    <3> QED BY <2>1, <3>2
  <2>5. KidsInLine'
    <3>1. /\ \A m : m \in PageNodes' <=> (m \in PageNodes
                                           \/ (type = "page" /\ m = Len(nodes) + 1))
          /\ \A m \in PageNodes : nodes'[m] = nodes[m]
          /\ nodes'[Len(nodes) + 1].obj = t.obj
      BY <1>4, <1>6
    <3>2. type = "page" => pc # "take" /\ t = task /\ t.do = "page"
      OBVIOUS
    <3> QED BY <1>1, <1>6, <3>1, <3>2, LineAdds
  <2> QED BY <1>1, <1>2, <1>4, <1>6, <2>1, <2>2, <2>3, <2>4, <2>5, BuiltLemma
<1>7. CASE /\ Len(nodes) < MaxNodes
           /\ nodes' = Append(nodes, [type |-> type, obj |-> t.obj])
           /\ link = "none" /\ Go(list) /\ UNCHANGED edges
  <2>1. edges' = edges /\ ParentsComeFirst'
    BY <1>1, <1>7 DEF ParentsComeFirst
  <2>2. \A i \in DOMAIN edges : edges[i].to <= Len(nodes) + 1
    BY <1>1 DEF ParentsExist
  <2>3. type # "page"
    BY <1>7
  <2> QED BY <1>1, <1>6, <1>7, <2>1, <2>2, <2>3
<1>8. CASE /\ Len(nodes) < MaxNodes
           /\ nodes' = Append(nodes, [type |-> type, obj |-> t.obj])
           /\ Len(edges) < MaxEdges
           /\ edges' = Append(edges, [from |-> t.parent, to |-> Added, type |-> link])
           /\ Go(list)
  <2>1. t.parent \in Nat
    BY DEF TaskSet
  <2>2. /\ edges' \in Seq(Edge) /\ Len(edges') <= MaxEdges
        /\ \A i \in DOMAIN edges' : edges'[i].to <= Len(nodes) + 1
        /\ ParentsComeFirst'
    BY <1>1, <1>8, <2>1, NewEdge
  <2>3. /\ Len(edges') = Len(edges) + 1
        /\ \A i \in 1 .. Len(edges) : edges'[i] = edges[i]
        /\ edges'[Len(edges) + 1].from = t.parent
        /\ edges'[Len(edges) + 1].to = Added
    <3> DEFINE x == [from |-> t.parent, to |-> Added, type |-> link]
    <3>1. x \in Edge /\ x.from = t.parent /\ x.to = Added /\ edges' = Append(edges, x)
      BY <1>1, <1>8, <2>1 DEF Edge, Added
    <3> HIDE DEF x
    <3>2. /\ Len(edges') = Len(edges) + 1
          /\ \A i \in 1 .. Len(edges) : edges'[i] = edges[i]
          /\ edges'[Len(edges) + 1] = x
      BY <1>1, <3>1, AppendProperties
    <3> QED BY <3>1, <3>2
  <2> QED BY <1>6, <1>8, <2>2, <2>3
<1>9. \/ Len(nodes) >= MaxNodes \/ Len(nodes) < MaxNodes
      \/ Len(edges) >= MaxEdges \/ Len(edges) < MaxEdges
  BY <1>1, StructureAssumption
<1>10. /\ ~(Len(nodes) >= MaxNodes) => Len(nodes) < MaxNodes
       /\ ~(Len(edges) >= MaxEdges) => Len(edges) < MaxEdges
  BY <1>1, StructureAssumption
<1> QED BY <1>3, <1>5, <1>7, <1>8, <1>10 DEF AddFor

(* A step that adds no node, as when the value has the wrong type.         *)
LEMMA GoOnLemma ==
  ASSUME SInv, Loading, stack = <<>>, UNCHANGED vars,
         NEW list \in Seq(TaskSet),
         \A x \in ToSet(list) : x.parent <= Len(nodes) /\ x.do # "page",
         task.do = "page" => Accounted(task.obj),
         Go(list), UNCHANGED <<task, visited, nodes, edges>>
  PROVE  SInv'
<1>1. /\ StructureTypes /\ ParentsExist /\ ParentsComeFirst /\ pc \notin {"take", "error"}
  BY DEF SInv, Loading
<1>2. /\ pc' = "take" /\ todo' \in Seq(TaskSet)
      /\ \A x \in ToSet(todo') : x \in ToSet(todo) \/ x \in ToSet(list)
      /\ \A x \in ToSet(todo) : x \in ToSet(todo')
  BY <1>1, GoLemma
<1>3. ParentsExist' /\ ParentsComeFirst' /\ PageNodes' = PageNodes
  BY <1>1, <1>2 DEF ParentsExist, ParentsComeFirst, PageNodes
<1>4. ASSUME NEW k \in Objects, LoadingPage(k) PROVE Accounted(k)'
  <2>1. Accounted(k)
    BY <1>4 DEF LoadingPage
  <2> QED BY <1>3, <2>1 DEF Accounted, vars
<1>5. KidsInLine'
  <2>1. PICK l \in Nat :
          /\ Len(Line) = l + 1 /\ Line' \in Seq(TaskSet) /\ Len(Line') = l + Len(list)
          /\ \A x \in 1..l : Line'[x] = Line[x]
          /\ \A x \in 1 .. Len(list) : Line'[l + x] = list[(Len(list) - x) + 1]
    BY <1>1, GoLine DEF Loading
  <2>2. /\ DOMAIN Line' = 1 .. l + Len(list) /\ DOMAIN Line = 1 .. l + 1
        /\ Len(list) \in Nat
    BY <1>1, <2>1, LineTypes, LenProperties
  <2>3. ASSUME NEW x \in DOMAIN Line', ~(x \in 1..l) PROVE Line'[x].do # "page"
    <3>1. /\ x - l \in 1 .. Len(list) /\ l + (x - l) = x
          /\ (Len(list) - (x - l)) + 1 \in 1 .. Len(list)
      BY <2>2, <2>3
    <3>2. Line'[x] = list[(Len(list) - (x - l)) + 1]
      BY <2>1, <3>1
    <3> QED BY <3>1, <3>2, ElementsInSet
  <2>4. \A x \in 1..l : x \in DOMAIN Line /\ Line'[x] = Line[x]
    BY <2>1, <2>2
  <2>5. KidsInLine /\ UNCHANGED <<nodes, edges, doc>>
    BY DEF SInv, vars
  <2> QED BY <2>3, <2>4, <2>5, LineKeeps
<1> QED BY <1>1, <1>2, <1>3, <1>4, <1>5, BuiltLemma DEF StructureTypes

(* A page that is not a dictionary is damaged or in a diagnostic.          *)
LEMMA WrongPage ==
  ASSUME SInv, pc = "loading", stack = <<>>, result.ok, ~IsDict
  PROVE  Accounted(task.obj)
<1>1. /\ result.of = task.obj /\ task.obj \in Objects /\ result.value # "plain"
      /\ WholesAreExact
  BY DEF SInv, IInv, LoadIsForTask, StructureTypes, TaskSet, IsDict
<1>2. CASE doc.kind[task.obj] = "plain"
  <2>1. doc.kind[task.obj] \in Wholes /\ Exact(doc.kind[task.obj]) = "plain"
    BY <1>2 DEF Wholes, Exact
  <2> QED BY <1>1, <2>1 DEF WholesAreExact, Accounted
<1>3. CASE doc.kind[task.obj] # "plain"
  <2>1. Exact(doc.kind[task.obj]) # "plain"
    BY <1>3 DEF Exact
  <2> QED BY <2>1 DEF Accounted
<1> QED BY <1>2, <1>3
-----------------------------------------------------------------------------
(* Lists of tasks                                                          *)

(* Tasks whose parents exist or are about to; pages are below a new node.  *)
Ready(list) ==
  /\ list \in Seq(TaskSet)
  /\ \A x \in ToSet(list) : x.parent <= Added /\ (x.do = "page" => x.parent = Added)

LEMMA ReadyLists ==
  ASSUME StructureTypes
  PROVE  /\ Ready(<<>>)
         /\ \A t \in TaskSet : t.parent = Added => Ready(<<t>>)
         /\ \A do \in Doings, list \in Lists, d \in Nat :
              Ready(Tasks(do, list, Added, d))
         /\ \A s, t : Ready(s) /\ Ready(t) => Ready(s \o t)
         /\ \A s : Ready(s) => Ready(Reverse(s))
         /\ Added \in Nat /\ Len(nodes) <= Added /\ 0 <= Added
<1>0. Added \in Nat /\ Len(nodes) <= Added /\ 0 <= Added
  <2>1. Len(nodes) \in Nat
    BY LenProperties DEF StructureTypes
  <2> QED BY <2>1 DEF Added
<1>1. Ready(<<>>)
  BY EmptySeq DEF Ready, ToSet
<1>2. ASSUME NEW t \in TaskSet, t.parent = Added PROVE Ready(<<t>>)
  <2> DEFINE s == <<t>>
  <2>1. s \in Seq(TaskSet) /\ Len(s) = 1 /\ s[1] = t
    OBVIOUS
  <2> HIDE DEF s
  <2>2. \A x \in ToSet(s) : x = t
    <3>1. \A i \in 1 .. Len(s) : i = 1
      BY <2>1
    <3> QED BY <2>1, <3>1, ElementsInSet
  <2>3. Ready(s)
    BY <1>0, <1>2, <2>1, <2>2 DEF Ready
  <2> QED BY <2>3 DEF s
<1>3. ASSUME NEW do \in Doings, NEW list \in Lists, NEW d \in Nat
      PROVE  Ready(Tasks(do, list, Added, d))
  BY <1>0, TasksElements DEF Ready
<1>4. ASSUME NEW s, NEW t, Ready(s), Ready(t) PROVE Ready(s \o t)
  BY <1>4, ConcatElements DEF Ready
<1>5. ASSUME NEW s, Ready(s) PROVE Ready(Reverse(s))
  BY <1>5, ReverseElements DEF Ready
<1> QED BY <1>1, <1>2, <1>3, <1>4, <1>5, <1>0

(* What a document refers to is objects.                                   *)
LEMMA ContentsTypes ==
  ASSUME TypesOK
  PROVE  /\ doc.root \in Objects
         /\ doc.open \in Lists /\ doc.names \in Lists /\ doc.xmp \in Lists
         /\ doc.form \in Lists /\ doc.fields \in Lists
         /\ doc.dss \in Lists /\ doc.pages \in Lists /\ doc.info \in Lists
         /\ \A o \in Objects : /\ doc.kids[o] \in Lists /\ doc.resources[o] \in Lists
                               /\ doc.actions[o] \in Lists /\ doc.annots[o] \in Lists
                               /\ doc.scripts[o] \in Lists /\ doc.media[o] \in Lists
<1>1. doc \in Documents
  BY DEF TypesOK
<1>2. /\ doc.root \in Objects
      /\ doc.open \in Lists /\ doc.names \in Lists /\ doc.xmp \in Lists
      /\ doc.form \in Lists /\ doc.fields \in Lists
      /\ doc.dss \in Lists /\ doc.pages \in Lists /\ doc.info \in Lists
      /\ doc.kids \in [Objects -> Lists] /\ doc.resources \in [Objects -> Lists]
      /\ doc.actions \in [Objects -> Lists] /\ doc.annots \in [Objects -> Lists]
      /\ doc.scripts \in [Objects -> Lists] /\ doc.media \in [Objects -> Lists]
  BY <1>1, ContentsAssumption
<1> QED BY <1>2

(* A record for a task is one.                                             *)
LEMMA TaskTypes ==
  ASSUME NEW do \in Doings, NEW o \in Objects, NEW p \in Nat, NEW d \in Nat
  PROVE  Task(do, o, p, d) \in TaskSet /\ Task(do, o, p, d).parent = p
BY DEF Task, TaskSet
-----------------------------------------------------------------------------
(* The steps                                                               *)

(* The loaded task gets its node, and its tasks, if no limit is reached.   *)
LEMMA AddLoaded ==
  ASSUME SInv, Loading, stack = <<>>, UNCHANGED vars,
         NEW type \in NodeTypes, NEW link \in Links, NEW list, Ready(list),
         type = "page" <=> task.do = "page",
         type = "page" => link = "child" /\ KidsComeNext(list, type, task.obj),
         type = "page" => \A k \in ToSet(doc.kids[task.obj]) :
                             \E x \in ToSet(list) : x.do = "page" /\ x.obj = k,
         Add(type, link, list)
  PROVE  SInv'
<1>1. pc \in {"loading", "resources"} /\ AddFor(task, type, link, list)
  BY DEF Loading, Add
<1>2. task \in TaskSet /\ task.parent <= Len(nodes)
  BY DEF SInv, StructureTypes, ParentsExist
<1>3. KidsComeNext(list, type, task.obj)
  <2>1. \A k \in 1 .. Len(list) : list[k] \in ToSet(list)
    BY ElementsInSet DEF Ready
  <2> QED BY <2>1 DEF KidsComeNext, Ready
<1> QED BY <1>1, <1>2, <1>3, AddLemma DEF Ready

(* It is left out.                                                         *)
LEMMA SkipLoaded ==
  ASSUME SInv, Loading, stack = <<>>, UNCHANGED vars, Skip,
         task.do = "page" => Accounted(task.obj)
  PROVE  SInv'
<1>1. <<>> \in Seq(TaskSet) /\ ToSet(<<>>) = {}
  BY EmptySeq DEF ToSet
<1> QED BY <1>1, GoOnLemma DEF Skip

(* What holds after a load that did not fail.                              *)
LEMMA LoadedTask ==
  ASSUME SInv, NEW what, Loaded(what)
  PROVE  /\ pc = "loading" /\ Loading /\ stack = <<>> /\ task.do = what /\ result.ok
         /\ StructureTypes /\ TypesOK /\ task.obj \in Objects /\ task.depth \in Nat
         /\ Added \in Nat /\ Added <= Added /\ 0 <= Added
<1>1. StructureTypes /\ TypesOK
  BY DEF SInv, IInv
<1>2. Added \in Nat /\ 0 <= Added
  BY <1>1, ReadyLists
<1> QED BY <1>1, <1>2 DEF Loaded, Loading, StructureTypes, TaskSet

LEMMA CatalogSInv ==
  ASSUME SInv, Catalog
  PROVE  SInv'
<1> DEFINE form == IF doc.form # <<>> THEN Tasks("formref", doc.form, Added, 0)
                   ELSE IF doc.fields = <<>> THEN <<>>
                   ELSE <<Task("form", doc.root, Added, 0)>>
           list == Tasks("open", doc.open, Added, 0)
                     \o Tasks("action", doc.actions[task.obj], Added, 0)
                     \o Tasks("names", doc.names, Added, 0)
                     \o Tasks("xmp", doc.xmp, Added, 0)
                     \o form
                     \o Tasks("probe", doc.dss, Added, 0)
                     \o Tasks("page", doc.pages, Added, 0)
<1>1. Loaded("catalog") /\ Add("catalog", "none", IF ~IsDict THEN <<>> ELSE list)
      /\ UNCHANGED vars
  BY DEF Catalog
<1>2. /\ Loading /\ stack = <<>> /\ task.do = "catalog"
      /\ StructureTypes /\ TypesOK /\ task.obj \in Objects
      /\ Added \in Nat /\ Added <= Added
  BY <1>1, LoadedTask
<1>3. Ready(Tasks("open", doc.open, Added, 0))
  BY <1>2, ReadyLists, ContentsTypes DEF Doings
<1>4. Ready(Tasks("action", doc.actions[task.obj], Added, 0))
  BY <1>2, ReadyLists, ContentsTypes DEF Doings
<1>5. Ready(Tasks("names", doc.names, Added, 0))
  BY <1>2, ReadyLists, ContentsTypes DEF Doings
<1>6. Ready(Tasks("xmp", doc.xmp, Added, 0))
  BY <1>2, ReadyLists, ContentsTypes DEF Doings
<1>7. Ready(form)
  <2>1. Ready(Tasks("formref", doc.form, Added, 0)) /\ Ready(<<>>)
    BY <1>2, ReadyLists, ContentsTypes DEF Doings
  <2>2. Ready(<<Task("form", doc.root, Added, 0)>>)
    <3>1. /\ Task("form", doc.root, Added, 0) \in TaskSet
          /\ Task("form", doc.root, Added, 0).parent = Added
      BY <1>2, ContentsTypes, TaskTypes DEF Doings
    <3> QED BY <1>2, <3>1, ReadyLists
  <2> QED BY <2>1, <2>2
<1>8. Ready(Tasks("probe", doc.dss, Added, 0))
  BY <1>2, ReadyLists, ContentsTypes DEF Doings
<1>9. Ready(Tasks("page", doc.pages, Added, 0))
  BY <1>2, ReadyLists, ContentsTypes DEF Doings
<1> HIDE DEF form
<1>10. Ready(list)
  <2>1. \A s, t : Ready(s) /\ Ready(t) => Ready(s \o t)
    BY <1>2, ReadyLists
  <2> HIDE DEF Ready
  <2> QED BY <1>3, <1>4, <1>5, <1>6, <1>7, <1>8, <1>9, <2>1
<1> HIDE DEF list
<1>11. Ready(IF ~IsDict THEN <<>> ELSE list)
  BY <1>2, <1>10, ReadyLists
<1> QED BY <1>1, <1>2, <1>11, AddLoaded DEF NodeTypes, Links

LEMMA WhateverSInv ==
  ASSUME SInv, Whatever
  PROVE  SInv'
<1>1. UNCHANGED vars /\ StructureTypes
  BY DEF Whatever, SInv
<1>2. Ready(<<>>)
  BY <1>1, ReadyLists
<1>3. CASE Loaded("open") /\ Add("action", "reference", <<>>)
  BY <1>1, <1>2, <1>3, LoadedTask, AddLoaded DEF NodeTypes, Links
<1>4. CASE Loaded("script") /\ Add("script", "child", <<>>)
  BY <1>1, <1>2, <1>4, LoadedTask, AddLoaded DEF NodeTypes, Links
<1>5. CASE Loaded("loose") /\ Add("loose", "none", <<>>)
  BY <1>1, <1>2, <1>5, LoadedTask, AddLoaded DEF NodeTypes, Links
<1>6. CASE Loaded("probe") /\ Skip
  BY <1>1, <1>6, LoadedTask, SkipLoaded
<1> QED BY <1>3, <1>4, <1>5, <1>6 DEF Whatever

LEMMA NamesDictionarySInv ==
  ASSUME SInv, NamesDictionary
  PROVE  SInv'
<1>1. UNCHANGED vars /\ Loaded("names")
  BY DEF NamesDictionary
<1>2. /\ Loading /\ stack = <<>> /\ task.do = "names"
      /\ StructureTypes /\ TypesOK /\ task.obj \in Objects
  BY <1>1, LoadedTask
<1>3. CASE Skip
  BY <1>1, <1>2, <1>3, SkipLoaded
<1>4. CASE /\ Go(Tasks("loose", doc.kids[task.obj], 0, 0))
           /\ UNCHANGED <<task, visited, nodes, edges>>
  <2>1. doc.kids[task.obj] \in Lists /\ 0 \in Nat /\ 0 <= Len(nodes)
    <3>1. Len(nodes) \in Nat
      BY <1>2, LenProperties DEF StructureTypes
    <3> QED BY <1>2, <3>1, ContentsTypes
  <2>2. PICK list : list = Tasks("loose", doc.kids[task.obj], 0, 0)
    OBVIOUS
  <2>3. "loose" \in Doings
    BY DEF Doings
  <2>4. list \in Seq(TaskSet) /\ \A x \in ToSet(list) : x.parent = 0 /\ x.do = "loose"
    <3>1. PICK p \in Nat : p = 0
      OBVIOUS
    <3>2. /\ Tasks("loose", doc.kids[task.obj], p, p) \in Seq(TaskSet)
          /\ \A x \in ToSet(Tasks("loose", doc.kids[task.obj], p, p)) :
               x.parent = p /\ x.do = "loose"
      BY <2>1, <2>3, TasksElements
    <3> QED BY <2>2, <3>1, <3>2
  <2>5. \A x \in ToSet(list) : x.parent <= Len(nodes) /\ x.do # "page"
    BY <2>1, <2>4
  <2> QED BY <1>1, <1>2, <1>4, <2>2, <2>4, <2>5, GoOnLemma
<1> QED BY <1>3, <1>4 DEF NamesDictionary

LEMMA XmpStreamSInv ==
  ASSUME SInv, XmpStream
  PROVE  SInv'
<1>1. UNCHANGED vars /\ Loaded("xmp")
  BY DEF XmpStream
<1>2. /\ Loading /\ stack = <<>> /\ task.do = "xmp" /\ Added \in Nat /\ Added <= Added
      /\ StructureTypes /\ TypesOK /\ task.obj \in Objects
  BY <1>1, LoadedTask
<1>3. CASE Skip
  BY <1>1, <1>2, <1>3, SkipLoaded
<1>4. Ready(<<>>)
  BY <1>2, ReadyLists
<1>5. Ready(<<Task("packet", task.obj, Added, 0)>>)
  <2>1. /\ Task("packet", task.obj, Added, 0) \in TaskSet
        /\ Task("packet", task.obj, Added, 0).parent = Added
    BY <1>2, TaskTypes DEF Doings
  <2> QED BY <1>2, <2>1, ReadyLists
<1>6. ASSUME NEW list, Ready(list), Add("xmp", "child", list) PROVE SInv'
  BY <1>1, <1>2, <1>6, AddLoaded DEF NodeTypes, Links
<1> QED BY <1>1, <1>3, <1>4, <1>5, <1>6 DEF XmpStream

LEMMA FormSInv ==
  ASSUME SInv, Form
  PROVE  SInv'
<1> DEFINE list == Tasks("field", doc.kids[task.obj], Added, 1)
                     \o Tasks("action", doc.actions[task.obj], Added, 0)
<1>1. UNCHANGED vars /\ Loaded("formref") /\ (Skip \/ Add("form", "child", list))
  BY DEF Form
<1>2. /\ Loading /\ stack = <<>> /\ task.do = "formref" /\ Added \in Nat /\ Added <= Added
      /\ StructureTypes /\ TypesOK /\ task.obj \in Objects
  BY <1>1, LoadedTask
<1>3. Ready(Tasks("field", doc.kids[task.obj], Added, 1))
  BY <1>2, ReadyLists, ContentsTypes DEF Doings
<1>4. Ready(Tasks("action", doc.actions[task.obj], Added, 0))
  BY <1>2, ReadyLists, ContentsTypes DEF Doings
<1>5. Ready(list)
  BY <1>2, <1>3, <1>4, ReadyLists
<1> HIDE DEF list
<1>6. CASE Skip
  BY <1>1, <1>2, <1>6, SkipLoaded
<1>7. CASE Add("form", "child", list)
  BY <1>1, <1>2, <1>5, <1>7, AddLoaded DEF NodeTypes, Links
<1> QED BY <1>1, <1>6, <1>7

LEMMA FieldSInv ==
  ASSUME SInv, Field
  PROVE  SInv'
<1> DEFINE kids == IF task.depth + 2 > MaxFieldDepth THEN <<>>
                   ELSE Tasks("field", doc.kids[task.obj], Added, task.depth + 3)
           list == kids \o Tasks("action", doc.actions[task.obj], Added, 0)
<1>1. UNCHANGED vars /\ Loaded("field") /\ (Skip \/ Add("field", "child", list))
  BY DEF Field
<1>2. /\ Loading /\ stack = <<>> /\ task.do = "field" /\ Added \in Nat /\ Added <= Added
      /\ StructureTypes /\ TypesOK /\ task.obj \in Objects /\ task.depth + 3 \in Nat
  <2>1. task.depth \in Nat
    BY <1>1, LoadedTask
  <2> QED BY <1>1, <2>1, LoadedTask
<1>3. Ready(kids)
  <2>1. Ready(Tasks("field", doc.kids[task.obj], Added, task.depth + 3))
    BY <1>2, ReadyLists, ContentsTypes DEF Doings
  <2> QED BY <1>2, <2>1, ReadyLists
<1>4. Ready(Tasks("action", doc.actions[task.obj], Added, 0))
  BY <1>2, ReadyLists, ContentsTypes DEF Doings
<1> HIDE DEF kids
<1>5. Ready(list)
  BY <1>2, <1>3, <1>4, ReadyLists
<1> HIDE DEF list
<1>6. CASE Skip
  BY <1>1, <1>2, <1>6, SkipLoaded
<1>7. CASE Add("field", "child", list)
  BY <1>1, <1>2, <1>5, <1>7, AddLoaded DEF NodeTypes, Links
<1> QED BY <1>1, <1>6, <1>7

LEMMA AnnotationSInv ==
  ASSUME SInv, Annotation
  PROVE  SInv'
<1> DEFINE list == Tasks("action", doc.actions[task.obj], Added, 0)
                     \o Tasks("probe", doc.media[task.obj], Added, 0)
<1>1. UNCHANGED vars /\ Loaded("annot") /\ (Skip \/ Add("annotation", "child", list))
  BY DEF Annotation
<1>2. /\ Loading /\ stack = <<>> /\ task.do = "annot" /\ Added \in Nat /\ Added <= Added
      /\ StructureTypes /\ TypesOK /\ task.obj \in Objects
  BY <1>1, LoadedTask
<1>3. Ready(Tasks("action", doc.actions[task.obj], Added, 0))
  BY <1>2, ReadyLists, ContentsTypes DEF Doings
<1>4. Ready(Tasks("probe", doc.media[task.obj], Added, 0))
  BY <1>2, ReadyLists, ContentsTypes DEF Doings
<1>5. Ready(list)
  BY <1>2, <1>3, <1>4, ReadyLists
<1> HIDE DEF list
<1>6. CASE Skip
  BY <1>1, <1>2, <1>6, SkipLoaded
<1>7. CASE Add("annotation", "child", list)
  BY <1>1, <1>2, <1>5, <1>7, AddLoaded DEF NodeTypes, Links
<1> QED BY <1>1, <1>6, <1>7

LEMMA ActionSInv ==
  ASSUME SInv, Action
  PROVE  SInv'
<1> DEFINE list == Tasks("script", doc.scripts[task.obj], Added, 0)
                     \o Tasks("action", doc.actions[task.obj], Added, 0)
<1>1. UNCHANGED vars /\ Loaded("action") /\ (Skip \/ Add("action", "child", list))
  BY DEF Action
<1>2. /\ Loading /\ stack = <<>> /\ task.do = "action" /\ Added \in Nat /\ Added <= Added
      /\ StructureTypes /\ TypesOK /\ task.obj \in Objects
  BY <1>1, LoadedTask
<1>3. Ready(Tasks("script", doc.scripts[task.obj], Added, 0))
  BY <1>2, ReadyLists, ContentsTypes DEF Doings
<1>4. Ready(Tasks("action", doc.actions[task.obj], Added, 0))
  BY <1>2, ReadyLists, ContentsTypes DEF Doings
<1>5. Ready(list)
  BY <1>2, <1>3, <1>4, ReadyLists
<1> HIDE DEF list
<1>6. CASE Skip
  BY <1>1, <1>2, <1>6, SkipLoaded
<1>7. CASE Add("action", "child", list)
  BY <1>1, <1>2, <1>5, <1>7, AddLoaded DEF NodeTypes, Links
<1> QED BY <1>1, <1>6, <1>7

(* The node of a page, its kids waiting                                    *)
LEMMA AddPageSInv ==
  ASSUME SInv, AddPage
  PROVE  SInv'
<1> DEFINE first == IF task.obj \notin doc.leaves THEN <<>>
                    ELSE Tasks("action", doc.actions[task.obj], Added, 0)
                           \o Tasks("annot", doc.annots[task.obj], Added, 0)
           kids == Tasks("page", doc.kids[task.obj], Added, 0)
           list == first \o Reverse(kids)
<1>1. /\ UNCHANGED vars /\ Add("page", "child", list)
      /\ Loading /\ stack = <<>> /\ pc = "resources"
  BY DEF AddPage, KidsPushed, KidsInOrder, Loading
<1>2. /\ StructureTypes /\ TypesOK /\ task.obj \in Objects /\ task.do = "page"
      /\ Added \in Nat /\ Added <= Added
  <2>1. StructureTypes /\ TypesOK /\ task.obj \in Objects /\ task.do = "page"
    BY <1>1 DEF SInv, IInv, LoadIsForTask, StructureTypes, TaskSet
  <2>2. Added \in Nat
    BY <2>1, ReadyLists
  <2> QED BY <2>1, <2>2
<1>3. Ready(first) /\ \A x \in ToSet(first) : x.do # "page"
  <2> DEFINE actions == Tasks("action", doc.actions[task.obj], Added, 0)
             annots  == Tasks("annot", doc.annots[task.obj], Added, 0)
  <2>1. Ready(actions) /\ Ready(annots) /\ Ready(<<>>)
    BY <1>2, ReadyLists, ContentsTypes DEF Doings
  <2>2. \A x \in ToSet(actions) \cup ToSet(annots) : x.do # "page"
    <3>1. PICK zero \in Nat : zero = 0
      OBVIOUS
    <3>2. /\ \A x \in ToSet(Tasks("action", doc.actions[task.obj], Added, zero)) :
               x.do = "action"
          /\ \A x \in ToSet(Tasks("annot", doc.annots[task.obj], Added, zero)) :
               x.do = "annot"
      <4>1. /\ doc.actions[task.obj] \in Lists /\ doc.annots[task.obj] \in Lists
            /\ "action" \in Doings /\ "annot" \in Doings
        BY <1>2, ContentsTypes DEF Doings
      <4>2. PICK p \in Nat : p = Added
        BY <1>2
      <4>3. \A x \in ToSet(Tasks("action", doc.actions[task.obj], p, zero)) : x.do = "action"
        BY <4>1, TasksElements
      <4>4. \A x \in ToSet(Tasks("annot", doc.annots[task.obj], p, zero)) : x.do = "annot"
        BY <4>1, TasksElements
      <4> QED BY <4>2, <4>3, <4>4
    <3> QED BY <3>1, <3>2
  <2> HIDE DEF actions, annots
  <2>3. Ready(actions \o annots) /\ \A x \in ToSet(actions \o annots) : x.do # "page"
    BY <1>2, <2>1, <2>2, ReadyLists, ConcatElements DEF Ready
  <2>4. first = IF task.obj \notin doc.leaves THEN <<>> ELSE actions \o annots
    BY DEF actions, annots
  <2>5. ToSet(<<>>) = {}
    BY DEF ToSet
  <2> QED BY <2>1, <2>3, <2>4, <2>5
<1>4. /\ Ready(kids)
      /\ \A k \in ToSet(doc.kids[task.obj]) :
           \E x \in ToSet(kids) : x.do = "page" /\ x.obj = k
  <2>1. doc.kids[task.obj] \in Lists /\ "page" \in Doings
    BY <1>2, ContentsTypes DEF Doings
  <2>2. Ready(kids)
    BY <1>2, <2>1, ReadyLists
  <2>3. PICK zero \in Nat : zero = 0
    OBVIOUS
  <2>4. \A k \in ToSet(doc.kids[task.obj]) :
          Task("page", k, Added, zero) \in ToSet(Tasks("page", doc.kids[task.obj], Added, zero))
    BY <1>2, <2>1, TasksElements
  <2> QED BY <2>2, <2>3, <2>4 DEF Task
<1>8. /\ doc.kids[task.obj] \in Lists /\ Len(doc.kids[task.obj]) \in Nat
      /\ DOMAIN doc.kids[task.obj] = 1 .. Len(doc.kids[task.obj])
      /\ kids = [x \in 1 .. Len(doc.kids[task.obj]) |->
                  Task("page", doc.kids[task.obj][x], Added, 0)]
  <2>1. doc.kids[task.obj] \in Seq(Objects)
    BY <1>2, ContentsTypes DEF Lists
  <2> QED BY <2>1, LenProperties DEF Lists, Tasks
<1> HIDE DEF first, kids
<1>5. Ready(Reverse(kids)) /\ ToSet(Reverse(kids)) = ToSet(kids)
  BY <1>2, <1>4, ReadyLists, ReverseElements DEF Ready
<1>6. Ready(list) /\ ToSet(list) = ToSet(first) \cup ToSet(kids)
  BY <1>2, <1>3, <1>5, ReadyLists, ConcatElements DEF Ready
<1>9. KidsComeNext(list, "page", task.obj)
  <2> DEFINE K == doc.kids[task.obj]
             n == Len(K)
             m == Len(first)
             r == Reverse(kids)
  <2>1. /\ kids \in Seq(TaskSet) /\ first \in Seq(TaskSet) /\ r \in Seq(TaskSet)
        /\ n \in Nat /\ m \in Nat /\ Len(kids) = n
        /\ \A x \in 1..n : kids[x].parent = Added /\ kids[x].obj = K[x]
    <3>1. kids \in Seq(TaskSet) /\ first \in Seq(TaskSet) /\ r \in Seq(TaskSet)
      BY <1>3, <1>4, <1>5 DEF Ready
    <3>2. n \in Nat /\ m \in Nat /\ DOMAIN kids = 1 .. Len(kids) /\ Len(kids) \in Nat
      BY <1>8, <3>1, LenProperties
    <3>3. DOMAIN kids = 1..n
      BY <1>8
    <3>4. Len(kids) = n
      BY <3>2, <3>3
    <3> QED BY <1>8, <3>1, <3>2, <3>4 DEF Task
  <2>2. Len(r) = n /\ \A x \in 1..n : r[x] = kids[(n - x) + 1]
    <3>1. r = [x \in 1..n |-> kids[(n - x) + 1]]
      BY <2>1 DEF Reverse
    <3>2. DOMAIN r = 1 .. Len(r) /\ Len(r) \in Nat
      BY <2>1, LenProperties
    <3>3. DOMAIN r = 1..n
      BY <3>1
    <3>4. Len(r) = n
      BY <2>1, <3>2, <3>3
    <3> QED BY <3>1, <3>4
  <2> HIDE DEF r, n, m
  <2>3. /\ Len(list) = m + n
        /\ \A x \in 1 .. m + n : list[x] = IF x <= m THEN first[x] ELSE r[x - m]
    <3>1. list = first \o r
      BY DEF r
    <3>2. /\ Len(first \o r) = Len(first) + Len(r)
          /\ \A x \in 1 .. Len(first) + Len(r) :
               (first \o r)[x] = IF x <= Len(first) THEN first[x] ELSE r[x - Len(first)]
      BY <2>1, ConcatProperties
    <3> QED BY <2>2, <3>1, <3>2 DEF m
  <2> SUFFICES ASSUME NEW k \in 1 .. m + n, list[k].do = "page"
               PROVE  /\ list[k].parent = Added
                      /\ ((m + n) - k) + 1 \in DOMAIN K
                      /\ list[k].obj = K[((m + n) - k) + 1]
    BY <2>3 DEF KidsComeNext
  <2>4. CASE k <= m
    <3>1. k \in 1 .. Len(first) /\ list[k] = first[k]
      BY <2>1, <2>3, <2>4 DEF m
    <3> QED BY <1>3, <2>1, <3>1, ElementsInSet
  <2>5. CASE ~(k <= m)
    <3>1. /\ k - m \in 1..n /\ (n - (k - m)) + 1 = ((m + n) - k) + 1
          /\ ((m + n) - k) + 1 \in 1..n
      BY <2>1, <2>5
    <3>2. list[k] = kids[((m + n) - k) + 1]
      BY <2>2, <2>3, <2>5, <3>1
    <3> QED BY <1>8, <2>1, <3>1, <3>2 DEF n
  <2> QED BY <2>4, <2>5
<1> HIDE DEF list
<1>7. \A k \in ToSet(doc.kids[task.obj]) :
        \E x \in ToSet(list) : x.do = "page" /\ x.obj = k
  BY <1>4, <1>6
<1> QED BY <1>1, <1>2, <1>6, <1>7, <1>9, AddLoaded DEF NodeTypes, Links

(* A task that loads nothing                                               *)
LEMMA TakeDirectSInv ==
  ASSUME SInv, TakeDirect
  PROVE  SInv'
<1> DEFINE t == Last(todo)
<1>1. /\ UNCHANGED vars /\ pc = "take" /\ todo # <<>> /\ StructureTypes /\ TypesOK
      /\ stack = <<>> /\ ParentsExist
  BY DEF TakeDirect, SInv, IInv, LoadIsForTask, Loading
<1>2. t \in TaskSet /\ t.parent <= Len(nodes) /\ t.obj \in Objects
  <2>1. todo \in Seq(TaskSet)
    BY <1>1 DEF StructureTypes
  <2>2. t \in TaskSet /\ t \in ToSet(todo)
    BY <1>1, <2>1, FrontElements
  <2> QED BY <1>1, <2>2 DEF ParentsExist, TaskSet
<1>3. Added \in Nat /\ Added <= Added /\ Ready(<<>>)
  <2>1. Added \in Nat /\ Ready(<<>>)
    BY <1>1, ReadyLists
  <2> QED BY <2>1
<1> HIDE DEF t
<1>4. ASSUME NEW type \in NodeTypes, type # "page", NEW list, Ready(list),
             t.do # "page", AddFor(t, type, "child", list)
      PROVE  SInv'
  <2>1. KidsComeNext(list, type, t.obj)
    <3>1. \A k \in 1 .. Len(list) : list[k] \in ToSet(list)
      BY <1>4, ElementsInSet DEF Ready
    <3> QED BY <1>4, <3>1 DEF KidsComeNext, Ready
  <2> QED BY <1>1, <1>2, <1>4, <2>1, AddLemma DEF Links, Ready, t
<1>5. CASE /\ t.do = "form"
           /\ AddFor(t, "form", "child", Tasks("field", doc.fields, Added, 1))
  <2>1. Ready(Tasks("field", doc.fields, Added, 1))
    BY <1>1, <1>3, ReadyLists, ContentsTypes DEF Doings
  <2> QED BY <1>4, <1>5, <2>1 DEF NodeTypes
<1>6. ASSUME t.do = "packet", NEW n \in 0..MaxEntries,
             AddFor(t, "packet", "child", [i \in 1..n |-> Task("entry", t.obj, Added, 0)])
      PROVE  SInv'
  <2> DEFINE x == Task("entry", t.obj, Added, 0)
             list == [i \in 1..n |-> x]
  <2>1. x \in TaskSet /\ x.parent = Added /\ n \in Nat
    <3>1. "entry" \in Doings /\ t.obj \in Objects /\ 0 \in Nat
      BY <1>2 DEF Doings, TaskSet
    <3>2. x \in TaskSet /\ x.parent = Added
      BY <1>3, <3>1, TaskTypes
    <3>3. n \in Nat
      BY <1>6, StructureAssumption
    <3> QED BY <3>2, <3>3
  <2> HIDE DEF x
  <2>2. list \in [1..n -> TaskSet] /\ \A i \in 1..n : list[i] = x
    BY <2>1
  <2>3. list \in Seq(TaskSet) /\ Len(list) = n
    BY <2>1, <2>2, SeqDef
  <2>4. list = [i \in 1..n |-> Task("entry", t.obj, Added, 0)]
    BY DEF x
  <2> HIDE DEF list
  <2>5. Ready(list)
    <3>1. ASSUME NEW y \in ToSet(list) PROVE y.parent <= Added
      <4>1. PICK i \in 1..n : y = list[i]
        BY <2>3, ElementsInSet
      <4> QED BY <1>3, <2>1, <2>2, <4>1
    <3>2. \A y \in ToSet(list) : y.parent = Added
      BY <2>1, <2>2, <2>3, ElementsInSet
    <3> QED BY <2>3, <3>1, <3>2 DEF Ready
  <2> QED BY <1>4, <1>6, <2>4, <2>5 DEF NodeTypes
<1>7. CASE t.do = "entry" /\ AddFor(t, "entry", "child", <<>>)
  BY <1>3, <1>4, <1>7 DEF NodeTypes
<1> QED BY <1>5, <1>6, <1>7 DEF TakeDirect, t

(* The parse fails or is done.                                             *)
LEMMA LoadFailedSInv ==
  ASSUME SInv, LoadFailed
  PROVE  SInv'
<1>1. /\ UNCHANGED <<vars, task, visited, nodes, edges>> /\ Loading /\ stack = <<>>
      /\ pc' = "error" /\ todo' = <<>> /\ ~result.ok /\ pc # "error"
  BY DEF LoadFailed, Abort, Loading
<1>2. todo' \in Seq(TaskSet) /\ ToSet(todo') = {}
  BY <1>1, EmptySeq DEF ToSet
<1>3. /\ ParentsExist' /\ ParentsComeFirst' /\ PageNodes' = PageNodes
      /\ StructureTypes
  BY <1>1, <1>2 DEF SInv, ParentsExist, ParentsComeFirst, PageNodes
<1>4. tolerant => LoaderLimit
  BY <1>1 DEF SInv, FailsAtLimits
<1>5. KidsInLine'
  <2>1. KidsInLine /\ ParentsExist /\ ParentsComeFirst /\ UNCHANGED <<edges, doc>>
    BY <1>1 DEF SInv, vars
  <2> QED BY <1>1, <1>3, <2>1, LineAborts
<1> QED BY <1>1, <1>2, <1>3, <1>4, <1>5, BuiltLemma DEF StructureTypes

LEMMA FinishSInv ==
  ASSUME SInv, Finish
  PROVE  SInv'
<1>1. /\ UNCHANGED <<vars, todo, task, visited, nodes, edges>>
      /\ pc = "take" /\ pc' = "done" /\ todo' = <<>>
      /\ \A k : ~LoadingPage(k)
  BY DEF Finish, LoadingPage, Loading
<1>2. /\ StructureTypes /\ stack = <<>>
      /\ ParentsExist' /\ ParentsComeFirst' /\ PageNodes' = PageNodes
  BY <1>1 DEF SInv, LoadIsForTask, Loading, ParentsExist, ParentsComeFirst, PageNodes
<1>3. KidsInLine'
  BY <1>1 DEF SInv, KidsInLine, Line, Loading, vars
<1> QED BY <1>1, <1>2, <1>3, BuiltLemma DEF StructureTypes

(* A page that was visited is left out, and accounted for; another task    *)
(* begins to load its object.                                              *)
LEMMA TakeSInv ==
  ASSUME SInv, Take
  PROVE  SInv'
<1> DEFINE t == Last(todo)
<1>1. /\ pc = "take" /\ todo # <<>> /\ todo' = Front(todo) /\ UNCHANGED <<nodes, edges>>
      /\ \/ Refused(t) /\ UNCHANGED <<vars, pc, task, visited>>
         \/ /\ ~Refused(t) /\ Call(t.obj) /\ pc' = "loading" /\ task' = t
            /\ visited' = IF t.do = "page" THEN visited \cup {t.obj} ELSE visited
  BY DEF Take
<1>2. /\ StructureTypes /\ TypesOK /\ IInv /\ stack = <<>>
      /\ ParentsExist /\ ParentsComeFirst /\ OneNodePerPage /\ PagesAreVisited
      /\ KidsArePending
      /\ \A k : ~LoadingPage(k)
  BY <1>1 DEF SInv, IInv, LoadIsForTask, Loading, LoadingPage
<1>3. /\ todo \in Seq(TaskSet) /\ todo' \in Seq(TaskSet) /\ t \in TaskSet
      /\ ToSet(todo) = ToSet(todo') \cup {t} /\ t.parent <= Len(nodes)
      /\ t.obj \in Objects
  <2>1. todo \in Seq(TaskSet)
    BY <1>2 DEF StructureTypes
  <2>2. /\ todo' \in Seq(TaskSet) /\ t \in TaskSet
        /\ ToSet(todo) = ToSet(todo') \cup {t}
    BY <1>1, <2>1, FrontElements
  <2> QED BY <1>2, <2>1, <2>2 DEF ParentsExist, TaskSet
<1> HIDE DEF t
<1>4. /\ PageNodes' = PageNodes /\ ParentsComeFirst' /\ OneNodePerPage'
  BY <1>1, <1>2 DEF ParentsComeFirst, PageNodes, OneNodePerPage
<1>10. /\ Line = todo /\ Len(todo') \in Nat /\ Len(todo) = Len(todo') + 1
       /\ DOMAIN todo = 1 .. Len(todo) /\ DOMAIN todo' = 1 .. Len(todo')
       /\ \A x \in 1 .. Len(todo') : todo'[x] = todo[x]
       /\ t = todo[Len(todo') + 1]
  BY <1>1, <1>3, FrontElements, LenProperties DEF Line, Loading, t
<1>5. CASE Refused(t) /\ UNCHANGED <<vars, pc, task, visited>>
  <2>1. t.do = "page" => Accounted(t.obj)
    BY <1>1, <1>2, <1>5 DEF Refused, Visited, KidsArePending
  <2>2. ParentsExist' /\ StructureTypes'
    BY <1>1, <1>2, <1>3, <1>5 DEF ParentsExist, StructureTypes
  <2>3. \A k \in Objects : LoadingPage(k) => Accounted(k)'
    BY <1>2
  <2>4. \A k : Accounted(k) => Accounted(k)'
    BY <1>1, <1>4, <1>5 DEF Accounted, vars
  <2>5. IInv' /\ KidsArePending'
    <3>1. /\ \A k \in visited' : Accounted(k)'
          /\ \A n \in PageNodes : \A k \in ToSet(doc.kids[nodes[n].obj]) :
               Accounted(k)' \/ \E x \in ToSet(todo') : x.do = "page" /\ x.obj = k
      BY <1>1, <1>2, <1>3, <1>5, <2>1, <2>4 DEF KidsArePending
    <3> QED BY <1>1, <1>2, <1>4, <1>5, <3>1, StutterIInv DEF KidsArePending, vars
  <2>6. /\ LoadIsForTask' /\ FailsAtLimits' /\ PagesAreVisited'
        /\ TolerantFailsAtLimits'
    BY <1>1, <1>2, <1>4, <1>5
       DEF LoadIsForTask, FailsAtLimits, PagesAreVisited, TolerantFailsAtLimits,
           Loading, LoadingPage, vars
  <2>7. KidsInLine'
    <3>1. Line' = todo'
      BY <1>1, <1>5 DEF Line, Loading
    <3>2. \A x \in DOMAIN Line' : x \in DOMAIN Line /\ Line'[x] = Line[x]
      BY <1>10, <3>1
    <3>3. KidsInLine /\ UNCHANGED <<nodes, edges, doc>>
      BY <1>1, <1>5 DEF SInv, vars
    <3> QED BY <3>2, <3>3, LineKeeps
  <2> QED BY <1>1, <1>4, <1>5, <2>2, <2>5, <2>6, <2>7 DEF SInv
<1>6. CASE /\ ~Refused(t) /\ Call(t.obj) /\ pc' = "loading" /\ task' = t
           /\ visited' = IF t.do = "page" THEN visited \cup {t.obj} ELSE visited
  <2>1. IInv'
    BY <1>2, <1>3, <1>6, CallIInv
  <2>2. /\ UNCHANGED <<tolerant, doc, blamed, stopped, used, diagnostics, result>>
        /\ stack' = <<Frame(t.obj)>>
    BY <1>6 DEF Call
  <2>3. stack' # <<>> /\ stack'[1].obj = t.obj /\ Top'.at = "start"
    BY <2>2 DEF Top, Last, Frame
  <2>4. ParentsExist' /\ StructureTypes'
    BY <1>1, <1>2, <1>3, <1>6 DEF ParentsExist, StructureTypes
  <2>5. LoadIsForTask' /\ FailsAtLimits' /\ TolerantFailsAtLimits'
    BY <1>6, <2>3
       DEF LoadIsForTask, FailsAtLimits, TolerantFailsAtLimits, Loading, WaitingPlaces
  <2>6. \A k : LoadingPage(k)' <=> t.do = "page" /\ k = t.obj
    BY <1>6 DEF LoadingPage, Loading
  <2>7. PagesAreVisited'
    <3>1. t.do = "page" => t.obj \notin visited
      BY <1>6 DEF Refused, Visited
    <3>2. \A n \in PageNodes : nodes[n].obj \in visited
      BY <1>2 DEF PagesAreVisited
    <3>3. \A n \in PageNodes' : nodes'[n].obj \in visited'
      BY <1>1, <1>4, <1>6, <3>2
    <3>4. ASSUME NEW k \in Objects, LoadingPage(k)'
          PROVE  k \in visited' /\ \A n \in PageNodes' : nodes'[n].obj # k
      BY <1>1, <1>4, <1>6, <2>6, <3>1, <3>2, <3>4
    <3> QED BY <3>3, <3>4 DEF PagesAreVisited
  <2>8. \A k : Accounted(k) => Accounted(k)'
    BY <1>1, <1>4, <2>2 DEF Accounted
  <2>9. KidsArePending'
    <3>1. /\ \A k \in visited : Accounted(k)
          /\ \A n \in PageNodes : \A k \in ToSet(doc.kids[nodes[n].obj]) :
               Accounted(k) \/ \E x \in ToSet(todo) : x.do = "page" /\ x.obj = k
      BY <1>1, <1>2 DEF KidsArePending
    <3>2. \A k \in visited' : Accounted(k)' \/ LoadingPage(k)'
      BY <1>6, <2>6, <2>8, <3>1
    <3>3. \A n \in PageNodes : \A k \in ToSet(doc.kids[nodes[n].obj]) :
            \/ Accounted(k)'
            \/ LoadingPage(k)'
            \/ \E x \in ToSet(todo') : x.do = "page" /\ x.obj = k
      BY <1>3, <2>6, <2>8, <3>1
    <3> QED BY <1>1, <1>4, <2>2, <3>2, <3>3 DEF KidsArePending
  <2>10. KidsInLine'
    <3>1. Line' = Append(todo', t)
      BY <1>6 DEF Line, Loading
    <3>2. /\ Append(todo', t) \in Seq(TaskSet) /\ Len(Append(todo', t)) = Len(todo') + 1
          /\ \A x \in 1 .. Len(todo') : Append(todo', t)[x] = todo'[x]
          /\ Append(todo', t)[Len(todo') + 1] = t
      BY <1>3, AppendProperties
    <3>3. DOMAIN Append(todo', t) = 1 .. Len(todo') + 1
      BY <3>2, LenProperties
    <3>4. \A x \in 1 .. Len(todo') + 1 : x \in 1 .. Len(todo') \/ x = Len(todo') + 1
      BY <1>10
    <3>5. \A x \in DOMAIN Line' : x \in DOMAIN Line /\ Line'[x] = Line[x]
      BY <1>10, <3>1, <3>2, <3>3, <3>4
    <3>6. KidsInLine /\ UNCHANGED <<nodes, edges, doc>>
      BY <1>1, <2>2 DEF SInv
    <3> QED BY <3>5, <3>6, LineKeeps
  <2> QED BY <1>4, <1>6, <2>1, <2>4, <2>5, <2>7, <2>9, <2>10 DEF SInv
<1> QED BY <1>1, <1>5, <1>6

(* A page that is a dictionary goes on to its Resources.                   *)
LEMMA PageSInv ==
  ASSUME SInv, Page
  PROVE  SInv'
<1>1. /\ Loading /\ stack = <<>> /\ task.do = "page" /\ pc = "loading"
      /\ StructureTypes /\ TypesOK /\ task.obj \in Objects /\ result.ok
  BY LoadedTask DEF Page
<1>2. CASE ~IsDict /\ Skip /\ UNCHANGED vars
  BY <1>1, <1>2, WrongPage, SkipLoaded
<1>3. ASSUME pc' = "resources", UNCHANGED <<todo, task, visited, nodes, edges>>,
             IInv', UNCHANGED <<doc, blamed>>, FailsAtLimits'
      PROVE  SInv'
  <2>1. /\ PageNodes' = PageNodes /\ StructureTypes' /\ ParentsExist'
        /\ ParentsComeFirst' /\ OneNodePerPage' /\ LoadIsForTask'
    BY <1>1, <1>3 DEF SInv, PageNodes, StructureTypes, ParentsExist, ParentsComeFirst,
                      OneNodePerPage, LoadIsForTask, Loading
  <2>2. \A k : LoadingPage(k)' <=> LoadingPage(k)
    BY <1>1, <1>3 DEF LoadingPage, Loading
  <2>3. PagesAreVisited'
    BY <1>3, <2>1, <2>2 DEF SInv, PagesAreVisited
  <2>4. \A k : Accounted(k)' <=> Accounted(k)
    BY <1>3, <2>1 DEF Accounted
  <2>5. KidsArePending'
    <3>1. pc # "error"
      BY <1>1
    <3> QED BY <1>3, <2>1, <2>2, <2>4, <3>1 DEF SInv, KidsArePending
  <2>6. KidsInLine'
    BY <1>1, <1>3 DEF SInv, KidsInLine, Line, Loading
  <2> QED BY <1>3, <2>1, <2>3, <2>5, <2>6 DEF SInv, TolerantFailsAtLimits
<1>4. CASE /\ Call(doc.resources[task.obj][1]) /\ doc.resources[task.obj] # <<>>
           /\ pc' = "resources" /\ UNCHANGED <<todo, task, visited, nodes, edges>>
  <2>1. doc.resources[task.obj] \in Seq(Objects)
    BY <1>1, ContentsTypes DEF Lists
  <2>2. doc.resources[task.obj][1] \in Objects
    <3>1. Len(doc.resources[task.obj]) >= 1
      BY <1>4, <2>1, EmptySeq, LenProperties
    <3> QED BY <2>1, <3>1, ElementOfSeq
  <2>3. IInv'
    BY <1>4, <2>2, CallIInv DEF SInv
  <2>4. UNCHANGED <<doc, blamed>> /\ stack' # <<>> /\ Top'.at = "start"
    BY <1>4 DEF Call, Top, Last, Frame
  <2>5. FailsAtLimits'
    BY <2>4 DEF FailsAtLimits, WaitingPlaces
  <2> QED BY <1>3, <1>4, <2>3, <2>4, <2>5
<1>5. CASE /\ pc' = "resources"
           /\ UNCHANGED <<vars, todo, task, visited, nodes, edges>>
  <2>1. IInv' /\ UNCHANGED <<doc, blamed>>
    BY <1>5, StutterIInv DEF SInv, vars
  <2>2. FailsAtLimits'
    BY <1>1, <1>5 DEF FailsAtLimits, vars
  <2> QED BY <1>3, <1>5, <2>1, <2>2
<1> QED BY <1>2, <1>4, <1>5 DEF Page
-----------------------------------------------------------------------------
(* The loader at work                                                      *)

(* What a step of load_object leaves alone, and what only grows.           *)
LEMMA StepGrows ==
  ASSUME IInv, Step
  PROVE  /\ UNCHANGED <<tolerant, doc, stopped>>
         /\ blamed \subseteq blamed'
         /\ used <= used' /\ diagnostics <= diagnostics'
         /\ LoaderLimit => LoaderLimit'
<1>1. /\ UNCHANGED <<tolerant, doc, stopped>>
      /\ blamed \subseteq blamed'
      /\ used' = used \/ used' = used + 1
      /\ diagnostics' = diagnostics \/ diagnostics' = diagnostics + 1
  <2>1. ASSUME NEW o, NEW value, Defect(o, value)
        PROVE  /\ blamed \subseteq blamed'
               /\ diagnostics' = diagnostics \/ diagnostics' = diagnostics + 1
    BY <2>1 DEF Defect, Record, Quiet
  <2>2. ASSUME NEW value, Parsed(value)
        PROVE  /\ blamed \subseteq blamed'
               /\ diagnostics' = diagnostics \/ diagnostics' = diagnostics + 1
    BY <2>1, <2>2 DEF Parsed, Quiet
  <2>3. CASE TooDeep
    BY <2>3 DEF TooDeep, Record, Quiet, file
  <2>4. CASE Enter \/ Stopped \/ CacheHit \/ Exhausted
    BY <2>4 DEF Enter, Stopped, CacheHit, Exhausted, file
  <2>5. CASE Read
    BY <2>1, <2>5 DEF Read, Quiet, file
  <2>6. CASE LengthLoaded
    BY <2>1, <2>2, <2>6 DEF LengthLoaded, Quiet, file
  <2>7. CASE LengthReloaded
    BY <2>1, <2>7 DEF LengthReloaded, Quiet, file
  <2>8. CASE ContainerLoaded
    BY <2>1, <2>8 DEF ContainerLoaded, Quiet, file
  <2> QED BY <2>3, <2>4, <2>5, <2>6, <2>7, <2>8 DEF Step
<1>2. /\ used \in Nat /\ diagnostics \in 0 .. MaxErrors
      /\ used' <= MaxObjects /\ diagnostics' \in 0 .. MaxErrors
  BY StepIInv DEF IInv, TypesOK
<1>3. used <= used' /\ diagnostics <= diagnostics'
  BY <1>1, <1>2, LoaderAssumption
<1>4. ASSUME LoaderLimit PROVE LoaderLimit'
  <2>1. used = MaxObjects => used' = MaxObjects
    BY <1>1, <1>2, LoaderAssumption
  <2>2. diagnostics = MaxErrors => diagnostics' = MaxErrors
    BY <1>1, <1>2, LoaderAssumption
  <2> QED BY <1>1, <1>4, <2>1, <2>2 DEF LoaderLimit
<1> QED BY <1>1, <1>3, <1>4

(* Of the outermost call, the object is kept, and at last answered for.    *)
LEMMA OutermostCall ==
  ASSUME IInv, Step
  PROVE  /\ stack # <<>>
         /\ stack' = <<>> => result'.of = stack[1].obj
         /\ stack' # <<>> => stack'[1].obj = stack[1].obj
<1>1. /\ TypesOK /\ stack # <<>> /\ Len(stack) \in Nat /\ Len(stack) \in 1 .. Len(stack)
      /\ Current = stack[Len(stack)].obj /\ Link \in Objects
      /\ Enter \/ Ended \/ Nested
  BY StepForms, FrameTypes DEF IInv, Current
<1>2. Len(stack) = 1 \/ (1 \in 1 .. Len(stack) - 1 /\ Len(stack) > 1)
  BY <1>1
<1>3. CASE Enter
  <2>1. /\ Len(stack') = Len(stack)
        /\ \A i \in 1 .. Len(stack) - 1 : stack'[i] = stack[i]
        /\ stack'[Len(stack)].obj = Current
    BY <1>1, <1>3, EnterProperties DEF Enter
  <2>2. stack' # <<>>
    BY <1>1, <2>1, EmptySeq
  <2> QED BY <1>1, <1>2, <2>1, <2>2
<1>4. CASE Ended
  <2>1. stack' = Front(stack) /\ result'.of = Current
    BY <1>4 DEF Ended, Leave
  <2>2. /\ Len(stack') = Len(stack) - 1 /\ stack' \in Seq(Frames)
        /\ \A i \in 1 .. Len(stack) - 1 : stack'[i] = stack[i]
    BY <1>1, <2>1, FrontProperties
  <2>3. CASE Len(stack) = 1
    <3>1. stack' = <<>>
      BY <2>2, <2>3, EmptySeq
    <3> QED BY <1>1, <2>1, <2>3, <3>1
  <2>4. CASE 1 \in 1 .. Len(stack) - 1 /\ Len(stack) > 1
    <3>1. stack' # <<>>
      BY <1>1, <2>2, <2>4, EmptySeq
    <3> QED BY <1>1, <2>2, <2>4, <3>1
  <2> QED BY <1>2, <2>3, <2>4
<1>5. CASE Nested
  <2>1. PICK place \in WaitingPlaces, guess \in Guesses : Nest(Link, place, guess)
    BY <1>5 DEF Nested
  <2>2. place \in Places
    BY DEF WaitingPlaces, Places
  <2>3. /\ Len(stack') = Len(stack) + 1
        /\ \A i \in 1 .. Len(stack) - 1 : stack'[i] = stack[i]
        /\ stack'[Len(stack)] = [obj |-> Current, at |-> place, guess |-> guess]
    BY <1>1, <2>1, <2>2, NestProperties
  <2>4. stack' # <<>>
    BY <1>1, <2>3, EmptySeq
  <2> QED BY <1>1, <1>2, <2>3, <2>4
<1> QED BY <1>1, <1>3, <1>4, <1>5

(* A step of a tolerant call that is not a nested call gives a value, or   *)
(* fails at a limit, or because a call within it failed at one.            *)
LEMMA FailuresHaveLimits ==
  ASSUME IInv, FailsAtLimits, Step, tolerant
  PROVE  Enter \/ Nested \/ result'.ok \/ LoaderLimit'
<1>1. /\ stack # <<>> /\ (LoaderLimit => LoaderLimit') /\ diagnostics \in 0 .. MaxErrors
      /\ UNCHANGED <<doc, stopped>> /\ Current \in Objects
  BY StepGrows, StepForms, FrameTypes DEF IInv, TypesOK
<1>2. ~CanRecord => LoaderLimit
  <2>1. ~CanRecord => diagnostics = MaxErrors
    BY <1>1, LoaderAssumption DEF CanRecord
  <2> QED BY <2>1 DEF LoaderLimit
<1>3. ASSUME NEW value, Give(value) \/ Keep(value) PROVE result'.ok
  BY <1>3 DEF Give, Keep, Leave
<1>4. ASSUME NEW o, NEW value, Defect(o, value) PROVE result'.ok \/ LoaderLimit'
  BY <1>1, <1>2, <1>3, <1>4 DEF Defect, Substitute
<1>5. ASSUME NEW place \in WaitingPlaces, NEW guess \in Guesses,
             Nest(Link, place, guess), UNCHANGED cache
      PROVE  Nested
  BY <1>5 DEF Nested
<1>6. ASSUME NEW value \in {"stream", "observed"}, Parsed(value)
      PROVE  Nested \/ result'.ok \/ LoaderLimit'
  BY <1>4, <1>5, <1>6 DEF Parsed, WaitingPlaces, Guesses
<1>7. CASE TooDeep
  BY <1>1, <1>2, <1>7 DEF TooDeep, Leave
<1>8. CASE Stopped \/ CacheHit \/ Exhausted
  BY <1>1, <1>3, <1>8 DEF Stopped, CacheHit, Exhausted, LoaderLimit
<1>9. CASE Read
  <2>1. Kind = "outside" => LoaderLimit
    BY <1>1 DEF LoaderLimit, Kind
  <2> QED BY <1>1, <1>3, <1>4, <1>5, <1>9, <2>1 DEF Read, WaitingPlaces, Guesses
<1>10. CASE LengthLoaded
  BY <1>4, <1>6, <1>10 DEF LengthLoaded
<1>11. CASE LengthReloaded
  BY <1>3, <1>4, <1>11 DEF LengthReloaded
<1>12. CASE ContainerLoaded
  <2>1. ~result.ok => LoaderLimit
    BY <1>1, <1>12 DEF ContainerLoaded, Running, FailsAtLimits, WaitingPlaces
  <2> QED BY <1>1, <1>3, <1>4, <1>12, <2>1 DEF ContainerLoaded
<1> QED BY <1>7, <1>8, <1>9, <1>10, <1>11, <1>12 DEF Step

(* A step of the loader changes nothing of the structure.                  *)
LEMMA LoaderLemma ==
  ASSUME SInv, IInv', UNCHANGED structure, UNCHANGED <<tolerant, doc>>,
         blamed \subseteq blamed', LoaderLimit => LoaderLimit',
         LoadIsForTask', FailsAtLimits'
  PROVE  SInv'
<1>1. /\ PageNodes' = PageNodes /\ StructureTypes' /\ ParentsExist'
      /\ ParentsComeFirst' /\ OneNodePerPage' /\ pc' = pc /\ todo' = todo
  BY DEF SInv, PageNodes, StructureTypes, ParentsExist, ParentsComeFirst,
         OneNodePerPage, structure
<1>2. \A k : LoadingPage(k)' <=> LoadingPage(k)
  BY DEF LoadingPage, Loading, structure
<1>3. \A k : Accounted(k) => Accounted(k)'
  BY <1>1 DEF Accounted, structure
<1>4. PagesAreVisited'
  BY <1>1, <1>2 DEF SInv, PagesAreVisited, structure
<1>5. KidsArePending'
  BY <1>1, <1>2, <1>3 DEF SInv, KidsArePending, structure
<1>6. TolerantFailsAtLimits'
  <2>1. ASSUME tolerant, pc = "error"
        PROVE  \/ LoaderLimit' \/ Len(nodes') = MaxNodes \/ Len(edges') = MaxEdges
    BY <2>1 DEF SInv, TolerantFailsAtLimits, LoaderLimit, structure
  <2> QED BY <1>1, <2>1 DEF TolerantFailsAtLimits, LoaderLimit
<1>7. KidsInLine'
  BY <1>1 DEF SInv, KidsInLine, Line, Loading, structure
<1> QED BY <1>1, <1>4, <1>5, <1>6, <1>7 DEF SInv

LEMMA LoadSInv ==
  ASSUME SInv, Load
  PROVE  SInv'
<1>1. IInv /\ Step /\ UNCHANGED structure /\ LoadIsForTask /\ FailsAtLimits
  BY DEF SInv, Load
<1>2. IInv'
  BY <1>1, StepIInv
<1>3. LoadIsForTask'
  <2>1. Loading /\ Loading'
    BY <1>1, OutermostCall DEF LoadIsForTask, Loading, structure
  <2> QED BY <1>1, <2>1, OutermostCall DEF LoadIsForTask, structure
<1>4. FailsAtLimits'
  <2>1. CASE ~tolerant
    BY <1>1, <2>1, StepGrows DEF FailsAtLimits
  <2>2. CASE Enter \/ Nested
    <3>1. stack' # <<>> /\ Top'.at \notin WaitingPlaces
      <4>1. /\ TypesOK /\ stack # <<>> /\ Len(stack) \in Nat
            /\ Len(stack) \in 1 .. Len(stack) /\ Link \in Objects
        BY <1>1, StepForms, FrameTypes DEF IInv
      <4>2. CASE Enter
        <5>1. Len(stack') = Len(stack) /\ stack'[Len(stack)].at = "entered"
          BY <4>1, <4>2, EnterProperties DEF Enter
        <5>2. stack' # <<>>
          BY <4>1, <5>1, EmptySeq
        <5> QED BY <5>1, <5>2 DEF Top, Last, WaitingPlaces
      <4>3. CASE Nested
        <5>1. PICK place \in WaitingPlaces, guess \in Guesses : Nest(Link, place, guess)
          BY <4>3 DEF Nested
        <5>2. place \in Places
          BY DEF WaitingPlaces, Places
        <5>3. Len(stack') = Len(stack) + 1 /\ stack'[Len(stack) + 1] = Frame(Link)
          BY <4>1, <5>1, <5>2, NestProperties
        <5>4. stack' # <<>>
          BY <4>1, <5>3, EmptySeq
        <5>5. Frame(Link).at = "start"
          BY DEF Frame
        <5> QED BY <5>3, <5>4, <5>5 DEF Top, Last, WaitingPlaces
      <4> QED BY <2>2, <4>2, <4>3
    <3> QED BY <3>1 DEF FailsAtLimits
  <2>3. CASE result'.ok \/ LoaderLimit'
    BY <2>3 DEF FailsAtLimits
  <2> QED BY <1>1, <2>1, <2>2, <2>3, FailuresHaveLimits
<1> QED BY <1>1, <1>2, <1>3, <1>4, StepGrows, LoaderLemma

LEMMA StopLoadingSInv ==
  ASSUME SInv, StopLoading
  PROVE  SInv'
<1>1. /\ Stop /\ UNCHANGED structure
      /\ UNCHANGED <<tolerant, doc, stack, used, diagnostics, blamed, result>> /\ stopped'
  BY DEF StopLoading, Stop, file
<1>2. IInv'
  BY <1>1, StopIInv DEF SInv
<1>3. LoadIsForTask'
  BY <1>1 DEF SInv, LoadIsForTask, Loading, structure
<1>4. LoaderLimit' /\ FailsAtLimits'
  BY <1>1 DEF LoaderLimit, FailsAtLimits
<1> QED BY <1>1, <1>2, <1>3, <1>4, LoaderLemma

(* The invariant holds at first.                                           *)
LEMMA InitSInv == StructureInit => SInv
<1> SUFFICES ASSUME StructureInit PROVE SInv
  OBVIOUS
<1> DEFINE catalog == Task("catalog", doc.root, 0, 0)
           infos == Tasks("loose", doc.info, 0, 0)
           list == <<catalog>> \o infos
<1>1. /\ Init /\ pc = "take" /\ task = catalog /\ visited = {}
      /\ nodes = <<>> /\ edges = <<>> /\ todo = Reverse(list)
  BY DEF StructureInit
<1>2. IInv /\ TypesOK /\ stack = <<>>
  BY <1>1, InitIInv DEF IInv, Init
<1>3. /\ catalog \in TaskSet /\ catalog.parent = 0
      /\ infos \in Seq(TaskSet) /\ \A t \in ToSet(infos) : t.parent = 0
  <2>1. PICK zero \in Nat : zero = 0
    OBVIOUS
  <2>2. doc.root \in Objects /\ doc.info \in Lists
    BY <1>2, ContentsTypes
  <2>3. "catalog" \in Doings /\ "loose" \in Doings
    BY DEF Doings
  <2>4. /\ Task("catalog", doc.root, zero, zero) \in TaskSet
        /\ Task("catalog", doc.root, zero, zero).parent = zero
    BY <2>2, <2>3, TaskTypes
  <2>5. /\ Tasks("loose", doc.info, zero, zero) \in Seq(TaskSet)
        /\ \A t \in ToSet(Tasks("loose", doc.info, zero, zero)) : t.parent = zero
    BY <2>2, <2>3, TasksElements
  <2> QED BY <2>1, <2>4, <2>5
<1> HIDE DEF catalog, infos
<1>4. /\ <<catalog>> \in Seq(TaskSet)
      /\ \A t \in ToSet(<<catalog>>) : t = catalog
  <2> DEFINE s == <<catalog>>
  <2>1. s \in Seq(TaskSet) /\ Len(s) = 1 /\ s[1] = catalog
    BY <1>3
  <2> HIDE DEF s
  <2>2. \A i \in 1 .. Len(s) : i = 1
    BY <2>1
  <2>3. s \in Seq(TaskSet) /\ \A t \in ToSet(s) : t = catalog
    BY <2>1, <2>2, ElementsInSet
  <2> QED BY <2>3 DEF s
<1>5. list \in Seq(TaskSet) /\ ToSet(list) = ToSet(<<catalog>>) \cup ToSet(infos)
  BY <1>3, <1>4, ConcatElements, ZenonT(60)
<1> HIDE DEF list
<1>6. todo \in Seq(TaskSet) /\ \A t \in ToSet(todo) : t.parent = 0
  BY <1>1, <1>3, <1>4, <1>5, ReverseElements
<1>7. Len(nodes) = 0 /\ Len(edges) = 0 /\ DOMAIN nodes = {} /\ DOMAIN edges = {}
  BY <1>1, EmptySeq
<1>8. StructureTypes
  BY <1>1, <1>3, <1>6, <1>7, EmptySeq, StructureAssumption DEF StructureTypes
<1>9. PageNodes = {} /\ OneNodePerPage /\ ParentsComeFirst
  BY <1>7 DEF PageNodes, OneNodePerPage, ParentsComeFirst
<1>10. ParentsExist
  BY <1>1, <1>3, <1>6, <1>7 DEF ParentsExist
<1>11. PagesAreVisited /\ KidsArePending
  BY <1>1, <1>9 DEF PagesAreVisited, KidsArePending, LoadingPage, Loading
<1>12. LoadIsForTask /\ FailsAtLimits /\ TolerantFailsAtLimits
  BY <1>1, <1>2 DEF LoadIsForTask, FailsAtLimits, TolerantFailsAtLimits, Loading
<1>13. KidsInLine
  <2>1. Pages(nodes) = {}
    BY <1>9 DEF Pages, PageNodes
  <2>2. InLine(nodes, edges, Line, doc.kids, <<>>, <<>>)
    BY <2>1 DEF InLine, PageEdges, PageTasks
  <2> QED BY <2>2 DEF KidsInLine
<1> QED BY <1>1, <1>2, <1>8, <1>9, <1>10, <1>11, <1>12, <1>13 DEF SInv

(* Every step keeps it.                                                    *)
LEMMA NextSInv == SInv /\ [StructureNext]_allVars => SInv'
<1> SUFFICES ASSUME SInv, [StructureNext]_allVars PROVE SInv'
  OBVIOUS
<1>1. CASE Build
  BY <1>1, TakeSInv, TakeDirectSInv, LoadFailedSInv, CatalogSInv, WhateverSInv,
     NamesDictionarySInv, XmpStreamSInv, FormSInv, PageSInv, AddPageSInv, FieldSInv,
     AnnotationSInv, ActionSInv, FinishSInv DEF Build
<1>2. CASE Load \/ StopLoading
  BY <1>2, LoadSInv, StopLoadingSInv
<1>3. CASE UNCHANGED allVars
  <2>1. UNCHANGED vars /\ UNCHANGED structure
    BY <1>3 DEF allVars
  <2>2. IInv' /\ LoadIsForTask' /\ FailsAtLimits' /\ (LoaderLimit => LoaderLimit')
        /\ UNCHANGED <<tolerant, doc, blamed>>
    BY <2>1, StutterIInv DEF SInv, LoadIsForTask, FailsAtLimits, LoaderLimit, Loading,
                             Top, structure, vars
  <2> QED BY <2>1, <2>2, LoaderLemma
<1> QED BY <1>1, <1>2, <1>3 DEF StructureNext
-----------------------------------------------------------------------------
(* The theorems                                                            *)

(* The structure parser does with load_object what its specification       *)
(* allows: it calls it only when no call is in progress, for an object of  *)
(* the document, and lets it run until it returns.                         *)
THEOREM StructureUsesLoader == StructureSpec => Init /\ [][Next]_vars
<1>1. StructureInit => Init /\ SInv
  BY InitSInv DEF StructureInit
<1>2. SInv /\ [StructureNext]_allVars => SInv'
  BY NextSInv
<1>3. SInv /\ [StructureNext]_allVars => [Next]_vars
  <2> SUFFICES ASSUME SInv, [StructureNext]_allVars PROVE [Next]_vars
    OBVIOUS
  <2>1. CASE Take
    <3>1. CASE UNCHANGED vars
      BY <3>1
    <3>2. CASE todo # <<>> /\ Call(Last(todo).obj)
      <4>1. Last(todo) \in TaskSet
        BY <3>2, FrontElements DEF SInv, StructureTypes
      <4> QED BY <3>2, <4>1 DEF TaskSet, Next
    <3> QED BY <2>1, <3>1, <3>2 DEF Take
  <2>2. CASE Page
    <3>1. CASE UNCHANGED vars
      BY <3>1
    <3>2. CASE /\ Loaded("page") /\ doc.resources[task.obj] # <<>>
               /\ Call(doc.resources[task.obj][1])
      <4>1. doc.resources[task.obj] \in Seq(Objects)
        BY <3>2, LoadedTask, ContentsTypes DEF Lists
      <4>2. doc.resources[task.obj][1] \in Objects
        <5>1. Len(doc.resources[task.obj]) >= 1
          BY <3>2, <4>1, EmptySeq, LenProperties
        <5> QED BY <4>1, <5>1, ElementOfSeq
      <4> QED BY <3>2, <4>2 DEF Next
    <3> QED BY <2>2, <3>1, <3>2 DEF Page
  <2>3. CASE TakeDirect \/ LoadFailed \/ Catalog \/ Whatever \/ NamesDictionary
             \/ XmpStream \/ Form \/ AddPage \/ Field \/ Annotation \/ Action \/ Finish
    <3>1. UNCHANGED vars
      BY <2>3 DEF TakeDirect, LoadFailed, Catalog, Whatever, NamesDictionary, XmpStream,
                  Form, AddPage, Field, Annotation, Action, Finish
    <3> QED BY <3>1
  <2>4. CASE Load \/ StopLoading
    BY <2>4 DEF Load, StopLoading, Next
  <2>5. CASE UNCHANGED allVars
    BY <2>5 DEF allVars
  <2> QED BY <2>1, <2>2, <2>3, <2>4, <2>5 DEF StructureNext, Build
<1> QED BY <1>1, <1>2, <1>3, PTL DEF StructureSpec

(* A tolerant parse ends with an error only at one of its limits, or for   *)
(* an offset outside the file.                                             *)
THEOREM TolerantParsesFailAtLimits == StructureSpec => []TolerantFailsAtLimits
<1>1. StructureInit => SInv
  BY InitSInv
<1>2. SInv /\ [StructureNext]_allVars => SInv'
  BY NextSInv
<1>3. SInv => TolerantFailsAtLimits
  BY DEF SInv
<1> QED BY <1>1, <1>2, <1>3, PTL DEF StructureSpec

(* The pages among a node's children, latest edge first, are as the edges   *)
(* place them in its Kids array.                                           *)
LEMMA ChildrenInOrder ==
  ASSUME SInv, NEW n \in PageNodes
  PROVE  LET under == PagesUnder(n)
         IN IsSubsequenceOf([i \in DOMAIN under |-> nodes[under[i]].obj],
                            doc.kids[nodes[n].obj])
<1> DEFINE e == Len(edges)
           K == doc.kids[nodes[n].obj]
           latest == Reverse(edges)
           P == {i \in DOMAIN latest : Leads(latest[i], n)}
           c == Cardinality(P)
           under == PagesUnder(n)
           kids == [i \in DOMAIN under |-> nodes[under[i]].obj]
<1>1. edges \in Seq(Edge) /\ e \in Nat /\ DOMAIN edges = 1..e
  BY LenProperties DEF SInv, StructureTypes
<1>2. /\ latest \in Seq(Edge) /\ DOMAIN latest = 1..e
      /\ \A i \in 1..e : latest[i] = edges[(e - i) + 1]
  BY <1>1, ReverseElements DEF Reverse
<1> HIDE DEF latest
<1>3. P \in SUBSET (DOMAIN latest)
  OBVIOUS
<1>4. PICK at \in [1..c -> P] :
        /\ c \in Nat
        /\ \A k, l \in 1..c : k < l => at[k] < at[l]
        /\ DOMAIN ElementsAt(latest, P) = 1..c
        /\ \A k \in 1..c : ElementsAt(latest, P)[k] = latest[at[k]]
  <2>1. PICK at : SelectedFrom(at, Edge, latest, P)
    BY <1>2, <1>3, ElementsAtProperties
  <2> QED BY <2>1 DEF SelectedFrom
<1>5. under = [k \in 1..c |-> latest[at[k]].to]
  BY <1>4 DEF PagesUnder, latest
<1>6. \A k \in 1..c : at[k] \in 1..e /\ Leads(latest[at[k]], n)
  BY <1>2, <1>4
<1> HIDE DEF P, c, under
<1>7. kids = [k \in 1..c |-> nodes[latest[at[k]].to].obj]
  BY <1>5
<1>8. PICK f, g : InLine(nodes, edges, Line, doc.kids, f, g)
  BY DEF SInv, KidsInLine
<1> DEFINE place == [k \in 1..c |-> f[(e - at[k]) + 1]]
<1>9. ASSUME NEW k \in 1..c
      PROVE  /\ (e - at[k]) + 1 \in PageEdges(nodes, edges)
             /\ latest[at[k]] = edges[(e - at[k]) + 1]
             /\ edges[(e - at[k]) + 1].from = n
             /\ KidAt(nodes, doc.kids, n, place[k], kids[k])
  <2> DEFINE i == (e - at[k]) + 1
  <2>1. i \in 1..e /\ latest[at[k]] = edges[i]
    BY <1>1, <1>2, <1>6
  <2>2. edges[i].from = n /\ edges[i].type = "child" /\ edges[i].to \in PageNodes
    BY <1>6, <2>1 DEF Leads
  <2>3. i \in PageEdges(nodes, edges)
    BY <1>1, <2>1, <2>2 DEF PageEdges, Pages, PageNodes
  <2>4. KidAt(nodes, doc.kids, n, f[i], nodes[edges[i].to].obj)
    BY <1>8, <2>2, <2>3 DEF InLine
  <2> QED BY <1>7, <2>1, <2>2, <2>3, <2>4
<1>10. ASSUME NEW k \in 1..c, NEW l \in 1..c, k < l PROVE place[k] < place[l]
  <2>1. (e - at[l]) + 1 < (e - at[k]) + 1
    BY <1>1, <1>4, <1>6, <1>10
  <2> QED BY <1>8, <1>9, <2>1 DEF InLine
<1>11. \A k \in 1..c : place[k] \in DOMAIN K /\ kids[k] = K[place[k]]
  BY <1>9 DEF KidAt
<1>12. place \in [1..c -> DOMAIN K] /\ DOMAIN kids = 1..c
  BY <1>7, <1>11
<1> HIDE DEF place, kids
<1>13. IsSubsequenceOf(kids, K)
  BY <1>10, <1>11, <1>12 DEF IsSubsequenceOf
<1> QED BY <1>13 DEF kids, under

(* Whatever the Kids arrays are, cycles and shared pages included, no page *)
(* has two nodes, every node has one parent and was created after it, the  *)
(* kids of a page are listed in the order of its array, and when the walk  *)
(* is done each of them has a node, is damaged or is in a diagnostic.      *)
THEOREM PageTreeIsExact == StructureSpec => []PageTreeMirrorsKids
<1>1. StructureInit => SInv
  BY InitSInv
<1>2. SInv /\ [StructureNext]_allVars => SInv'
  BY NextSInv
<1>3. ASSUME SInv PROVE PageTreeMirrorsKids
  <2>1. ASSUME pc = "done", NEW n \in PageNodes, NEW k \in ToSet(doc.kids[nodes[n].obj])
        PROVE  Accounted(k)
    <3>1. ToSet(todo) = {}
      BY <1>3, <2>1, EmptySeq DEF SInv, ToSet
    <3> QED BY <1>3, <2>1, <3>1 DEF SInv, KidsArePending, LoadingPage, Loading
  <2>2. NoPageIsLost
    BY <2>1 DEF NoPageIsLost
  <2>3. KidsKeepTheirOrder
    BY <1>3, ChildrenInOrder DEF KidsKeepTheirOrder
  <2> QED BY <1>3, <2>2, <2>3 DEF SInv, PageTreeMirrorsKids
<1> QED BY <1>1, <1>2, <1>3, PTL DEF StructureSpec
=============================================================================
