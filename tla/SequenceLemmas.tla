--------------------------- MODULE SequenceLemmas ---------------------------
(***************************************************************************)
(* Facts about selecting, counting and flattening that the proofs about    *)
(* the components need.                                                    *)
(***************************************************************************)
EXTENDS SequenceSelection, SequencesExt, SequenceTheorems, FiniteSetTheorems,
        FunctionTheorems, WellFoundedInduction, TLAPS
-----------------------------------------------------------------------------
(* Least and greatest numbers                                              *)

LEMMA SetHasLeast ==
  ASSUME NEW S \in SUBSET Nat, S # {}
  PROVE  \E m \in S : \A j \in S : m <= j
<1>1. IsWellFoundedOn(OpToRel(<, Nat), Nat)
  BY NatLessThanWellFounded
<1>2. PICK m \in S : \A j \in S : ~(<<j, m>> \in OpToRel(<, Nat))
  BY <1>1, WFMin, Zenon
<1>3. ASSUME NEW j \in S PROVE m <= j
  <2>1. m \in Nat /\ j \in Nat
    OBVIOUS
  <2>2. j < m => <<j, m>> \in OpToRel(<, Nat)
    BY <2>1 DEF OpToRel
  <2>3. ~(j < m)
    BY <1>2, <2>2
  <2> QED BY <2>1, <2>3
<1> QED BY <1>3

LEMMA SetHasGreatest ==
  ASSUME NEW n \in Nat, NEW S \in SUBSET (0..n), S # {}
  PROVE  \E m \in S : \A j \in S : j <= m
<1> DEFINE R == {n - x : x \in S}
<1>1. R \in SUBSET Nat /\ R # {}
  <2>1. \A x \in S : x \in 0..n
    OBVIOUS
  <2>2. \A x \in 0..n : n - x \in Nat
    OBVIOUS
  <2> QED BY <2>1, <2>2
<1>2. PICK r \in R : \A j \in R : r <= j
  BY <1>1, SetHasLeast
<1>3. PICK m \in S : r = n - m
  OBVIOUS
<1>4. ASSUME NEW j \in S PROVE j <= m
  <2>1. n - m <= n - j
    BY <1>2, <1>3
  <2>2. j \in Nat /\ m \in Nat
    OBVIOUS
  <2> QED BY <2>1, <2>2
<1> QED BY <1>4
-----------------------------------------------------------------------------
(* Selecting                                                               *)

NotBeyond(P, i) == {j \in P : j <= i}

(* As many positions are not beyond the k-th one as k says.                *)
LEMMA RankProperties ==
  ASSUME NEW n \in Nat, NEW P \in SUBSET (1..n)
  PROVE  /\ Cardinality(P) \in Nat /\ Cardinality(P) <= n
         /\ \A i \in P : Cardinality(NotBeyond(P, i)) \in 1..Cardinality(P)
         /\ \A i, j \in P : i < j => Cardinality(NotBeyond(P, i)) < Cardinality(NotBeyond(P, j))
         /\ \A k \in 1..Cardinality(P) : \E i \in P : Cardinality(NotBeyond(P, i)) = k
<1> DEFINE rank(i) == Cardinality(NotBeyond(P, i))
<1>0. P \in SUBSET Nat /\ P \in SUBSET (0..n)
  <2>1. \A i \in 1..n : i \in Nat /\ i \in 0..n
    OBVIOUS
  <2> QED BY <2>1
<1>1. /\ IsFiniteSet(P) /\ Cardinality(P) \in Nat /\ Cardinality(P) <= n
      /\ \A Q \in SUBSET P : /\ IsFiniteSet(Q) /\ Cardinality(Q) \in Nat
                             /\ Cardinality(Q) <= Cardinality(P)
  <2>1. IsFiniteSet(1..n) /\ Cardinality(1..n) = n
    BY FS_Interval
  <2>2. IsFiniteSet(P) /\ Cardinality(P) <= n
    BY <2>1, FS_Subset
  <2>3. ASSUME NEW Q \in SUBSET P
        PROVE  IsFiniteSet(Q) /\ Cardinality(Q) \in Nat /\ Cardinality(Q) <= Cardinality(P)
    BY <2>2, FS_Subset, FS_CardinalityType
  <2> QED BY <2>2, <2>3
<1>2. ASSUME NEW i \in P PROVE rank(i) \in 1..Cardinality(P)
  <2>1. NotBeyond(P, i) \in SUBSET P /\ NotBeyond(P, i) # {}
    BY DEF NotBeyond
  <2>2. rank(i) # 0
    BY <1>1, <2>1, FS_EmptySet
  <2> QED BY <1>1, <2>1, <2>2
<1>3. ASSUME NEW i \in P, NEW j \in P, i < j PROVE rank(i) < rank(j)
  <2>1. /\ NotBeyond(P, i) \in SUBSET NotBeyond(P, j)
        /\ j \in NotBeyond(P, j) /\ j \notin NotBeyond(P, i)
        /\ NotBeyond(P, j) \in SUBSET P /\ NotBeyond(P, i) \in SUBSET P
    <3>1. i \in Nat /\ j \in Nat
      BY <1>0
    <3>2. \A x \in P : x \in Nat /\ (x <= i => x <= j)
      BY <1>0, <1>3, <3>1
    <3>3. j <= j /\ ~(j <= i)
      BY <1>3, <3>1
    <3>4. NotBeyond(P, i) \in SUBSET NotBeyond(P, j)
      BY <3>2 DEF NotBeyond
    <3>5. j \in NotBeyond(P, j) /\ j \notin NotBeyond(P, i)
      BY <3>3 DEF NotBeyond
    <3> QED BY <3>4, <3>5 DEF NotBeyond
  <2>2. rank(i) <= rank(j) /\ rank(i) # rank(j)
    BY <1>1, <2>1, FS_Subset
  <2> QED BY <1>1, <2>1, <2>2
<1>4. ASSUME NEW k \in 1..Cardinality(P) PROVE \E i \in P : rank(i) = k
  <2> DEFINE Q == {i \in P : rank(i) >= k}
  <2>1. Q # {}
    <3>1. P # {}
      BY <1>1, FS_EmptySet
    <3>2. PICK m \in P : \A j \in P : j <= m
      BY <1>0, <3>1, SetHasGreatest
    <3>3. NotBeyond(P, m) = P
      BY <3>2 DEF NotBeyond
    <3> QED BY <1>1, <3>2, <3>3
  <2>2. PICK i \in Q : \A j \in Q : i <= j
    <3>1. Q \in SUBSET Nat
      BY <1>0
    <3> HIDE DEF Q
    <3> QED BY <2>1, <3>1, SetHasLeast
  <2>3. i \in P /\ rank(i) >= k /\ rank(i) \in Nat
    BY <1>2, <2>2
  <2>4. SUFFICES ASSUME rank(i) > k PROVE FALSE
    BY <2>3
  <2> DEFINE B == NotBeyond(P, i) \ {i}
  <2>5. Cardinality(B) = rank(i) - 1
    <3>1. IsFiniteSet(NotBeyond(P, i)) /\ i \in NotBeyond(P, i)
      BY <1>1, <2>3 DEF NotBeyond
    <3> QED BY <3>1, FS_RemoveElement
  <2>6. B # {} /\ B \in SUBSET (0..n)
    <3>1. Cardinality(B) # 0
      BY <2>3, <2>4, <2>5
    <3>2. B \in SUBSET P
      BY DEF NotBeyond
    <3> QED BY <1>0, <3>1, <3>2, FS_EmptySet
  <2>7. PICK m \in B : \A j \in B : j <= m
    <3> HIDE DEF B
    <3> QED BY <2>6, SetHasGreatest
  <2>8. m \in P /\ m < i
    BY <2>3, <2>7 DEF NotBeyond
  <2>9. NotBeyond(P, m) = B
    <3>1. \A j \in P : j <= m <=> j <= i /\ j # i
      BY <2>3, <2>7, <2>8 DEF NotBeyond
    <3> QED BY <3>1 DEF NotBeyond
  <2>10. rank(m) >= k
    BY <2>3, <2>4, <2>5, <2>9
  <2> QED BY <2>2, <2>3, <2>8, <2>10
<1> QED BY <1>1, <1>2, <1>3, <1>4

(* The selected elements come from the positions at, which are those of P, *)
(* each once, in order.                                                    *)
SelectedFrom(at, S, s, P) ==
  /\ Cardinality(P) \in Nat
  /\ at \in [1..Cardinality(P) -> P]
  /\ \A k, l \in 1..Cardinality(P) : k < l => at[k] < at[l]
  /\ \A i \in P : \E k \in 1..Cardinality(P) : at[k] = i
  /\ ElementsAt(s, P) \in Seq(S)
  /\ Len(ElementsAt(s, P)) = Cardinality(P)
  /\ DOMAIN ElementsAt(s, P) = 1..Cardinality(P)
  /\ \A k \in 1..Cardinality(P) : ElementsAt(s, P)[k] = s[at[k]]

LEMMA ElementsAtProperties ==
  ASSUME NEW S, NEW s \in Seq(S), NEW P \in SUBSET (DOMAIN s)
  PROVE  \E at : SelectedFrom(at, S, s, P)
<1> DEFINE n == Cardinality(P)
           at == [k \in 1..n |-> CHOOSE i \in P : Cardinality(NotBeyond(P, i)) = k]
<1>1. Len(s) \in Nat /\ P \in SUBSET (1..Len(s)) /\ DOMAIN s = 1..Len(s)
  BY LenProperties
<1>2. /\ n \in Nat
      /\ \A i \in P : Cardinality(NotBeyond(P, i)) \in 1..n
      /\ \A i, j \in P : i < j => Cardinality(NotBeyond(P, i)) < Cardinality(NotBeyond(P, j))
      /\ \A k \in 1..n : \E i \in P : Cardinality(NotBeyond(P, i)) = k
  BY <1>1, RankProperties
<1>3. /\ at \in [1..n -> P]
      /\ \A k \in 1..n : Cardinality(NotBeyond(P, at[k])) = k
  BY <1>2
<1>4. ElementsAt(s, P) = [k \in 1..n |-> s[at[k]]]
  BY DEF ElementsAt, NotBeyond
<1> HIDE DEF at, n
<1>5. ASSUME NEW k \in 1..n, NEW l \in 1..n, k < l PROVE at[k] < at[l]
  <2>1. /\ at[k] \in P /\ at[l] \in P /\ at[k] \in Nat /\ at[l] \in Nat
        /\ Cardinality(NotBeyond(P, at[k])) = k /\ Cardinality(NotBeyond(P, at[l])) = l
    BY <1>1, <1>3
  <2>2. CASE at[l] < at[k]
    BY <1>2, <1>5, <2>1, <2>2
  <2>3. CASE at[l] = at[k]
    BY <1>2, <1>5, <2>1, <2>3
  <2> QED BY <2>1, <2>2, <2>3
<1>6. ASSUME NEW i \in P PROVE \E k \in 1..n : at[k] = i
  <2> DEFINE k == Cardinality(NotBeyond(P, i))
  <2>1. k \in 1..n
    BY <1>2
  <2>2. at[k] \in P /\ Cardinality(NotBeyond(P, at[k])) = k
    BY <1>3, <2>1
  <2>3. at[k] \in Nat /\ i \in Nat
    BY <1>1, <2>2
  <2>4. ~(at[k] < i) /\ ~(i < at[k])
    BY <1>2, <2>1, <2>2
  <2> QED BY <2>1, <2>3, <2>4
<1>7. /\ ElementsAt(s, P) \in Seq(S) /\ Len(ElementsAt(s, P)) = n
      /\ DOMAIN ElementsAt(s, P) = 1..n
  <2>1. \A k \in 1..n : s[at[k]] \in S
    BY <1>1, <1>3, ElementOfSeq
  <2>2. ElementsAt(s, P) \in [1..n -> S]
    BY <1>4, <2>1
  <2>3. ElementsAt(s, P) \in Seq(S)
    BY <1>2, <2>2, SeqDef
  <2> QED BY <1>2, <1>4, <2>3, LenProperties
<1>8. \A k \in 1..n : ElementsAt(s, P)[k] = s[at[k]]
  BY <1>4
<1>9. SelectedFrom(at, S, s, P)
  BY <1>2, <1>3, <1>5, <1>6, <1>7, <1>8 DEF n, SelectedFrom
<1> QED BY <1>9
-----------------------------------------------------------------------------
(* Counting                                                                *)

HitsIn(s, T) == {i \in DOMAIN s : s[i] \in T}

LEMMA HitsAreFinite ==
  ASSUME NEW S, NEW s \in Seq(S), NEW T
  PROVE  /\ IsFiniteSet(HitsIn(s, T)) /\ Cardinality(HitsIn(s, T)) \in Nat
         /\ Cardinality(HitsIn(s, T)) <= Len(s)
<1> DEFINE n == Len(s)
<1>1. n \in Nat /\ HitsIn(s, T) \in SUBSET (1..n)
  BY LenProperties DEF HitsIn
<1> HIDE DEF n
<1>2. IsFiniteSet(1..n) /\ Cardinality(1..n) = n
  BY <1>1, FS_Interval
<1> QED BY <1>1, <1>2, FS_Subset, FS_CardinalityType DEF n

(* A concatenation hits as often as its parts do together.                 *)
LEMMA HitsOfConcat ==
  ASSUME NEW S, NEW s \in Seq(S), NEW t \in Seq(S), NEW T
  PROVE  Cardinality(HitsIn(s \o t, T)) = Cardinality(HitsIn(s, T)) + Cardinality(HitsIn(t, T))
<1> DEFINE m == Len(s)
           n == Len(t)
           H == {m + i : i \in HitsIn(t, T)}
           f == [i \in HitsIn(t, T) |-> m + i]
<1>1. /\ m \in Nat /\ n \in Nat /\ DOMAIN s = 1..m /\ DOMAIN t = 1..n
      /\ DOMAIN (s \o t) = 1 .. m + n
      /\ \A i \in 1 .. m + n : (s \o t)[i] = IF i <= m THEN s[i] ELSE t[i - m]
  <2>1. s \o t \in Seq(S) /\ Len(s \o t) = m + n
    BY ConcatProperties
  <2> QED BY <2>1, ConcatProperties, LenProperties
<1> HIDE DEF m, n
<1>2. HitsIn(s, T) \in SUBSET (1..m) /\ HitsIn(t, T) \in SUBSET (1..n)
  BY <1>1 DEF HitsIn
<1>3. HitsIn(s \o t, T) = HitsIn(s, T) \cup H
  <2>1. ASSUME NEW i \in HitsIn(s \o t, T) PROVE i \in HitsIn(s, T) \cup H
    <3>1. i \in 1 .. m + n /\ (s \o t)[i] \in T
      BY <1>1 DEF HitsIn
    <3>2. CASE i <= m
      BY <1>1, <3>1, <3>2 DEF HitsIn
    <3>3. CASE ~(i <= m)
      <4>1. i - m \in 1..n /\ t[i - m] \in T /\ i = m + (i - m)
        BY <1>1, <3>1, <3>3
      <4>2. i - m \in HitsIn(t, T)
        BY <1>1, <4>1 DEF HitsIn
      <4> QED BY <4>1, <4>2
    <3> QED BY <3>2, <3>3
  <2>2. ASSUME NEW i \in HitsIn(s, T) PROVE i \in HitsIn(s \o t, T)
    <3>1. i \in 1..m /\ s[i] \in T /\ i \in 1 .. m + n /\ i <= m
      BY <1>1 DEF HitsIn
    <3> QED BY <1>1, <3>1 DEF HitsIn
  <2>3. ASSUME NEW i \in HitsIn(t, T) PROVE m + i \in HitsIn(s \o t, T)
    <3>1. i \in 1..n /\ t[i] \in T
      BY <1>1 DEF HitsIn
    <3>2. m + i \in 1 .. m + n /\ ~(m + i <= m) /\ (m + i) - m = i
      BY <1>1, <3>1
    <3> QED BY <1>1, <3>1, <3>2 DEF HitsIn
  <2> QED BY <2>1, <2>2, <2>3
<1>4. HitsIn(s, T) \cap H = {}
  BY <1>1, <1>2
<1>5. IsFiniteSet(H) /\ Cardinality(H) = Cardinality(HitsIn(t, T))
  <2>1. f \in [HitsIn(t, T) -> H]
    OBVIOUS
  <2>2. \A i, j \in HitsIn(t, T) : f[i] = f[j] => i = j
    BY <1>1, <1>2
  <2>3. \A h \in H : \E i \in HitsIn(t, T) : f[i] = h
    OBVIOUS
  <2> HIDE DEF f, H
  <2>4. f \in Bijection(HitsIn(t, T), H)
    BY <2>1, <2>2, <2>3, Fun_IsBij
  <2> QED BY <2>4, HitsAreFinite, FS_Bijection DEF ExistsBijection
<1>6. Cardinality(HitsIn(s, T) \cap H) = 0
  BY <1>4, FS_EmptySet
<1> HIDE DEF H
<1>7. /\ IsFiniteSet(HitsIn(s, T))
      /\ Cardinality(HitsIn(s, T)) \in Nat /\ Cardinality(HitsIn(t, T)) \in Nat
  BY HitsAreFinite
<1>8. Cardinality(HitsIn(s, T) \cup H)
        = Cardinality(HitsIn(s, T)) + Cardinality(H) - Cardinality(HitsIn(s, T) \cap H)
  BY <1>5, <1>7, FS_Union
<1> QED BY <1>3, <1>5, <1>6, <1>7, <1>8

LEMMA HitsOfOne ==
  ASSUME NEW e, NEW T
  PROVE  Cardinality(HitsIn(<<e>>, T)) = IF e \in T THEN 1 ELSE 0
<1>1. HitsIn(<<e>>, T) = IF e \in T THEN {1} ELSE {}
  BY DEF HitsIn
<1>2. CASE e \in T
  BY <1>1, <1>2, FS_Singleton
<1>3. CASE e \notin T
  BY <1>1, <1>3, FS_EmptySet
<1> QED BY <1>2, <1>3

LEMMA HitsOfAppend ==
  ASSUME NEW S, NEW s \in Seq(S), NEW e \in S, NEW T
  PROVE  Cardinality(HitsIn(Append(s, e), T))
           = Cardinality(HitsIn(s, T)) + (IF e \in T THEN 1 ELSE 0)
<1> DEFINE u == <<e>>
<1>1. Append(s, e) = s \o u /\ u \in Seq(S)
  BY AppendIsConcat
<1>2. Cardinality(HitsIn(u, T)) = IF e \in T THEN 1 ELSE 0
  BY HitsOfOne
<1> HIDE DEF u
<1>3. Cardinality(HitsIn(s \o u, T)) = Cardinality(HitsIn(s, T)) + Cardinality(HitsIn(u, T))
  BY <1>1, HitsOfConcat
<1> QED BY <1>1, <1>2, <1>3

(* Taking the first element takes its hit.                                 *)
LEMMA HitsOfTail ==
  ASSUME NEW S, NEW s \in Seq(S), s # <<>>, NEW T
  PROVE  Cardinality(HitsIn(s, T))
           = Cardinality(HitsIn(Tail(s), T)) + (IF Head(s) \in T THEN 1 ELSE 0)
<1>1. Head(s) \in S /\ Tail(s) \in Seq(S) /\ Len(Tail(s)) = Len(s) - 1
      /\ \A i \in 1 .. Len(Tail(s)) : Tail(s)[i] = s[i + 1]
  BY HeadTailProperties
<1>2. Len(s) \in Nat /\ Len(s) # 0 /\ Head(s) = s[1]
  BY EmptySeq
<1>3. <<Head(s)>> \in Seq(S) /\ Len(<<Head(s)>>) = 1
  BY <1>1
<1>4. s = <<Head(s)>> \o Tail(s)
  <2> DEFINE u == <<Head(s)>> \o Tail(s)
  <2>1. /\ u \in Seq(S) /\ Len(u) = 1 + Len(Tail(s))
        /\ \A i \in 1 .. 1 + Len(Tail(s)) :
             u[i] = IF i <= 1 THEN <<Head(s)>>[i] ELSE Tail(s)[i - 1]
    BY <1>1, <1>3, ConcatProperties
  <2>2. Len(u) = Len(s)
    BY <1>1, <1>2, <2>1
  <2>3. ASSUME NEW i \in 1..Len(s) PROVE s[i] = u[i]
    <3>1. CASE i = 1
      BY <1>1, <1>2, <2>1, <3>1
    <3>2. CASE i # 1
      <4>1. i - 1 \in 1 .. Len(Tail(s)) /\ ~(i <= 1) /\ (i - 1) + 1 = i
        BY <1>1, <1>2, <3>2
      <4> QED BY <1>1, <1>2, <2>1, <4>1
    <3> QED BY <3>1, <3>2
  <2> HIDE DEF u
  <2> QED BY <2>1, <2>2, <2>3, SeqEqual
<1> DEFINE u == <<Head(s)>>
           v == Tail(s)
<1>5. Cardinality(HitsIn(u, T)) = (IF Head(s) \in T THEN 1 ELSE 0) /\ s = u \o v
  BY <1>4, HitsOfOne
<1>6. u \in Seq(S) /\ v \in Seq(S)
  BY <1>1, <1>3
<1> HIDE DEF u, v
<1>7. /\ Cardinality(HitsIn(u \o v, T)) = Cardinality(HitsIn(u, T)) + Cardinality(HitsIn(v, T))
      /\ Cardinality(HitsIn(v, T)) \in Nat
  BY <1>6, HitsOfConcat, HitsAreFinite
<1>8. Cardinality(HitsIn(s, T)) = Cardinality(HitsIn(u, T)) + Cardinality(HitsIn(v, T))
  BY <1>5, <1>7
<1> QED BY <1>5, <1>7, <1>8 DEF v
-----------------------------------------------------------------------------
(* Flattening                                                              *)

(* f is what FlattenSeq computes for the first n sequences.                *)
Flattens(f, ss, n) == f = [i \in 1..n |-> IF i = 1 THEN ss[i] ELSE f[i - 1] \o ss[i]]

LEMMA FlatteningExists ==
  ASSUME NEW ss, NEW n \in Nat
  PROVE  \E f : Flattens(f, ss, n)
<1> DEFINE Bad == {k \in Nat : ~ \E f : Flattens(f, ss, k)}
<1>1. SUFFICES ASSUME Bad # {} PROVE FALSE
  OBVIOUS
<1>2. PICK m \in Bad : \A k \in Bad : m <= k
  <2>1. Bad \in SUBSET Nat
    OBVIOUS
  <2> HIDE DEF Bad
  <2> QED BY <1>1, <2>1, SetHasLeast
<1>3. CASE m = 0
  <2> DEFINE g == [i \in 1..0 |-> ss[i]]
  <2>1. Flattens(g, ss, 0)
    BY DEF Flattens
  <2> QED BY <1>2, <1>3, <2>1
<1>4. CASE m # 0
  <2>1. m \in Nat /\ m - 1 \in Nat /\ m - 1 \notin Bad
    BY <1>2, <1>4
  <2>2. PICK f : Flattens(f, ss, m - 1)
    BY <2>1
  <2> DEFINE g == [i \in 1..m |-> IF i <= m - 1 THEN f[i]
                                  ELSE IF i = 1 THEN ss[i] ELSE f[i - 1] \o ss[i]]
  <2>3. ASSUME NEW i \in 1..m
        PROVE  g[i] = IF i = 1 THEN ss[i] ELSE g[i - 1] \o ss[i]
    <3>1. CASE i <= m - 1
      <4>1. i \in 1 .. m - 1 /\ g[i] = f[i]
        BY <2>1, <3>1
      <4>2. f[i] = IF i = 1 THEN ss[i] ELSE f[i - 1] \o ss[i]
        BY <2>2, <4>1 DEF Flattens
      <4>3. i # 1 => g[i - 1] = f[i - 1]
        BY <2>1, <3>1
      <4> HIDE DEF g
      <4> QED BY <4>1, <4>2, <4>3
    <3>2. CASE ~(i <= m - 1)
      <4>1. g[i] = IF i = 1 THEN ss[i] ELSE f[i - 1] \o ss[i]
        BY <3>2
      <4>2. i # 1 => g[i - 1] = f[i - 1]
        BY <2>1, <3>2
      <4> HIDE DEF g
      <4> QED BY <4>1, <4>2
    <3> QED BY <3>1, <3>2
  <2>4. g = [i \in 1..m |-> g[i]]
    OBVIOUS
  <2> HIDE DEF g
  <2>5. Flattens(g, ss, m)
    BY <2>3, <2>4 DEF Flattens
  <2> QED BY <1>2, <2>5
<1> QED BY <1>3, <1>4

(* Every step of flattening gives a sequence, and the last one the result. *)
LEMMA FlattenSteps ==
  ASSUME NEW S, NEW ss \in Seq(Seq(S)), ss # <<>>
  PROVE  \E f : /\ FlattenSeq(ss) = f[Len(ss)]
                /\ f[1] = ss[1]
                /\ \A i \in 2..Len(ss) : f[i] = f[i - 1] \o ss[i]
                /\ \A i \in 1..Len(ss) : f[i] \in Seq(S)
<1> DEFINE n == Len(ss)
           f == CHOOSE f : f = [i \in 1..n |-> IF i = 1 THEN ss[i] ELSE f[i - 1] \o ss[i]]
<1>1. n \in Nat /\ n # 0 /\ \A i \in 1..n : ss[i] \in Seq(S)
  BY EmptySeq, ElementOfSeq
<1>2. FlattenSeq(ss) = f[n]
  BY <1>1 DEF FlattenSeq
<1>3. f = [i \in 1..n |-> IF i = 1 THEN ss[i] ELSE f[i - 1] \o ss[i]]
  <2>1. \E g : g = [i \in 1..n |-> IF i = 1 THEN ss[i] ELSE g[i - 1] \o ss[i]]
    BY <1>1, FlatteningExists DEF Flattens
  <2> QED BY <2>1
<1> HIDE DEF f, n
<1>4. f[1] = ss[1] /\ \A i \in 2..n : f[i] = f[i - 1] \o ss[i]
  <2>1. \A i \in 1..n : f[i] = IF i = 1 THEN ss[i] ELSE f[i - 1] \o ss[i]
    BY <1>3
  <2>2. 1 \in 1..n /\ \A i \in 2..n : i \in 1..n /\ i # 1
    BY <1>1
  <2> QED BY <2>1, <2>2
<1>5. ASSUME NEW j \in 1..n PROVE f[j] \in Seq(S)
  <2> DEFINE Bad == {i \in 1..n : f[i] \notin Seq(S)}
  <2>1. SUFFICES ASSUME Bad # {} PROVE FALSE
    OBVIOUS
  <2>2. PICK m \in Bad : \A k \in Bad : m <= k
    <3>1. Bad \in SUBSET Nat
      OBVIOUS
    <3> HIDE DEF Bad
    <3> QED BY <2>1, <3>1, SetHasLeast
  <2>3. m \in 1..n /\ f[m] \notin Seq(S)
    BY <2>2
  <2>4. m # 1
    BY <1>1, <1>4, <2>3
  <2>5. m - 1 \in 1..n /\ m \in 2..n /\ ~(m <= m - 1)
    BY <1>1, <2>3, <2>4
  <2>6. f[m - 1] \in Seq(S)
    BY <2>2, <2>5
  <2>7. f[m] = f[m - 1] \o ss[m]
    BY <1>4, <2>5
  <2>8. f[m - 1] \o ss[m] \in Seq(S)
    BY <1>1, <2>3, <2>6, ConcatProperties
  <2> QED BY <2>3, <2>7, <2>8
<1> QED BY <1>2, <1>4, <1>5 DEF n

LEMMA FlattenType ==
  ASSUME NEW S, NEW ss \in Seq(Seq(S))
  PROVE  FlattenSeq(ss) \in Seq(S)
<1>1. CASE ss = <<>>
  <2>1. Len(ss) = 0
    BY <1>1
  <2> QED BY <1>1, <2>1 DEF FlattenSeq
<1>2. CASE ss # <<>>
  <2>1. Len(ss) \in 1..Len(ss)
    BY <1>2, EmptySeq
  <2> QED BY <1>2, <2>1, FlattenSteps
<1> QED BY <1>1, <1>2

(* If only one of the sequences hits, the flat one hits as often.          *)
LEMMA HitsOfFlatten ==
  ASSUME NEW S, NEW ss \in Seq(Seq(S)), NEW T, NEW n \in 1..Len(ss),
         \A m \in 1..Len(ss) : m # n => HitsIn(ss[m], T) = {}
  PROVE  Cardinality(HitsIn(FlattenSeq(ss), T)) = Cardinality(HitsIn(ss[n], T))
<1> DEFINE last == Len(ss)
           hits(i) == IF i < n THEN 0 ELSE Cardinality(HitsIn(ss[n], T))
<1>1. last \in Nat /\ n \in 1..last /\ \A i \in 1..last : ss[i] \in Seq(S)
  BY LenProperties, ElementOfSeq
<1>2. ss # <<>>
  BY <1>1, EmptySeq
<1>3. PICK f : /\ FlattenSeq(ss) = f[last]
               /\ f[1] = ss[1]
               /\ \A i \in 2..last : f[i] = f[i - 1] \o ss[i]
               /\ \A i \in 1..last : f[i] \in Seq(S)
  BY <1>2, FlattenSteps
<1>4. \A i \in 1..last : i # n => Cardinality(HitsIn(ss[i], T)) = 0
  BY FS_EmptySet
<1> HIDE DEF last
<1>5. ASSUME NEW j \in 1..last PROVE Cardinality(HitsIn(f[j], T)) = hits(j)
  <2> DEFINE Bad == {i \in 1..last : Cardinality(HitsIn(f[i], T)) # hits(i)}
  <2>1. SUFFICES ASSUME Bad # {} PROVE FALSE
    OBVIOUS
  <2>2. PICK m \in Bad : \A k \in Bad : m <= k
    <3>1. Bad \in SUBSET Nat
      OBVIOUS
    <3> HIDE DEF Bad
    <3> QED BY <2>1, <3>1, SetHasLeast
  <2>3. m \in 1..last /\ Cardinality(HitsIn(f[m], T)) # hits(m)
    BY <2>2
  <2>4. CASE m = 1
    <3>1. CASE n = 1
      BY <1>3, <2>3, <2>4, <3>1
    <3>2. CASE n # 1
      <4>1. 1 < n
        BY <1>1, <3>2
      <4>2. Cardinality(HitsIn(ss[1], T)) = 0
        BY <1>1, <1>4, <2>3, <2>4, <3>2
      <4> QED BY <1>3, <2>3, <2>4, <4>1, <4>2
    <3> QED BY <3>1, <3>2
  <2>5. CASE m # 1
    <3>1. m - 1 \in 1..last /\ m \in 2..last /\ ~(m <= m - 1)
      BY <1>1, <2>3, <2>5
    <3>2. Cardinality(HitsIn(f[m - 1], T)) = hits(m - 1)
      BY <2>2, <3>1
    <3>3. f[m] = f[m - 1] \o ss[m] /\ f[m - 1] \in Seq(S) /\ ss[m] \in Seq(S)
      BY <1>1, <1>3, <2>3, <3>1
    <3>4. Cardinality(HitsIn(f[m], T))
            = Cardinality(HitsIn(f[m - 1], T)) + Cardinality(HitsIn(ss[m], T))
      BY <3>3, HitsOfConcat
    <3>5. Cardinality(HitsIn(ss[n], T)) \in Nat
      BY <1>1, HitsAreFinite
    <3>6. CASE m = n
      <4>1. m - 1 < n /\ ~(m < n)
        BY <1>1, <3>6
      <4> QED BY <2>3, <3>2, <3>4, <3>5, <3>6, <4>1
    <3>7. CASE m # n
      <4>1. Cardinality(HitsIn(ss[m], T)) = 0
        BY <1>4, <2>3, <3>7
      <4>2. m - 1 < n <=> m < n
        BY <1>1, <2>3, <3>7
      <4> QED BY <2>3, <3>2, <3>4, <3>5, <4>1, <4>2
    <3> QED BY <3>6, <3>7
  <2> QED BY <2>4, <2>5
<1>6. last \in 1..last /\ ~(last < n)
  BY <1>1
<1> QED BY <1>3, <1>5, <1>6
-----------------------------------------------------------------------------
(* A selection hits as often as the positions that it takes do.            *)
LEMMA HitsOfSelection ==
  ASSUME NEW S, NEW s \in Seq(S), NEW P \in SUBSET (DOMAIN s), NEW T
  PROVE  Cardinality(HitsIn(ElementsAt(s, P), T)) = Cardinality(HitsIn(s, T) \cap P)
<1> DEFINE e == ElementsAt(s, P)
           n == Cardinality(P)
<1>1. PICK at \in [1..n -> P] :
        /\ n \in Nat
        /\ \A k, l \in 1..n : k < l => at[k] < at[l]
        /\ \A i \in P : \E k \in 1..n : at[k] = i
        /\ e \in Seq(S)
        /\ DOMAIN e = 1..n
        /\ \A k \in 1..n : e[k] = s[at[k]]
  <2>1. PICK at : SelectedFrom(at, S, s, P)
    BY ElementsAtProperties
  <2> QED BY <2>1 DEF SelectedFrom
<1>2. P \in SUBSET Nat
  BY LenProperties
<1> HIDE DEF e, n
<1> DEFINE H == HitsIn(e, T)
           G == HitsIn(s, T) \cap P
           f == [k \in H |-> at[k]]
<1>3. \A k \in H : k \in 1..n /\ at[k] \in G
  BY <1>1 DEF HitsIn
<1>4. f \in [H -> G]
  BY <1>3
<1>5. \A k, l \in H : f[k] = f[l] => k = l
  <2>1. ASSUME NEW k \in H, NEW l \in H, at[k] = at[l] PROVE k = l
    <3>1. k \in 1..n /\ l \in 1..n /\ at[k] \in Nat /\ at[l] \in Nat /\ k \in Nat /\ l \in Nat
      BY <1>1, <1>2, <1>3
    <3>2. ~(k < l) /\ ~(l < k)
      BY <1>1, <2>1, <3>1
    <3> QED BY <3>1, <3>2
  <2> QED BY <2>1
<1>6. \A g \in G : \E k \in H : f[k] = g
  <2>1. ASSUME NEW g \in G PROVE \E k \in H : at[k] = g
    <3>1. g \in P /\ s[g] \in T
      BY DEF HitsIn
    <3>2. PICK k \in 1..n : at[k] = g
      BY <1>1, <3>1
    <3>3. k \in H
      BY <1>1, <3>1, <3>2 DEF HitsIn
    <3> QED BY <3>2, <3>3
  <2> QED BY <2>1
<1>7. IsFiniteSet(H)
  BY <1>1, HitsAreFinite
<1> HIDE DEF f, H, G
<1>8. f \in Bijection(H, G)
  BY <1>4, <1>5, <1>6, Fun_IsBij
<1>9. Cardinality(G) = Cardinality(H)
  BY <1>7, <1>8, FS_Bijection DEF ExistsBijection
<1> QED BY <1>9 DEF H, G, e
=============================================================================
