------------------------ MODULE ResourceBudgetProofs ------------------------
(***************************************************************************)
(* Proofs about ResourceBudget for any number of threads, any counters and *)
(* limits, and machine words of any width.                                 *)
(***************************************************************************)
EXTENDS ResourceBudget, TLAPS

(* A thread about to exchange has computed a sum that keeps the limit.     *)
InFlightFits ==
  \A t \in Threads : pc[t] = "cas" => seen[t] + amount[t] <= Limit[counter[t]]

(* The reasons for which a doomed call must fail do not go away.           *)
DoomStands == \A t \in Threads : doomed[t] => Stopped(t)

IInv ==
  /\ TypeOK
  /\ GrantsWithinLimit
  /\ RefusalIsFinal
  /\ InFlightFits
  /\ DoomStands
  /\ NoGrantOnceStopped

LEMMA InitIInv == Init => IInv
<1> SUFFICES ASSUME Init PROVE IInv
  OBVIOUS
<1>1. \A c \in Counters : Limit[c] \in 0..MaxU64
  BY BudgetAssumption
<1>2. TypeOK
  <2>1. 0 \in 0..MaxU64 /\ Decoded \in Counters /\ \A c \in Counters : 0 <= Limit[c]
    BY <1>1, BudgetAssumption
  <2>2. /\ used \in [Counters -> Nat] /\ granted \in [Counters -> Nat]
        /\ \A c \in Counters : used[c] <= Limit[c]
        /\ refused \in [Counters -> SUBSET (0..MaxU64)]
    BY <2>1 DEF Init
  <2>3. /\ pc \in [Threads -> Places] /\ counter \in [Threads -> Counters]
        /\ amount \in [Threads -> 0..MaxU64] /\ seen \in [Threads -> 0..MaxU64]
        /\ doomed \in [Threads -> BOOLEAN]
    BY <2>1 DEF Init, Places
  <2> QED BY <2>2, <2>3 DEF Init, TypeOK
<1>3. GrantsWithinLimit /\ RefusalIsFinal
  BY <1>1, BudgetAssumption DEF Init, GrantsWithinLimit, RefusalIsFinal
<1>4. InFlightFits /\ DoomStands /\ NoGrantOnceStopped
  BY DEF Init, InFlightFits, DoomStands, NoGrantOnceStopped
<1> QED BY <1>2, <1>3, <1>4 DEF IInv

(* Steps that touch neither counters nor refusals, in which every thread   *)
(* but t stays where it is.                                                *)
Quiet(t) ==
  /\ UNCHANGED <<shared, granted, refused>>
  /\ \E place \in Places : pc' = [pc EXCEPT ![t] = place]
  /\ \E c \in Counters : counter' = [counter EXCEPT ![t] = c]
  /\ \E n \in 0..MaxU64 : amount' = [amount EXCEPT ![t] = n]
  /\ \E n \in 0..MaxU64 : seen' = [seen EXCEPT ![t] = n]
  /\ \E b \in BOOLEAN : doomed' = [doomed EXCEPT ![t] = b]
  /\ pc'[t] # "cas"
  /\ pc'[t] = "load" => ~doomed'[t]
  /\ doomed'[t] => Stopped(t)

LEMMA QuietKeepsIInv ==
  ASSUME IInv, NEW t \in Threads, Quiet(t)
  PROVE  IInv'
<1>1. /\ used' = used /\ cancelled' = cancelled /\ seesCancel' = seesCancel
      /\ expired' = expired /\ granted' = granted /\ refused' = refused
  BY DEF Quiet, shared
<1>2. TypeOK'
  BY <1>1 DEF IInv, TypeOK, Quiet
<1>3. GrantsWithinLimit' /\ RefusalIsFinal'
  BY <1>1 DEF IInv, GrantsWithinLimit, RefusalIsFinal
<1>4. ASSUME NEW u \in Threads, u # t
      PROVE  /\ pc'[u] = pc[u] /\ counter'[u] = counter[u] /\ seen'[u] = seen[u]
             /\ amount'[u] = amount[u] /\ doomed'[u] = doomed[u]
  BY <1>4 DEF Quiet, IInv, TypeOK
<1>5. InFlightFits'
  BY <1>4 DEF IInv, InFlightFits, Quiet
<1>6. DoomStands'
  BY <1>1, <1>4 DEF IInv, DoomStands, Stopped, Quiet
<1>7. NoGrantOnceStopped'
  BY <1>4 DEF IInv, NoGrantOnceStopped, Quiet
<1> QED BY <1>2, <1>3, <1>5, <1>6, <1>7 DEF IInv

LEMMA ReturnIsQuiet ==
  ASSUME IInv, NEW t \in Threads, Return(t), UNCHANGED <<shared, granted, refused>>
  PROVE  Quiet(t)
<1>1. /\ pc' = [pc EXCEPT ![t] = "idle"] /\ "idle" \in Places
      /\ counter' = [counter EXCEPT ![t] = Decoded] /\ Decoded \in Counters
      /\ amount' = [amount EXCEPT ![t] = 0] /\ 0 \in 0..MaxU64
      /\ seen' = [seen EXCEPT ![t] = 0]
      /\ doomed' = [doomed EXCEPT ![t] = FALSE]
  BY BudgetAssumption DEF Return, Goto, Places
<1>2. pc'[t] = "idle" /\ ~doomed'[t]
  BY <1>1 DEF IInv, TypeOK
<1> QED BY <1>1, <1>2 DEF Quiet

LEMMA CallIsQuiet ==
  ASSUME IInv, NEW t \in Threads,
         Consume(t) \/ ConsumeDecoded(t) \/ DecodeStream(t)
  PROVE  Quiet(t)
<1>1. PICK place \in {"check", "guard", "admit"}, c \in Counters, n \in 0..MaxU64 :
        Call(t, place, c, n)
  BY BudgetAssumption DEF Consume, ConsumeDecoded, DecodeStream
<1>2. /\ UNCHANGED <<shared, granted, refused>>
      /\ pc' = [pc EXCEPT ![t] = place] /\ place \in Places
      /\ counter' = [counter EXCEPT ![t] = c]
      /\ amount' = [amount EXCEPT ![t] = n]
      /\ doomed' = [doomed EXCEPT ![t] = t \in seesCancel \/ expired]
      /\ seen' = [seen EXCEPT ![t] = seen[t]]
  BY <1>1 DEF Call, Goto, shared, Places, IInv, TypeOK
<1>3. pc'[t] = place /\ place \notin {"cas", "load"}
  BY <1>2 DEF IInv, TypeOK
<1>4. seen[t] \in 0..MaxU64 /\ (t \in seesCancel \/ expired) \in BOOLEAN
  BY DEF IInv, TypeOK
<1>5. doomed'[t] => Stopped(t)
  BY <1>2 DEF Stopped, IInv, TypeOK
<1> QED BY <1>2, <1>3, <1>4, <1>5 DEF Quiet

(* Before the counter: admission, peek, decoding, guard and check.         *)
LEMMA ApproachIsQuiet ==
  ASSUME IInv, NEW t \in Threads,
         Admit(t) \/ Peek(t) \/ Decode(t) \/ Guard(t) \/ Check(t)
  PROVE  Quiet(t)
<1>1. CASE Return(t) /\ UNCHANGED <<shared, granted, refused>>
  BY <1>1, ReturnIsQuiet
<1>2. CASE Stop(t)
  BY <1>1, <1>2 DEF Stop
<1>3. ASSUME NEW place \in {"peek", "decode", "guard", "check", "load"},
             NEW n \in 0..MaxU64,
             place = "load" => ~Stopped(t),
             Goto(t, place), amount' = [amount EXCEPT ![t] = n],
             UNCHANGED <<shared, counter, seen, history>>
      PROVE  Quiet(t)
  <2>1. /\ UNCHANGED <<granted, refused, doomed, counter, seen, shared>>
        /\ pc' = [pc EXCEPT ![t] = place] /\ pc'[t] = place /\ place \in Places
    BY <1>3 DEF history, Goto, IInv, TypeOK, Places
  <2>2. /\ counter' = [counter EXCEPT ![t] = counter[t]] /\ counter[t] \in Counters
        /\ seen' = [seen EXCEPT ![t] = seen[t]] /\ seen[t] \in 0..MaxU64
        /\ doomed' = [doomed EXCEPT ![t] = doomed[t]] /\ doomed[t] \in BOOLEAN
    BY <2>1 DEF IInv, TypeOK
  <2>3. doomed'[t] => Stopped(t)
    BY <2>1 DEF IInv, DoomStands
  <2> QED BY <1>3, <2>1, <2>2, <2>3 DEF Quiet
<1>4. amount' = amount =>
        amount' = [amount EXCEPT ![t] = amount[t]] /\ amount[t] \in 0..MaxU64
  BY DEF IInv, TypeOK
<1>5. CASE Admit(t)
  BY <1>2, <1>3, <1>4, <1>5, BudgetAssumption DEF Admit
<1>6. CASE Peek(t)
  <2> DEFINE most == IF Remaining < PerStream THEN Remaining ELSE PerStream
  <2>1. most \in 0..MaxU64
    BY BudgetAssumption DEF Remaining, IInv, TypeOK
  <2> HIDE DEF most
  <2> QED BY <1>3, <1>6, <2>1 DEF Peek, most
<1>7. CASE Decode(t)
  BY <1>1, <1>3, <1>7, BudgetAssumption DEF Decode
<1>8. CASE Guard(t)
  BY <1>1, <1>2, <1>3, <1>4, <1>8 DEF Guard
<1>9. CASE Check(t)
  BY <1>2, <1>3, <1>4, <1>9 DEF Check
<1> QED BY <1>5, <1>6, <1>7, <1>8, <1>9

LEMMA LoadKeepsIInv ==
  ASSUME IInv, NEW t \in Threads, Load(t)
  PROVE  IInv'
<1> DEFINE c == counter[t]
           n == amount[t]
<1>1. c \in Counters /\ n \in 0..MaxU64 /\ used[c] \in Nat /\ pc[t] = "load"
      /\ Limit[c] \in 0..MaxU64 /\ used[c] <= Limit[c]
  BY BudgetAssumption DEF IInv, TypeOK, Load
<1>2. CASE Exceeds(used[c], n, c) /\ Refuse(t)
  <2>1. /\ Return(t) /\ UNCHANGED <<shared, granted>>
        /\ refused' = [refused EXCEPT ![c] = @ \cup {n}]
    BY <1>2 DEF Refuse
  <2>2. used[c] + n > Limit[c]
    BY <1>1, <1>2, BudgetAssumption DEF Exceeds
  <2>3. /\ used' = used /\ cancelled' = cancelled /\ seesCancel' = seesCancel
        /\ expired' = expired /\ granted' = granted
    BY <2>1 DEF shared
  <2>4. /\ pc' = [pc EXCEPT ![t] = "idle"] /\ counter' = [counter EXCEPT ![t] = Decoded]
        /\ amount' = [amount EXCEPT ![t] = 0] /\ seen' = [seen EXCEPT ![t] = 0]
        /\ doomed' = [doomed EXCEPT ![t] = FALSE]
    BY <2>1 DEF Return, Goto
  <2> HIDE DEF c, n
  <2>5. refused' \in [Counters -> SUBSET (0..MaxU64)]
    BY <1>1, <2>1 DEF IInv, TypeOK
  <2>6. TypeOK'
    BY <2>3, <2>4, <2>5, BudgetAssumption DEF IInv, TypeOK, Places
  <2>7. GrantsWithinLimit'
    BY <2>3 DEF IInv, GrantsWithinLimit
  <2>8. RefusalIsFinal'
    <3>1. ASSUME NEW d \in Counters, NEW m \in refused'[d]
          PROVE  used'[d] + m > Limit[d]
      <4>1. m \in refused[d] \/ (d = c /\ m = n)
        BY <1>1, <2>1 DEF IInv, TypeOK
      <4> QED BY <2>2, <2>3, <4>1 DEF IInv, RefusalIsFinal
    <3> QED BY <3>1 DEF RefusalIsFinal
  <2>9. InFlightFits' /\ DoomStands' /\ NoGrantOnceStopped'
    BY <2>3, <2>4 DEF IInv, TypeOK, InFlightFits, DoomStands, Stopped,
                      NoGrantOnceStopped
  <2> QED BY <2>6, <2>7, <2>8, <2>9 DEF IInv
<1>3. CASE /\ ~Exceeds(used[c], n, c)
           /\ seen' = [seen EXCEPT ![t] = used[c]]
           /\ Goto(t, "cas")
           /\ UNCHANGED <<shared, counter, amount, history>>
  <2>1. used[c] + n <= Limit[c]
    BY <1>1, <1>3 DEF Exceeds
  <2>2. used[c] \in 0..MaxU64
    BY <1>1, BudgetAssumption
  <2>3. /\ used' = used /\ cancelled' = cancelled /\ seesCancel' = seesCancel
        /\ expired' = expired /\ granted' = granted /\ refused' = refused
        /\ doomed' = doomed /\ counter' = counter /\ amount' = amount
        /\ pc' = [pc EXCEPT ![t] = "cas"] /\ seen' = [seen EXCEPT ![t] = used[c]]
    BY <1>3 DEF shared, history, Goto
  <2>4. TypeOK'
    BY <2>2, <2>3 DEF IInv, TypeOK, Places
  <2>5. GrantsWithinLimit' /\ RefusalIsFinal' /\ DoomStands'
    BY <2>3 DEF IInv, GrantsWithinLimit, RefusalIsFinal, DoomStands, Stopped
  <2>6. InFlightFits'
    <3>1. ASSUME NEW u \in Threads, pc'[u] = "cas"
          PROVE  seen'[u] + amount'[u] <= Limit[counter'[u]]
      <4>1. CASE u = t
        BY <2>1, <2>3, <4>1 DEF IInv, TypeOK
      <4>2. CASE u # t
        BY <2>3, <3>1, <4>2 DEF IInv, TypeOK, InFlightFits
      <4> QED BY <4>1, <4>2
    <3> QED BY <3>1 DEF InFlightFits
  <2>7. NoGrantOnceStopped'
    BY <1>1, <2>3 DEF IInv, TypeOK, NoGrantOnceStopped
  <2> QED BY <2>4, <2>5, <2>6, <2>7 DEF IInv
<1> QED BY <1>2, <1>3 DEF Load

LEMMA NoWrap ==
  ASSUME NEW m \in Nat, NEW k \in 0..m
  PROVE  k % (m + 1) = k
OBVIOUS

LEMMA ExchangeKeepsIInv ==
  ASSUME IInv, NEW t \in Threads, CompareExchange(t)
  PROVE  IInv'
<1> DEFINE c == counter[t]
           n == amount[t]
<1>1. c \in Counters /\ n \in 0..MaxU64 /\ used[c] \in Nat /\ pc[t] = "cas"
      /\ Limit[c] \in 0..MaxU64 /\ MaxU64 \in Nat
  BY BudgetAssumption DEF IInv, TypeOK, CompareExchange
<1>2. CASE used[c] = seen[t] /\ Grant(t)
  <2>1. used[c] + n <= Limit[c]
    BY <1>1, <1>2 DEF IInv, InFlightFits
  <2>2. (seen[t] + n) % (MaxU64 + 1) = used[c] + n
    <3>1. seen[t] + n = used[c] + n /\ used[c] + n \in 0..MaxU64
      BY <1>1, <1>2, <2>1
    <3> QED BY <1>1, <3>1, NoWrap
  <2>3. /\ used' = [used EXCEPT ![c] = used[c] + n]
        /\ granted' = [granted EXCEPT ![c] = @ + n]
        /\ cancelled' = cancelled /\ seesCancel' = seesCancel
        /\ expired' = expired /\ refused' = refused
    BY <1>2, <2>2 DEF Grant
  <2>4. /\ pc' = [pc EXCEPT ![t] = "idle"] /\ counter' = [counter EXCEPT ![t] = Decoded]
        /\ amount' = [amount EXCEPT ![t] = 0] /\ seen' = [seen EXCEPT ![t] = 0]
        /\ doomed' = [doomed EXCEPT ![t] = FALSE]
    BY <1>2 DEF Grant, Return, Goto
  <2> HIDE DEF c, n
  <2>5. /\ used' \in [Counters -> Nat] /\ \A d \in Counters : used'[d] <= Limit[d]
        /\ granted' \in [Counters -> Nat]
    BY <1>1, <2>1, <2>3 DEF IInv, TypeOK
  <2>6. TypeOK'
    BY <2>3, <2>4, <2>5, BudgetAssumption DEF IInv, TypeOK, Places
  <2>7. GrantsWithinLimit'
    <3>1. ASSUME NEW d \in Counters
          PROVE  granted'[d] = used'[d] /\ granted'[d] <= Limit[d]
      BY <1>1, <2>1, <2>3 DEF IInv, TypeOK, GrantsWithinLimit
    <3> QED BY <3>1 DEF GrantsWithinLimit
  <2>8. RefusalIsFinal'
    <3>1. ASSUME NEW d \in Counters, NEW m \in refused'[d]
          PROVE  used'[d] + m > Limit[d]
      <4>1. used[d] + m > Limit[d] /\ m \in 0..MaxU64
        BY <2>3 DEF IInv, TypeOK, RefusalIsFinal
      <4>2. used'[d] >= used[d] /\ used'[d] \in Nat /\ used[d] \in Nat
        BY <1>1, <2>3 DEF IInv, TypeOK
      <4>3. Limit[d] \in Nat
        BY BudgetAssumption
      <4> QED BY <4>1, <4>2, <4>3
    <3> QED BY <3>1 DEF RefusalIsFinal
  <2>9. InFlightFits' /\ DoomStands' /\ NoGrantOnceStopped'
    BY <2>3, <2>4 DEF IInv, TypeOK, InFlightFits, DoomStands, Stopped,
                      NoGrantOnceStopped
  <2> QED BY <2>6, <2>7, <2>8, <2>9 DEF IInv
<1>3. CASE Goto(t, "load") /\ UNCHANGED <<shared, counter, amount, seen, history>>
  <2>1. /\ UNCHANGED <<shared, granted, refused, counter, amount, seen, doomed>>
        /\ pc' = [pc EXCEPT ![t] = "load"] /\ "load" \in Places /\ pc'[t] = "load"
    BY <1>3 DEF Goto, history, Places, IInv, TypeOK
  <2>2. /\ counter' = [counter EXCEPT ![t] = counter[t]] /\ counter[t] \in Counters
        /\ amount' = [amount EXCEPT ![t] = amount[t]] /\ amount[t] \in 0..MaxU64
        /\ seen' = [seen EXCEPT ![t] = seen[t]] /\ seen[t] \in 0..MaxU64
        /\ doomed' = [doomed EXCEPT ![t] = doomed[t]] /\ doomed[t] \in BOOLEAN
    BY <2>1 DEF IInv, TypeOK
  <2>3. ~doomed'[t]
    BY <1>1, <2>1 DEF IInv, NoGrantOnceStopped
  <2>4. Quiet(t)
    BY <2>1, <2>2, <2>3 DEF Quiet
  <2> QED BY <2>4, QuietKeepsIInv
<1> QED BY <1>2, <1>3 DEF CompareExchange

LEMMA IInvStep ==
  ASSUME IInv, [Next]_vars
  PROVE  IInv'
<1>1. CASE Cancel \/ Expire
  BY <1>1 DEF Cancel, Expire, IInv, TypeOK, GrantsWithinLimit, RefusalIsFinal,
              InFlightFits, DoomStands, NoGrantOnceStopped, Stopped, local, history
<1>2. ASSUME NEW t \in Threads, Observe(t)
      PROVE  IInv'
  BY <1>2 DEF Observe, IInv, TypeOK, GrantsWithinLimit, RefusalIsFinal,
              InFlightFits, DoomStands, NoGrantOnceStopped, Stopped, local, history
<1>3. ASSUME NEW t \in Threads, Consume(t) \/ ConsumeDecoded(t) \/ DecodeStream(t)
      PROVE  IInv'
  BY <1>3, CallIsQuiet, QuietKeepsIInv
<1>4. ASSUME NEW t \in Threads, Continue(t)
      PROVE  IInv'
  BY <1>4, ApproachIsQuiet, QuietKeepsIInv, LoadKeepsIInv, ExchangeKeepsIInv
  DEF Continue
<1>5. CASE UNCHANGED vars
  BY <1>5 DEF vars, IInv, TypeOK, GrantsWithinLimit, RefusalIsFinal,
              InFlightFits, DoomStands, NoGrantOnceStopped, Stopped
<1> QED BY <1>1, <1>2, <1>3, <1>4, <1>5 DEF Next

LEMMA IInvInvariant == Spec => []IInv
BY InitIInv, IInvStep, PTL DEF Spec

(* Types, and no counter beyond its limit.                                 *)
THEOREM TypesHold == Spec => []TypeOK
<1>1. IInv => TypeOK
  BY DEF IInv
<1> QED BY <1>1, IInvInvariant, PTL

(* Any number of threads, any interleaving: the counters are exactly what  *)
(* was granted and keep the limits.                                        *)
THEOREM NoLostGrant == Spec => []GrantsWithinLimit
<1>1. IInv => GrantsWithinLimit
  BY DEF IInv
<1> QED BY <1>1, IInvInvariant, PTL

(* What a limit has refused once it refuses for ever.                      *)
THEOREM RefusalsStand == Spec => []RefusalIsFinal
<1>1. IInv => RefusalIsFinal
  BY DEF IInv
<1> QED BY <1>1, IInvInvariant, PTL

(* A call that had to fail when it began never reaches the counter.        *)
THEOREM DoomedCallsStop == Spec => []NoGrantOnceStopped
<1>1. IInv => NoGrantOnceStopped
  BY DEF IInv
<1> QED BY <1>1, IInvInvariant, PTL
-----------------------------------------------------------------------------
(* Refinement: a grant and a refusal are the only steps SharedQuota sees.  *)

LEMMA QuotaStep ==
  ASSUME IInv, [Next]_vars
  PROVE  [Quota!Next]_Quota!vars
<1>1. CASE UNCHANGED <<used, refused>>
  BY <1>1 DEF Quota!vars
<1>2. ASSUME NEW t \in Threads, Load(t)
      PROVE  [Quota!Next]_Quota!vars
  <2>1. counter[t] \in Counters /\ amount[t] \in 0..MaxU64
    BY DEF IInv, TypeOK
  <2>2. CASE Exceeds(used[counter[t]], amount[t], counter[t]) /\ Refuse(t)
    <3>1. used[counter[t]] + amount[t] > Limit[counter[t]]
      <4>1. used[counter[t]] \in Nat /\ Limit[counter[t]] \in 0..MaxU64
        BY <2>1, BudgetAssumption DEF IInv, TypeOK
      <4> QED BY <2>1, <2>2, <4>1, BudgetAssumption DEF Exceeds
    <3>2. Quota!Refuse(counter[t], amount[t])
      BY <2>2, <3>1 DEF Refuse, Quota!Refuse, shared
    <3> QED BY <2>1, <3>2 DEF Quota!Next
  <2>3. CASE UNCHANGED <<shared, counter, amount, history>>
    BY <1>1, <2>3 DEF shared, history
  <2> QED BY <1>2, <2>2, <2>3 DEF Load
<1>3. ASSUME NEW t \in Threads, CompareExchange(t)
      PROVE  [Quota!Next]_Quota!vars
  <2>1. /\ counter[t] \in Counters /\ amount[t] \in 0..MaxU64 /\ pc[t] = "cas"
        /\ used[counter[t]] \in Nat /\ Limit[counter[t]] \in 0..MaxU64
    BY <1>3, BudgetAssumption DEF IInv, TypeOK, CompareExchange
  <2>2. CASE used[counter[t]] = seen[t] /\ Grant(t)
    <3>1. used[counter[t]] + amount[t] <= Limit[counter[t]]
      BY <2>1, <2>2 DEF IInv, InFlightFits
    <3>2. (seen[t] + amount[t]) % (MaxU64 + 1) = used[counter[t]] + amount[t]
      BY <2>1, <2>2, <3>1, BudgetAssumption
    <3>3. Quota!Grant(counter[t], amount[t])
      BY <2>2, <3>1, <3>2 DEF Grant, Quota!Grant
    <3> QED BY <2>1, <3>3 DEF Quota!Next
  <2>3. CASE UNCHANGED <<shared, counter, amount, seen, history>>
    BY <1>1, <2>3 DEF shared, history
  <2> QED BY <1>3, <2>2, <2>3 DEF CompareExchange
<1>4. ASSUME NEW t \in Threads,
             \/ Consume(t) \/ ConsumeDecoded(t) \/ DecodeStream(t)
             \/ Admit(t) \/ Peek(t) \/ Decode(t) \/ Guard(t) \/ Check(t)
      PROVE  [Quota!Next]_Quota!vars
  BY <1>1, <1>4, CallIsQuiet, ApproachIsQuiet DEF Quiet, shared
<1>5. CASE Cancel \/ Expire \/ \E t \in Threads : Observe(t)
  BY <1>1, <1>5 DEF Cancel, Expire, Observe, history
<1>6. CASE UNCHANGED vars
  BY <1>1, <1>6 DEF vars
<1> QED BY <1>2, <1>3, <1>4, <1>5, <1>6 DEF Next, Continue

(* The lock-free budget implements the atomic quota.                       *)
THEOREM Refinement == Spec => ImplementsQuota
<1>1. Init => Quota!Init
  BY DEF Init, Quota!Init
<1>2. IInv /\ [Next]_vars => [Quota!Next]_Quota!vars
  BY QuotaStep
<1> QED BY <1>1, <1>2, IInvInvariant, PTL DEF Spec, ImplementsQuota, Quota!Spec
=============================================================================
