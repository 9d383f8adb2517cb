--------------------------- MODULE ResourceBudget ---------------------------
(***************************************************************************)
(* The resource budget that every parser, resolver and decoder of one      *)
(* limits object shares: atomic counters that are raised by a load and a   *)
(* compare-and-exchange, a cancellation flag and a deadline.               *)
(*                                                                         *)
(* Each thread runs one call at a time; a step is one access to shared     *)
(* state. The flag is stored and loaded with relaxed ordering, so a thread *)
(* may go on missing a cancellation for a while (seesCancel). The clock is *)
(* abstracted to whether the deadline has passed.                          *)
(***************************************************************************)
EXTENDS Integers

CONSTANTS
  Threads,    \* threads that hold a clone of the budget
  Counters,   \* input_bytes, decoded_bytes_total, objects, nodes, edges
  Decoded,    \* decoded_bytes_total
  Limit,      \* the limit of each counter
  PerStream,  \* max_decoded_bytes_per_stream
  Amounts,    \* the amounts a call may ask of each counter
  MaxU64      \* u64::MAX

ASSUME BudgetAssumption ==
  /\ Decoded \in Counters
  /\ MaxU64 \in Nat
  /\ Limit \in [Counters -> 0..MaxU64]
  /\ PerStream \in 0..MaxU64
  /\ Amounts \in [Counters -> SUBSET (0..MaxU64)]

VARIABLES
  used,        \* the atomic counters
  cancelled,   \* the flag of the cancellation token
  seesCancel,  \* the threads whose next load of the flag returns true
  expired,     \* the deadline has passed
  pc,          \* where the call of each thread is
  counter,     \* the counter the call is about
  amount,      \* how much it asks for, or may ask for while it decodes
  seen,        \* the value its last load returned
  granted,     \* history: the sum of the amounts granted from each counter
  refused,     \* history: the amounts refused because of each limit
  doomed       \* history: the calls that began when check() had to fail already

shared  == <<used, cancelled, seesCancel, expired>>
local   == <<pc, counter, amount, seen>>
history == <<granted, refused, doomed>>
vars    == <<used, cancelled, seesCancel, expired, pc, counter, amount, seen,
             granted, refused, doomed>>

Init ==
  /\ used = [c \in Counters |-> 0]
  /\ cancelled = FALSE
  /\ seesCancel = {}
  /\ expired = FALSE
  /\ pc = [t \in Threads |-> "idle"]
  /\ counter = [t \in Threads |-> Decoded]
  /\ amount = [t \in Threads |-> 0]
  /\ seen = [t \in Threads |-> 0]
  /\ granted = [c \in Counters |-> 0]
  /\ refused = [c \in Counters |-> {}]
  /\ doomed = [t \in Threads |-> FALSE]
-----------------------------------------------------------------------------
(* Cancellation and time                                                   *)

Cancel ==
  /\ ~cancelled
  /\ cancelled' = TRUE
  /\ UNCHANGED <<used, seesCancel, expired, local, history>>

(* The store reaches thread t.                                             *)
Observe(t) ==
  /\ cancelled
  /\ t \notin seesCancel
  /\ seesCancel' = seesCancel \cup {t}
  /\ UNCHANGED <<used, cancelled, expired, local, history>>

Expire ==
  /\ ~expired
  /\ expired' = TRUE
  /\ UNCHANGED <<used, cancelled, seesCancel, local, history>>

StoppedByDeadlineOnly(t) == expired
StoppedByCancelOnly(t) == t \in seesCancel

(* check() fails: the token is cancelled or the deadline has passed.       *)
Stopped(t) == t \in seesCancel \/ expired
-----------------------------------------------------------------------------
(* The steps of a call                                                     *)

Goto(t, place) == pc' = [pc EXCEPT ![t] = place]

Call(t, place, c, n) ==
  /\ pc[t] = "idle"
  /\ Goto(t, place)
  /\ counter' = [counter EXCEPT ![t] = c]
  /\ amount' = [amount EXCEPT ![t] = n]
  /\ doomed' = [doomed EXCEPT ![t] = t \in seesCancel \/ expired]
  /\ UNCHANGED <<shared, seen, granted, refused>>

(* The call is over, with Ok or an error; its locals are gone.             *)
Return(t) ==
  /\ Goto(t, "idle")
  /\ counter' = [counter EXCEPT ![t] = Decoded]
  /\ amount' = [amount EXCEPT ![t] = 0]
  /\ seen' = [seen EXCEPT ![t] = 0]
  /\ doomed' = [doomed EXCEPT ![t] = FALSE]

(* consume_input, consume_object, consume_node, consume_edge               *)
Consume(t) ==
  \E c \in Counters \ {Decoded} : \E n \in Amounts[c] : Call(t, "check", c, n)

ConsumeDecoded(t) ==
  \E n \in Amounts[Decoded] : Call(t, "guard", Decoded, n)

DecodeStream(t) == Call(t, "admit", Decoded, 0)

Stop(t) ==
  /\ Stopped(t)
  /\ Return(t)
  /\ UNCHANGED <<shared, granted, refused>>

(* decode_stream_with_budget checks first; data without a filter is        *)
(* charged as it is.                                                       *)
Admit(t) ==
  /\ pc[t] = "admit"
  /\ \/ Stop(t)
     \/ /\ ~Stopped(t)
        /\ Goto(t, "peek")
        /\ UNCHANGED <<shared, counter, amount, seen, history>>
     \/ /\ ~Stopped(t)
        /\ \E n \in Amounts[Decoded] : amount' = [amount EXCEPT ![t] = n]
        /\ Goto(t, "guard")
        /\ UNCHANGED <<shared, counter, seen, history>>

Remaining == IF used[Decoded] < Limit[Decoded]
             THEN Limit[Decoded] - used[Decoded] ELSE 0

(* The most the decoder may produce, as far as this thread knows.          *)
Peek(t) ==
  /\ pc[t] = "peek"
  /\ amount' = [amount EXCEPT ![t] =
                  IF Remaining < PerStream THEN Remaining ELSE PerStream]
  /\ Goto(t, "decode")
  /\ UNCHANGED <<shared, counter, seen, history>>

(* The filters fail, or produce what fits under the cap that was read.     *)
Decode(t) ==
  /\ pc[t] = "decode"
  /\ \/ Return(t) /\ UNCHANGED <<shared, granted, refused>>
     \/ /\ \E n \in {m \in Amounts[Decoded] : m <= amount[t]} :
             amount' = [amount EXCEPT ![t] = n]
        /\ Goto(t, "guard")
        /\ UNCHANGED <<shared, counter, seen, history>>

(* consume_decoded: check and limit of one stream, before consume_bytes    *)
(* checks again.                                                           *)
Guard(t) ==
  /\ pc[t] = "guard"
  /\ \/ Stop(t)
     \/ /\ ~Stopped(t)
        /\ amount[t] > PerStream
        /\ Return(t)
        /\ UNCHANGED <<shared, granted, refused>>
     \/ /\ ~Stopped(t)
        /\ amount[t] <= PerStream
        /\ Goto(t, "check")
        /\ UNCHANGED <<shared, counter, amount, seen, history>>

Check(t) ==
  /\ pc[t] = "check"
  /\ \/ Stop(t)
     \/ /\ ~Stopped(t)
        /\ Goto(t, "load")
        /\ UNCHANGED <<shared, counter, amount, seen, history>>

ExceedsWrapping(current, n, c) == (current + n) % (MaxU64 + 1) > Limit[c]
ExceedsBeforeAdding(current, n, c) == current > Limit[c]

(* checked_add overflows, or the sum is over the limit.                    *)
Exceeds(current, n, c) == current + n > MaxU64 \/ current + n > Limit[c]

Refuse(t) ==
  /\ Return(t)
  /\ refused' = [refused EXCEPT ![counter[t]] = @ \cup {amount[t]}]
  /\ UNCHANGED <<shared, granted>>

Load(t) ==
  /\ pc[t] = "load"
  /\ LET current == used[counter[t]] IN
     \/ Exceeds(current, amount[t], counter[t]) /\ Refuse(t)
     \/ /\ ~Exceeds(current, amount[t], counter[t])
        /\ seen' = [seen EXCEPT ![t] = current]
        /\ Goto(t, "cas")
        /\ UNCHANGED <<shared, counter, amount, history>>

(* The counter is replaced by what this thread has computed.               *)
Grant(t) ==
  /\ used' = [used EXCEPT ![counter[t]] = (seen[t] + amount[t]) % (MaxU64 + 1)]
  /\ granted' = [granted EXCEPT ![counter[t]] = @ + amount[t]]
  /\ Return(t)
  /\ UNCHANGED <<cancelled, seesCancel, expired, refused>>

StoreBlindly(t) == pc[t] = "cas" /\ Grant(t)

RetryWithoutReload(t) ==
  pc[t] = "cas" /\ used[counter[t]] = seen[t] /\ Grant(t)

(* compare_exchange: succeeds if the counter is what was loaded.           *)
CompareExchange(t) ==
  /\ pc[t] = "cas"
  /\ \/ used[counter[t]] = seen[t] /\ Grant(t)
     \/ /\ used[counter[t]] # seen[t]
        /\ Goto(t, "load")
        /\ UNCHANGED <<shared, counter, amount, seen, history>>
-----------------------------------------------------------------------------
Continue(t) == \/ Admit(t) \/ Peek(t) \/ Decode(t) \/ Guard(t) \/ Check(t)
               \/ Load(t) \/ CompareExchange(t)

Next ==
  \/ Cancel \/ Expire
  \/ \E t \in Threads : \/ Observe(t)
                        \/ Consume(t) \/ ConsumeDecoded(t) \/ DecodeStream(t)
                        \/ Continue(t)

(* The scheduler runs every thread that is inside a call, and a store      *)
(* reaches the other threads in finite time.                               *)
Spec == /\ Init /\ [][Next]_vars
        /\ \A t \in Threads : WF_vars(Continue(t)) /\ WF_vars(Observe(t))
-----------------------------------------------------------------------------
(* Properties                                                              *)

Places == {"idle", "admit", "peek", "decode", "guard", "check", "load", "cas"}

(* Types; no counter leaves its limit.                                     *)
TypeOK ==
  /\ used \in [Counters -> Nat]
  /\ \A c \in Counters : used[c] <= Limit[c]
  /\ cancelled \in BOOLEAN
  /\ seesCancel \subseteq Threads
  /\ expired \in BOOLEAN
  /\ pc \in [Threads -> Places]
  /\ counter \in [Threads -> Counters]
  /\ amount \in [Threads -> 0..MaxU64]
  /\ seen \in [Threads -> 0..MaxU64]
  /\ granted \in [Counters -> Nat]
  /\ refused \in [Counters -> SUBSET (0..MaxU64)]
  /\ doomed \in [Threads -> BOOLEAN]

(* However the threads interleave, no grant is lost or made twice: the     *)
(* counter is the sum of what was granted, and that sum keeps the limit.   *)
GrantsWithinLimit ==
  \A c \in Counters : granted[c] = used[c] /\ granted[c] <= Limit[c]

(* A limit that has refused an amount goes on refusing it: the counter     *)
(* never falls back to where the amount would fit.                         *)
RefusalIsFinal ==
  \A c \in Counters : \A n \in refused[c] : used[c] + n > Limit[c]

(* A call that began when its thread had seen the cancellation, or after   *)
(* the deadline, never gets as far as the counter.                         *)
NoGrantOnceStopped == \A t \in Threads : doomed[t] => pc[t] \notin {"load", "cas"}

(* A losing compare_exchange retries, yet no call spins for ever: others   *)
(* can win against it only as often as the limit lets them.                *)
EveryCallReturns == \A t \in Threads : (pc[t] # "idle") ~> (pc[t] = "idle")

(* After cancel(), a time comes from which no thread is about to consume.  *)
CancelStopsConsumption ==
  cancelled ~> [](\A t \in Threads : pc[t] \notin {"load", "cas"})

(* Every call answers as if at one instant: the lock-free counters         *)
(* implement an atomic quota.                                              *)
Quota == INSTANCE SharedQuota
ImplementsQuota == Quota!Spec
=============================================================================
