---------------------------- MODULE SharedQuota -----------------------------
(***************************************************************************)
(* What a budget shared by many threads promises: every answer is given as *)
(* if at one instant. A request is granted when the counter can take it    *)
(* and refused when it cannot, and nothing is ever given back.             *)
(* ResourceBudget implements this specification.                           *)
(***************************************************************************)
EXTENDS Naturals

CONSTANTS Counters,  \* the things that are counted
          Limit,     \* the limit of each
          MaxU64     \* the largest amount that can be asked for

VARIABLES used,    \* how much of each has been granted
          refused  \* the amounts that have been refused for each

vars == <<used, refused>>

Init == /\ used = [c \in Counters |-> 0]
        /\ refused = [c \in Counters |-> {}]

Grant(c, n) ==
  /\ used[c] + n <= Limit[c]
  /\ used' = [used EXCEPT ![c] = @ + n]
  /\ UNCHANGED refused

Refuse(c, n) ==
  /\ used[c] + n > Limit[c]
  /\ refused' = [refused EXCEPT ![c] = @ \cup {n}]
  /\ UNCHANGED used

Next == \E c \in Counters, n \in 0..MaxU64 : Grant(c, n) \/ Refuse(c, n)

Spec == Init /\ [][Next]_vars
=============================================================================
