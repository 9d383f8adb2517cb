-------------------------- MODULE MCResourceBudget --------------------------
(* Two counters: decoded bytes, whose limit is close enough to the largest *)
(* machine word for a sum to overflow, and objects, which count by one.    *)
EXTENDS ResourceBudget, TLC

CONSTANTS t1, t2, decoded, objects

MCLimit   == (decoded :> 2) @@ (objects :> 1)
MCAmounts == (decoded :> 0..3) @@ (objects :> {1})
=============================================================================
