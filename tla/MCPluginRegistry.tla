-------------------------- MODULE MCPluginRegistry --------------------------
(* Two plugins have one name and different types; the third is the only    *)
(* one of its name and shares a type with both. Two of them come from      *)
(* libraries.                                                              *)
EXTENDS PluginRegistry

CONSTANTS t1, t2, p, q, r

MCName == [x \in {p, q, r} |-> IF x = r THEN "b" ELSE "a"]
MCTypes == [x \in {p, q, r} |->
              IF x = p THEN {"page"} ELSE IF x = q THEN {"font", "page"} ELSE {"page"}]
=============================================================================
