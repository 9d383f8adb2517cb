----------------------------- MODULE MCPipeline -----------------------------
(* The stages of the standard pipeline: validation may leave a node as it  *)
(* is, so that a retry after the indexing failed validates it again.       *)
EXTENDS Pipeline

MCMakes ==
  [x \in {"Parser", "Validation", "Indexing"} \X {"raw", "node", "result"} |->
     IF x = <<"Parser", "raw">> THEN {"raw", "node"}
     ELSE IF x = <<"Validation", "node">> THEN {"node", "result"}
     ELSE IF x = <<"Indexing", "node">> THEN {"node", "result"}
     ELSE {}]
MCStages == <<"Parser", "Validation", "Indexing">>
=============================================================================
