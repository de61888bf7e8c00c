----------------------------- MODULE MCPipeline -----------------------------
(* Instances of Pipeline for TLC; the configurations give the constants. *)
EXTENDS Pipeline
=============================================================================
