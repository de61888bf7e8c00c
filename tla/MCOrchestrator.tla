--------------------------- MODULE MCOrchestrator ---------------------------
(* Instances of Orchestrator for TLC; the configurations give the constants. *)
EXTENDS Orchestrator
=============================================================================
