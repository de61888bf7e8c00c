--------------------------- MODULE MCPriceFetcher ---------------------------
(* Instances of PriceFetcher for TLC; the configurations give the constants. *)
EXTENDS PriceFetcher
=============================================================================
