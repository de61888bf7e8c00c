---------------------------- MODULE MCPriceChain ----------------------------
(* PriceChain on small instances. *)
EXTENDS PriceChain
=============================================================================
