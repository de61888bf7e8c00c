------------------------- MODULE MCWebSocketManager -------------------------
(* WebSocketManager on small instances. *)
EXTENDS WebSocketManager
=============================================================================
