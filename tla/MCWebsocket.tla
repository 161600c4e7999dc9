---------------------------- MODULE MCWebsocket -----------------------------
(***************************************************************************)
(* The instance of Websocket for TLC: two frames of a client let a frame   *)
(* be whole, halved, or received with another.                             *)
(***************************************************************************)
EXTENDS Websocket

=============================================================================
