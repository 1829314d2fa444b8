----------------------------- MODULE MCBridgeRpc -----------------------------
(* One or two calls, which share no process.                               *)
EXTENDS BridgeRpc
=============================================================================
