----------------------------- MODULE MCRpcBody -----------------------------
(* Instance of RpcBody for TLC. *)
EXTENDS RpcBody
============================================================================
