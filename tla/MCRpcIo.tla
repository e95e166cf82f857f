------------------------------ MODULE MCRpcIo ------------------------------
(* Instances of RpcIo for TLC; the constants take their values in the cfg.  *)
EXTENDS RpcIo
=============================================================================
