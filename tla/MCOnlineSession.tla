-------------------------- MODULE MCOnlineSession --------------------------
(* Instances of OnlineSession for TLC. *)
EXTENDS OnlineSession
=============================================================================
