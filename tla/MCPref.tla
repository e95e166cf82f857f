------------------------------- MODULE MCPref -------------------------------
(* Instances of Pref for TLC. *)
EXTENDS Pref
=============================================================================
