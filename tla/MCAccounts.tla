----------------------------- MODULE MCAccounts -----------------------------
(* Instances of Accounts for TLC. *)
EXTENDS Accounts

(* One port with two channels and two folders: rows that collide in place,  *)
(* in folder, and in the place db_account_device_add looks at by mistake.   *)
MCRows == {[port |-> 1, channel |-> 2, folder |-> "f"],
           [port |-> 1, channel |-> 2, folder |-> "g"],
           [port |-> 1, channel |-> 1, folder |-> "g"]}
=============================================================================
