------------------------------ MODULE MCServer ------------------------------
(***************************************************************************)
(* Accounts, ChildList and AdminDb side by side for TLC, for safety.  A    *)
(* behaviour is about one of them, which part says, and leaves the others  *)
(* as they began.                                                          *)
(***************************************************************************)
EXTENDS Accounts, ChildList, AdminDb, TLC

VARIABLE part

(* One port with two channels and two folders: rows that collide in place,  *)
(* in folder, and in the place db_account_device_add looks at by mistake.   *)
MCRows == {[port |-> 1, channel |-> 2, folder |-> "f"],
           [port |-> 1, channel |-> 2, folder |-> "g"],
           [port |-> 1, channel |-> 1, folder |-> "g"]}

allVars == <<part, vars, listVars, dbVars>>

-----------------------------------------------------------------------------

(* What differs between the initial states of a part is fixed in the others. *)
InitAll ==
  /\ part \in {"accounts", "list", "db"}
  /\ Init /\ (part # "accounts" => workload = {"account"})
  /\ ListInit /\ (part # "list" => kidRows = {})
  /\ DbInit

NextAll ==
  \/ part = "accounts" /\ Next /\ UNCHANGED <<part, listVars, dbVars>>
  \/ part = "list" /\ ListNext /\ UNCHANGED <<part, vars, dbVars>>
  \/ part = "db" /\ DbNext /\ UNCHANGED <<part, vars, listVars>>

SpecAll == InitAll /\ [][NextAll]_allVars

(* Processors, admins, child accounts and devices are interchangeable. *)
Interchangeable ==
  Permutations(Processors) \cup Permutations(Admins)
    \cup Permutations(Children) \cup Permutations(Devices)
=============================================================================
