----------------------------- MODULE MCClient -----------------------------
(***************************************************************************)
(* RpcWire, RpcBody, ClientSession and ClientConn side by side for TLC:    *)
(* how packets travel, what is in their bodies, and a client that uses     *)
(* them.  A behaviour is about one of them, which part says, and leaves    *)
(* the others as they began, where none of the steps is possible that      *)
(* their fairness asks for.                                                *)
(***************************************************************************)
EXTENDS RpcWire, RpcBody, ClientSession, ClientConn

VARIABLE part

allVars == <<part, vars, bodyVars, apiVars, connVars>>

-----------------------------------------------------------------------------

InitAll ==
  /\ part \in {"wire", "body", "client", "conn"}
  /\ Init
  /\ BodyInit /\ (part # "body" => msg = "version_in" /\ hole = 0)
  /\ ClientInit /\ ConnInit

NextAll ==
  \/ part = "wire" /\ Next /\ UNCHANGED <<part, bodyVars, apiVars, connVars>>
  \/ part = "body" /\ BodyNext /\ UNCHANGED <<part, vars, apiVars, connVars>>
  \/ part = "client" /\ ClientNext /\ UNCHANGED <<part, vars, bodyVars, connVars>>
  \/ part = "conn" /\ ConnNext /\ UNCHANGED <<part, vars, bodyVars, apiVars>>

SpecAll ==
  /\ InitAll /\ [][NextAll]_allVars
  /\ Fairness /\ ClientFairness /\ ConnFairness
============================================================================
