----------------------------- MODULE MCSession -----------------------------
(***************************************************************************)
(* OnlineSession and RpcRequest side by side for TLC, with fairness: the   *)
(* sessions of a server and the calls of a client.  A behaviour is about   *)
(* one of them, which part says, and leaves the other as it began.         *)
(***************************************************************************)
EXTENDS OnlineSession, RpcRequest

VARIABLE part

(* The first and the last call are of one category. *)
ThreeCalls == <<"login", "list", "login">>

allVars == <<part, vars, requestVars>>

-----------------------------------------------------------------------------

InitAll == part \in {"session", "request"} /\ Init /\ RequestInit

InSession(A) == part = "session" /\ A /\ UNCHANGED <<part, requestVars>>

NextAll ==
  \/ InSession(Next)
  \/ part = "request" /\ RequestNext /\ UNCHANGED <<part, vars>>

(* The fairness of the two modules; no step of RequestFairness is possible *)
(* in its initial state.                                                    *)
FairAll ==
  /\ \A p \in Processors : WF_allVars(InSession(Handler(p)))
  /\ WF_allVars(InSession(Tick))
  /\ RequestFairness

SpecAll == InitAll /\ [][NextAll]_allVars /\ FairAll
============================================================================
