------------------------------- MODULE MCRpc -------------------------------
(***************************************************************************)
(* RpcThreadPool, RpcQueue, RollbufPool and RpcCrypt side by side for TLC. *)
(* They have no state in common: a behaviour is about one of them, which   *)
(* part says, and leaves the others as they began, where none of the steps *)
(* is possible that QueueFairness and RollbufFairness ask for.             *)
(***************************************************************************)
EXTENDS RpcThreadPool, RpcQueue, RollbufPool, RpcCrypt

VARIABLE part

(* The queues of rpc_io.c: one thread waits on each, with any timeout here, *)
(* and the others (rpc_io_destroy) poll.                                    *)
Waiter == CHOOSE g \in Getters : TRUE
OneWaits == [g \in Getters |-> IF g = Waiter THEN {"forever", "timed", "zero"} ELSE {"zero"}]

allVars == <<part, vars, queueVars, rollbufVars, cryptVars>>

-----------------------------------------------------------------------------

InitAll ==
  /\ part \in {"pool", "queue", "rollbuf", "crypt"}
  /\ Init /\ QueueInit /\ RollbufInit
  /\ CryptInit /\ (part # "crypt" => crypt = "none" /\ size = 1)

InPool(A) == part = "pool" /\ A /\ UNCHANGED <<part, queueVars, rollbufVars, cryptVars>>

NextAll ==
  \/ InPool(Next)
  \/ part = "queue" /\ QueueNext /\ UNCHANGED <<part, vars, rollbufVars, cryptVars>>
  \/ part = "rollbuf" /\ RollbufNext /\ UNCHANGED <<part, vars, queueVars, cryptVars>>
  \/ part = "crypt" /\ CryptNext /\ UNCHANGED <<part, vars, queueVars, rollbufVars>>

(* The fairness of each of the modules *)
FairAll ==
  /\ \A t \in Threads : WF_allVars(InPool(Thread(t)))
  /\ WF_allVars(InPool(Destroy /\ dpc # "idle"))
  /\ QueueFairness
  /\ RollbufFairness

SpecAll == InitAll /\ [][NextAll]_allVars /\ FairAll
============================================================================
