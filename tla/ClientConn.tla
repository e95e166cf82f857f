----------------------------- MODULE ClientConn -----------------------------
(***************************************************************************)
(* rpcprovider/rpc_client.c: the client's connection, from rpc_client_start*)
(* to rpc_client_stop, with the thread that receives (rpc_client_routine)  *)
(* and a thread, the timer's clock, that may be in a call meanwhile: its   *)
(* entry in the dispatch list and its request (rpc_request.c).             *)
(*                                                                         *)
(* The application stops only what it started, and mc_disconnect joins the *)
(* clock before it connects again.  Assertions are not compiled in.        *)
(***************************************************************************)
EXTENDS Naturals

CONSTANT MaxStarts   \* bound: calls of rpc_client_start

ASSUME StartsAssumption == MaxStarts \in Nat

VARIABLES
  starts,      \* calls of rpc_client_start
  phase,       \* the application: "out", "on", the step of rpc_client_stop it is
               \* at, or "crash"
  sign,        \* rc_stop_sign
  socket,      \* rc_client_fd: "none", "open", "shut" by the server, "closed"
  io,          \* rpc_io is initialized
  child,       \* the connection is in io_list
  receiver,    \* rc_recv_thrd: "none", at its "loop", in "recv", it
               \* "have"s bytes to enqueue, "end"
  caller,      \* the clock: "idle", "added" its callback, "wait"s, "over"
  entry,       \* the callback of its call is in the dispatch list
  cut          \* the socket was closed while received bytes were not enqueued
               \* (history)

connVars == <<starts, phase, sign, socket, io, child, receiver, caller, entry, cut>>

ConnTypeOK ==
  /\ starts \in 0..MaxStarts
  /\ phase \in {"out", "on", "close", "destroy", "join", "dispatch", "crash"}
  /\ socket \in {"none", "open", "shut", "closed"}
  /\ sign \in BOOLEAN /\ io \in BOOLEAN /\ child \in BOOLEAN
  /\ entry \in BOOLEAN /\ cut \in BOOLEAN
  /\ receiver \in {"none", "loop", "recv", "have", "end"}
  /\ caller \in {"idle", "added", "wait", "over"}

ConnInit ==
  /\ starts = 0 /\ phase = "out"
  /\ sign = FALSE /\ socket = "none" /\ io = FALSE /\ child = FALSE
  /\ receiver = "none" /\ caller = "idle" /\ entry = FALSE /\ cut = FALSE

-----------------------------------------------------------------------------
(* rpc_client_start: connected, with rpc_io_init, rpc_dispatch_init and the *)
(* receiving thread                                                         *)
rpc_client_start ==
  /\ phase = "out" /\ starts < MaxStarts /\ caller = "idle"
  /\ starts' = starts + 1 /\ phase' = "on"
  /\ sign' = FALSE /\ socket' = "open"
  /\ io' = TRUE /\ child' = TRUE /\ entry' = FALSE
  /\ receiver' = "loop" /\ cut' = FALSE
  /\ UNCHANGED caller

(* connect failed: nothing but the flag and a socket *)
ConnectFails ==
  /\ phase = "out" /\ starts < MaxStarts /\ caller = "idle"
  /\ starts' = starts + 1 /\ sign' = FALSE /\ socket' = "none"
  /\ UNCHANGED <<phase, io, child, receiver, caller, entry, cut>>

-----------------------------------------------------------------------------
(* rpc_client_stop *)

StopSign ==
  /\ phase = "on" /\ ~sign
  /\ sign' = TRUE /\ phase' = "close"
  /\ UNCHANGED <<starts, socket, io, child, receiver, caller, entry, cut>>

(* Mutant of StopClose: only the flag tells the receiver. *)
StopCloseNot ==
  /\ phase = "close" /\ phase' = "destroy"
  /\ UNCHANGED <<starts, sign, socket, io, child, receiver, caller, entry, cut>>

(* socket_close, and rpc_io_stop for the connection's queue *)
StopClose ==
  /\ phase = "close" /\ phase' = "destroy"
  /\ socket' = "closed" /\ cut' = (receiver = "have")
  /\ UNCHANGED <<starts, sign, io, child, receiver, caller, entry>>

(* rpc_io_destroy *)
StopDestroy ==
  /\ phase = "destroy" /\ phase' = "join"
  /\ io' = FALSE /\ child' = FALSE
  /\ UNCHANGED <<starts, sign, socket, receiver, caller, entry, cut>>

StopJoin ==
  /\ phase = "join" /\ receiver = "end"
  /\ phase' = "dispatch"
  /\ UNCHANGED <<starts, sign, socket, io, child, receiver, caller, entry, cut>>

(* rpc_dispatch_destroy frees the callbacks of calls that wait. *)
StopDispatch ==
  /\ phase = "dispatch" /\ phase' = "out"
  /\ entry' = FALSE
  /\ UNCHANGED <<starts, sign, socket, io, child, receiver, caller, cut>>

-----------------------------------------------------------------------------
(* rpc_client_routine *)

ConnReceive ==
  /\ receiver = "recv" /\ socket = "open"
  /\ receiver' = "have"
  /\ UNCHANGED <<starts, phase, sign, socket, io, child, caller, entry, cut>>

(* Mutant of Enqueue: the connection is dropped without leaving the loop. *)
EnqueueStays ==
  /\ receiver = "have"
  /\ IF child THEN child' \in BOOLEAN /\ receiver' = "loop" /\ UNCHANGED <<phase, socket>>
              ELSE phase' = "crash" /\ UNCHANGED <<socket, child, receiver>>
  /\ UNCHANGED <<starts, sign, io, caller, entry, cut>>

(* rpc_io_enqueue; a bad packet drops the connection.  Without a connection *)
(* its ring buffer is one of address NULL.                                  *)
Enqueue ==
  /\ receiver = "have"
  /\ IF child THEN /\ \/ receiver' = "loop" /\ UNCHANGED <<socket, child>>
                      \/ receiver' = "end" /\ socket' = "closed" /\ child' = FALSE
                   /\ UNCHANGED phase
              ELSE phase' = "crash" /\ UNCHANGED <<socket, child, receiver>>
  /\ UNCHANGED <<starts, sign, io, caller, entry, cut>>

(* The head of the loop *)
LoopHead ==
  /\ receiver = "loop"
  /\ receiver' = IF sign THEN "end" ELSE "recv"
  /\ UNCHANGED <<starts, phase, sign, socket, io, child, caller, entry, cut>>

(* recv says that the connection is gone; rc_disconn_cb is called. *)
RecvFails ==
  /\ receiver = "recv" /\ socket # "open"
  /\ receiver' = "end"
  /\ UNCHANGED <<starts, phase, sign, socket, io, child, caller, entry, cut>>

ServerShuts ==
  /\ socket = "open" /\ socket' = "shut"
  /\ UNCHANGED <<starts, phase, sign, io, child, receiver, caller, entry, cut>>

-----------------------------------------------------------------------------
(* A call: rpc_request_new, rpc_request_wait, rpc_request_destroy *)

CallAdd ==
  /\ caller = "idle" /\ phase # "crash" /\ starts > 0 /\ phase # "out"
  /\ entry' = TRUE /\ caller' = "added"
  /\ UNCHANGED <<starts, phase, sign, socket, io, child, receiver, cut>>

(* rpc_io_nodify_fd: without the connection the call is over at once. *)
CallNotify ==
  /\ caller = "added"
  /\ caller' = IF child THEN "wait" ELSE "over"
  /\ UNCHANGED <<starts, phase, sign, socket, io, child, receiver, entry, cut>>

(* The answer, or its timeout *)
CallWaits ==
  /\ caller = "wait" /\ caller' = "over"
  /\ UNCHANGED <<starts, phase, sign, socket, io, child, receiver, entry, cut>>

(* rpc_dispatch_del_cb finds the callback or nothing. *)
CallDestroy ==
  /\ caller = "over"
  /\ caller' = "idle" /\ entry' = FALSE
  /\ UNCHANGED <<starts, phase, sign, socket, io, child, receiver, cut>>

-----------------------------------------------------------------------------

StopStep == StopClose \/ StopDestroy \/ StopJoin \/ StopDispatch
ConnReceiver == Enqueue \/ LoopHead \/ RecvFails
CallStep == CallNotify \/ CallWaits \/ CallDestroy

ConnNext ==
  \/ rpc_client_start \/ ConnectFails
  \/ StopSign \/ StopStep
  \/ ConnReceive \/ ConnReceiver \/ ServerShuts
  \/ CallAdd \/ CallStep

ConnSpec == ConnInit /\ [][ConnNext]_connVars

(* Threads run; the server need not send anything. *)
ConnFairness == WF_connVars(StopStep) /\ WF_connVars(ConnReceiver) /\ WF_connVars(CallStep)

-----------------------------------------------------------------------------

(***************************************************************************)
(* Bytes are put only into a connection that exists, through bad packets,  *)
(* restarts and stops, except those received before socket_close that were *)
(* not enqueued when rpc_io_destroy ran: rpc_client_stop joins the receiver*)
(* after it (rpc_client.c:167).  And a call on a running client has its    *)
(* callback in the dispatch list, which stop empties under other calls.    *)
(***************************************************************************)
ConnSafe ==
  /\ phase = "crash" => cut
  /\ (phase = "on" /\ caller \in {"added", "wait"}) => entry

(***************************************************************************)
(* rpc_client_stop returns: the receiver gets out of recv and of its loop, *)
(* whatever packet it had and whoever is in a call.                        *)
(***************************************************************************)
StopEnds == (phase = "close") ~> (phase \in {"out", "crash"})
============================================================================
