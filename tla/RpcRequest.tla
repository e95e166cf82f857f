----------------------------- MODULE RpcRequest -----------------------------
(***************************************************************************)
(* Calls of the client: rpcprovider/rpc_request.c over the callback list   *)
(* of rpcprovider/rpc_dispatch.c, as every function of client/media_api_*.c*)
(* uses them: rpc_request_new, rpc_request_wait, rpc_request_ok,           *)
(* rpc_request_destroy.                                                    *)
(*                                                                         *)
(* A packet carries a category and no number: an answer goes to the first  *)
(* handle that is listed under its category.  Threads: the callers (the    *)
(* application and the heartbeat timer) and the one processor of the       *)
(* client's pool.  The server answers in any order, late or never.         *)
(*                                                                         *)
(* rpc_request_destroy frees a handle the processor may have found just    *)
(* before: what the processor then does to it is lost, or happens to a     *)
(* handle that was allocated in its place.  The list has no lock; a walk   *)
(* over it is one step here, its races with add and del are left out.      *)
(***************************************************************************)
EXTENDS Naturals, Sequences, FiniteSets

CONSTANTS
  MaxCallers,   \* bound: calls that are made at the same time
  MaxCalls,     \* bound: calls ever made
  Categories,   \* pairs of category and sub_category
  cat           \* cat[h]: handle->category and sub_category of call h

Calls == 1..MaxCalls    \* a call, its handle and its answer

ASSUME CallsAssumption == MaxCalls \in Nat /\ cat \in [Calls -> Categories]

NoCall == 0

VARIABLES
  pc,            \* pc[h]: how far the call is (see Live)
  req,           \* req[h]: handle->req, the call whose answer it is, or NoCall
  used,          \* used[h]: the answer the caller worked with
  dlist,         \* dispatch_list: the listed handles
  asked,         \* the calls the server has and did not answer
  tasks,         \* answers received, in the processor pool's queue
  dispatcher,    \* the processor: pc, the answer it works on, the handle it found,
                 \* and the heirs, handles made since that one was freed
  connected,     \* the connection is in io_list
  disturbed      \* calls whose answers the client cannot tell apart (history)

callVars == <<pc, req, used>>
requestVars == <<callVars, dlist, asked, tasks, dispatcher, connected, disturbed>>

NoAnswerYet == [pc |-> "idle", answer |-> NoCall, handle |-> NoCall, heirs |-> {}]

RequestInit ==
  /\ pc = [h \in Calls |-> "unused"]
  /\ req = [h \in Calls |-> NoCall]
  /\ used = [h \in Calls |-> NoCall]
  /\ dlist = <<>>
  /\ asked = {}
  /\ tasks = <<>>
  /\ dispatcher = NoAnswerYet
  /\ connected = TRUE
  /\ disturbed = {}

Live(h) == pc[h] \notin {"unused", "freed"}

Within(s) == {s[i] : i \in 1..Len(s)}

(* The answer to call g is still to be processed. *)
Outstanding(g) == g \in asked \/ g \in Within(tasks) \/ dispatcher.answer = g

-----------------------------------------------------------------------------
(* rpc_request_new *)

(* The handle is made and listed before the request leaves.                 *)
(* Disturbed: calls of one category at a time, the answers to the abandoned *)
(* ones included, and a handle made while the processor holds a freed one.  *)
Register(h) ==
  /\ pc[h] = "unused" /\ \A g \in 1..(h - 1) : pc[g] # "unused"
  /\ Cardinality({g \in Calls : Live(g)}) < MaxCallers
  /\ LET same == {g \in 1..(h - 1) : cat[g] = cat[h] /\ (Live(g) \/ Outstanding(g))}
         stale == dispatcher.handle # NoCall /\ ~Live(dispatcher.handle)
     IN  /\ disturbed' = disturbed \cup same
                           \cup (IF same # {} \/ stale THEN {h} ELSE {})
         /\ dispatcher' = IF stale THEN [dispatcher EXCEPT !.heirs = @ \cup {h}] ELSE dispatcher
  /\ dlist' = Append(dlist, h)
  /\ pc' = [pc EXCEPT ![h] = "listed"]
  /\ UNCHANGED <<req, used, asked, tasks, connected>>

(* rpc_io_nodify_fd finds the connection. *)
Post(h) ==
  /\ pc[h] = "listed" /\ connected
  /\ asked' = asked \cup {h}
  /\ pc' = [pc EXCEPT ![h] = "posted"]
  /\ UNCHANGED <<req, used, dlist, tasks, dispatcher, connected, disturbed>>

(* It does not: the handle is destroyed at once. *)
PostFail(h) ==
  /\ pc[h] = "listed" /\ ~connected
  /\ pc' = [pc EXCEPT ![h] = "quit"]
  /\ UNCHANGED <<req, used, dlist, asked, tasks, dispatcher, connected, disturbed>>

-----------------------------------------------------------------------------
(* rpc_request_wait; a call in "checked" holds the mutex of its handle *)

WaitCheck(h) ==
  /\ pc[h] = "posted"
  /\ pc' = [pc EXCEPT ![h] = IF req[h] = NoCall THEN "checked" ELSE "done"]
  /\ UNCHANGED <<req, used, dlist, asked, tasks, dispatcher, connected, disturbed>>

Sleep(h) ==
  /\ pc[h] = "checked"
  /\ pc' = [pc EXCEPT ![h] = "asleep"]
  /\ UNCHANGED <<req, used, dlist, asked, tasks, dispatcher, connected, disturbed>>

(* The time is over, or the wait ends without a cause.  The callers ignore  *)
(* which: they look for an answer in either case.                           *)
EndWait(h) ==
  /\ pc[h] = "asleep"
  /\ pc' = [pc EXCEPT ![h] = "done"]
  /\ UNCHANGED <<req, used, dlist, asked, tasks, dispatcher, connected, disturbed>>

-----------------------------------------------------------------------------
(* rpc_request_ok and rpc_request_destroy *)

Use(h) ==
  /\ pc[h] = "done"
  /\ used' = [used EXCEPT ![h] = req[h]]
  /\ pc' = [pc EXCEPT ![h] = "quit"]
  /\ UNCHANGED <<req, dlist, asked, tasks, dispatcher, connected, disturbed>>

(* rpc_dispatch_del_cb *)
Unlist(h) ==
  /\ pc[h] = "quit"
  /\ \E i \in 1..Len(dlist) :
       dlist[i] = h /\ dlist' = SubSeq(dlist, 1, i - 1) \o SubSeq(dlist, i + 1, Len(dlist))
  /\ pc' = [pc EXCEPT ![h] = "unlisted"]
  /\ UNCHANGED <<req, used, asked, tasks, dispatcher, connected, disturbed>>

FreeHandle(h) ==
  /\ pc[h] = "unlisted"
  /\ pc' = [pc EXCEPT ![h] = "freed"]
  /\ req' = [req EXCEPT ![h] = NoCall]
  /\ UNCHANGED <<used, dlist, asked, tasks, dispatcher, connected, disturbed>>

-----------------------------------------------------------------------------
(* The server and the connection *)

(* rpc_client_routine, rpc_io_enqueue: an answer comes in.  Answers that    *)
(* wait together may share the shell with their category (see RpcIo).       *)
Arrive(g) ==
  /\ connected /\ g \in asked
  /\ asked' = asked \ {g}
  /\ tasks' = Append(tasks, g)
  /\ LET waiting == Within(tasks) \cup (IF dispatcher.pc = "look" THEN {dispatcher.answer} ELSE {})
     IN  disturbed' = IF waiting = {} THEN disturbed
                                      ELSE disturbed \cup waiting \cup {g}
  /\ UNCHANGED <<callVars, dlist, dispatcher, connected>>

(* rpc_client_routine drops the connection after a bad packet. *)
DropConnection ==
  /\ connected
  /\ connected' = FALSE
  /\ UNCHANGED <<callVars, dlist, asked, tasks, dispatcher, disturbed>>

-----------------------------------------------------------------------------
(* rpc_io_processor with rpc_dispatch_processor and rpc_default_dispatcher *)

Begin ==
  /\ dispatcher.pc = "idle" /\ tasks # <<>>
  /\ dispatcher' = [pc |-> "look", answer |-> Head(tasks), handle |-> NoCall, heirs |-> {}]
  /\ tasks' = Tail(tasks)
  /\ UNCHANGED <<callVars, dlist, asked, connected, disturbed>>

(* The positions of dlist with category c. *)
Matches(c) == {i \in 1..Len(dlist) : cat[dlist[i]] = c}

(* Mutant of Found: the first entry is taken, whatever its category. *)
FoundAny(c) == IF dlist = <<>> THEN NoCall ELSE dlist[1]

(* The first handle listed under category c, or NoCall. *)
Found(c) ==
  IF Matches(c) = {} THEN NoCall
  ELSE dlist[CHOOSE i \in Matches(c) : \A j \in Matches(c) : i <= j]

(* The category is read from the shell, which a later answer may overwrite. *)
Look ==
  /\ dispatcher.pc = "look"
  /\ \E g \in {dispatcher.answer} \cup Within(tasks) :
       dispatcher' = IF Found(cat[g]) = NoCall THEN NoAnswerYet
               ELSE [dispatcher EXCEPT !.pc = "found", !.handle = Found(cat[g])]
  /\ UNCHANGED <<callVars, dlist, asked, tasks, connected, disturbed>>

(* Where the processor's pointer to handle h leads: a freed one to nothing  *)
(* or to a handle made since.                                               *)
Pointee(h) == IF Live(h) THEN {h} ELSE {h} \cup {k \in dispatcher.heirs : Live(k)}

(* handle->req = req, without the mutex *)
Store ==
  /\ dispatcher.pc = "found"
  /\ \E h \in Pointee(dispatcher.handle) :
       /\ req' = IF Live(h) THEN [req EXCEPT ![h] = dispatcher.answer] ELSE req
       /\ dispatcher' = [dispatcher EXCEPT !.pc = "stored", !.handle = h]
  /\ UNCHANGED <<pc, used, dlist, asked, tasks, connected, disturbed>>

(* Mutant of Signal: the mutex is not taken. *)
SignalUnlocked ==
  /\ dispatcher.pc = "stored"
  /\ pc' = IF pc[dispatcher.handle] = "asleep" THEN [pc EXCEPT ![dispatcher.handle] = "done"] ELSE pc
  /\ dispatcher' = NoAnswerYet
  /\ UNCHANGED <<req, used, dlist, asked, tasks, connected, disturbed>>

(* Lock, signal, unlock; not while the caller holds the mutex. *)
Signal ==
  /\ dispatcher.pc = "stored" /\ pc[dispatcher.handle] # "checked"
  /\ pc' = IF pc[dispatcher.handle] = "asleep" THEN [pc EXCEPT ![dispatcher.handle] = "done"] ELSE pc
  /\ dispatcher' = NoAnswerYet
  /\ UNCHANGED <<req, used, dlist, asked, tasks, connected, disturbed>>

-----------------------------------------------------------------------------

Caller(h) ==
  \/ Post(h) \/ PostFail(h) \/ WaitCheck(h) \/ Sleep(h)
  \/ Use(h) \/ Unlist(h) \/ FreeHandle(h)

Processor == Begin \/ Look \/ Store \/ Signal

RequestNext ==
  \/ \E h \in Calls : Register(h) \/ Caller(h) \/ EndWait(h) \/ Arrive(h)
  \/ Processor
  \/ DropConnection

(***************************************************************************)
(* Fairness: the client's threads run.  Nobody has to call, the server has *)
(* to answer nothing, and the wait may be as long as its timeout, which is *)
(* not relied on.                                                          *)
(***************************************************************************)
RequestSpec == RequestInit /\ [][RequestNext]_requestVars

RequestFairness == WF_requestVars(Processor) /\ \A h \in Calls : WF_requestVars(Caller(h))

-----------------------------------------------------------------------------

(* The type of the client's state. *)
RequestTypeOK ==
  /\ pc \in [Calls -> {"unused", "listed", "posted", "checked", "asleep", "done",
                       "quit", "unlisted", "freed"}]
  /\ req \in [Calls -> Calls \cup {NoCall}]
  /\ used \in [Calls -> Calls \cup {NoCall}]
  /\ dlist \in Seq(Calls)
  /\ asked \subseteq Calls
  /\ tasks \in Seq(Calls)
  /\ dispatcher \in [pc : {"idle", "look", "found", "stored"},
               answer : Calls \cup {NoCall}, handle : Calls \cup {NoCall},
               heirs : SUBSET Calls]
  /\ connected \in BOOLEAN
  /\ disturbed \subseteq Calls

(***************************************************************************)
(* A caller never works with the answer to another call, if no other call  *)
(* of its category was under way or left unanswered, its answer did not    *)
(* have to wait behind another one, and its handle was not made in the     *)
(* place of one that the processor still holds.                            *)
(***************************************************************************)
OwnAnswer == \A h \in Calls : h \notin disturbed => used[h] \in {NoCall, h}

(***************************************************************************)
(* No lost wakeup: a caller that sleeps is woken once an answer is in its  *)
(* handle, and also once its own undisturbed answer has come in, although  *)
(* the answer is stored without the mutex.  No timeout is needed.          *)
(***************************************************************************)
AnswerEndsWait ==
  \A h \in Calls :
    (pc[h] = "asleep" /\ (req[h] # NoCall \/ h \in Within(tasks) \/ dispatcher.answer = h))
      ~> (pc[h] # "asleep" \/ (h \in disturbed /\ req[h] = NoCall))
=============================================================================
