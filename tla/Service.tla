------------------------------ MODULE Service ------------------------------
(***************************************************************************)
(* Start and stop of the service (service/service_api.c with               *)
(* rpcprovider/rpc_service.c): in which order the main thread brings the   *)
(* parts up and takes them down, while the libuv loop accepts connections  *)
(* and processors run the requests that come in on them.                   *)
(*                                                                         *)
(* The parts themselves are other modules (RpcIo, OnlineSession,           *)
(* DeviceSession, Timer); here each of them is there or is not.  The       *)
(* handlers are reduced to three: of a request that needs no session, of   *)
(* one that does, and of a play.  A use of a connection, a dispatch node   *)
(* or a loop that is gone ends the behaviour (broken).                     *)
(***************************************************************************)
EXTENDS Naturals, Sequences, FiniteSets

CONSTANTS
  Processors,   \* threads that run requests
  Conns,        \* connections
  MaxStarts     \* bound: calls of service_start_async that do something

VARIABLES
  main,       \* what the main thread does next, "idle" between two calls
  started,    \* service_started
  starts,     \* number of starts
  parts,      \* the parts that are initialised
  nodes,      \* dispatch_list: the handlers that are registered
  listening,  \* rs_fd accepts connections
  loop,       \* the loop: "none" | "running" | "asked" to exit | "exiting"
  conns,      \* connections the loop reads from
  known,      \* connections in io_list
  proc,       \* proc[p]: the request of processor p, and how far it is
  played,     \* a play was answered: its session and its device stay referenced
  broken      \* undefined behaviour happened

serviceVars == <<main, started, starts, parts, nodes, listening, loop, conns, known, proc, played, broken>>

Handlers == <<"version", "login", "play">>   \* in the order of their registration

(* What the code of a handler works with; none asks whether it is there.    *)
(* The tables of the database are not listed: requests are served before    *)
(* they exist.                                                              *)
Needs(kind) ==
  CASE kind = "version" -> {"io"}
    [] kind = "login" -> {"io", "sessions", "timer"}
    [] kind = "play" -> {"io", "sessions", "timer", "devices"}

NoRequest == [pc |-> "idle", kind |-> "none", conn |-> "none"]

ServiceInit ==
  /\ main = "idle" /\ started = FALSE /\ starts = 0
  /\ parts = {} /\ nodes = <<>>
  /\ listening = FALSE /\ loop = "none" /\ conns = {} /\ known = {}
  /\ proc = [p \in Processors |-> NoRequest]
  /\ played = FALSE /\ broken = FALSE

Main(from, to) == ~broken /\ main = from /\ main' = to

Break == broken' = TRUE /\ UNCHANGED <<main, started, starts, parts, nodes, listening, loop, conns, known, proc, played>>

-----------------------------------------------------------------------------
(* service_start_async *)

StartBegin ==
  /\ Main("idle", "loop") /\ ~started /\ starts < MaxStarts
  /\ starts' = starts + 1
  /\ UNCHANGED <<started, parts, nodes, listening, loop, conns, known, proc, played, broken>>

(* rpc_ensure_uv_loop_inited: rs_env_inited is set as long as the thread of *)
(* the loop has not ended.                                                  *)
rpc_ensure_uv_loop_inited ==
  /\ Main("loop", "init")
  /\ loop' = IF loop = "none" THEN "running" ELSE loop
  /\ UNCHANGED <<started, starts, parts, nodes, listening, conns, known, proc, played, broken>>

(* rpc_io_init and rpc_dispatch_init, each only if it was not done *)
StartInit ==
  /\ Main("init", "bind")
  /\ parts' = parts \cup {"io", "dispatch"}
  /\ known' = IF "io" \in parts THEN known ELSE {}
  /\ nodes' = IF "dispatch" \in parts THEN nodes ELSE <<>>
  /\ UNCHANGED <<started, starts, listening, loop, conns, proc, played, broken>>

(* rs_loop is NULL when the loop has ended since it was looked at. *)
StartNoLoop == ~broken /\ main = "bind" /\ loop = "none" /\ Break

(* bind or listen fail: what was initialised stays *)
StartFail ==
  /\ Main("bind", "idle") /\ loop # "none"
  /\ UNCHANGED <<started, starts, parts, nodes, listening, loop, conns, known, proc, played, broken>>

StartListen ==
  /\ Main("bind", "timer") /\ loop # "none"
  /\ listening' = TRUE
  /\ UNCHANGED <<started, starts, parts, nodes, loop, conns, known, proc, played, broken>>

(* service_bootstrap: timer_init, online_session_init, session_device_init *)
Bring(part, to) ==
  /\ Main(part, to)
  /\ parts' = parts \cup {part}
  /\ UNCHANGED <<started, starts, nodes, listening, loop, conns, known, proc, played, broken>>

service_bootstrap ==
  \/ Bring("timer", "sessions")
  \/ Bring("sessions", "devices")
  \/ Bring("devices", "register")

(* One call of rpc_service_register *)
register_all_reqeust_handler ==
  /\ Main("register", IF Len(nodes) + 1 = Len(Handlers) THEN "started" ELSE "register")
  /\ nodes' = Append(nodes, Handlers[Len(nodes) + 1])
  /\ UNCHANGED <<started, starts, parts, listening, loop, conns, known, proc, played, broken>>

(* db_account_ensure_table_exist, and the start is done *)
StartEnd ==
  /\ Main("started", "idle")
  /\ started' = TRUE
  /\ UNCHANGED <<starts, parts, nodes, listening, loop, conns, known, proc, played, broken>>

-----------------------------------------------------------------------------
(* service_stop.  The thread that rpc_service_stop joins first was never    *)
(* created and the join returns at once.  Connections stay open.            *)

StopBegin ==
  /\ Main("idle", "exit") /\ started
  /\ listening' = FALSE
  /\ UNCHANGED <<started, starts, parts, nodes, loop, conns, known, proc, played, broken>>

(* uv_async_send, to a handle that is closed when the loop is exiting *)
StopLoop ==
  /\ Main("exit", "dispatch")
  /\ loop' = IF loop = "running" THEN "asked" ELSE loop
  /\ UNCHANGED <<started, starts, parts, nodes, listening, conns, known, proc, played, broken>>

rpc_dispatch_destroy ==
  /\ Main("dispatch", "connections")
  /\ nodes' = <<>> /\ parts' = parts \ {"dispatch"}
  /\ UNCHANGED <<started, starts, listening, loop, conns, known, proc, played, broken>>

(* rpc_io_destroy: the connections first, ... *)
StopConnections ==
  /\ Main("connections", "pool")
  /\ known' = {}
  /\ UNCHANGED <<started, starts, parts, nodes, listening, loop, conns, proc, played, broken>>

(* Mutant of StopPool: rpc_io_destroy does not wait for the processors. *)
StopPoolAtOnce ==
  /\ Main("pool", "clean")
  /\ parts' = parts \ {"io"}
  /\ UNCHANGED <<started, starts, nodes, listening, loop, conns, known, proc, played, broken>>

(* Mutant of StopPool: it also waits until the clients are gone. *)
StopPoolForClients ==
  /\ Main("pool", "clean")
  /\ \A p \in Processors : proc[p].pc = "idle"
  /\ conns = {}
  /\ parts' = parts \ {"io"}
  /\ UNCHANGED <<started, starts, nodes, listening, loop, conns, known, proc, played, broken>>

(* ... then it waits for the processors *)
StopPool ==
  /\ Main("pool", "clean")
  /\ \A p \in Processors : proc[p].pc = "idle"
  /\ parts' = parts \ {"io"}
  /\ UNCHANGED <<started, starts, nodes, listening, loop, conns, known, proc, played, broken>>

(* service_clean: the releases in online_session_destroy and                *)
(* session_device_destroy return when nothing is referenced.                *)
service_clean ==
  /\ Main("clean", "idle")
  /\ ~played
  /\ parts' = parts \ {"timer", "sessions", "devices"}
  /\ started' = FALSE
  /\ UNCHANGED <<starts, nodes, listening, loop, conns, known, proc, played, broken>>

-----------------------------------------------------------------------------
(* The loop *)

connection_cb(c) ==
  /\ ~broken /\ listening /\ loop # "none" /\ c \notin conns
  /\ conns' = conns \cup {c} /\ known' = known \cup {c}
  /\ UNCHANGED <<main, started, starts, parts, nodes, listening, loop, proc, played, broken>>

(* read_cb with a request: rpc_io_enqueue finds the connection, and a       *)
(* processor takes it.                                                      *)
Receive(c, p, kind) ==
  /\ ~broken /\ c \in conns /\ loop # "none"
  /\ IF c \notin known THEN Break
     ELSE /\ proc[p].pc = "idle"
          /\ proc' = [proc EXCEPT ![p] = [pc |-> "walk", kind |-> kind, conn |-> c]]
          /\ UNCHANGED <<main, started, starts, parts, nodes, listening, loop, conns, known, played, broken>>

(* The client closes its end: shutdown_cb, rpc_io_del *)
Close(c) ==
  /\ ~broken /\ c \in conns /\ loop # "none"
  /\ conns' = conns \ {c} /\ known' = known \ {c}
  /\ UNCHANGED <<main, started, starts, parts, nodes, listening, loop, proc, played, broken>>

exit_async_cb ==
  /\ ~broken /\ loop = "asked"
  /\ loop' = "exiting"
  /\ UNCHANGED <<main, started, starts, parts, nodes, listening, conns, known, proc, played, broken>>

(* uv_run returns when no handle is left, and the thread ends. *)
rpc_core_uvloop_env ==
  /\ ~broken /\ loop = "exiting" /\ conns = {} /\ ~listening
  /\ loop' = "none"
  /\ UNCHANGED <<main, started, starts, parts, nodes, listening, conns, known, proc, played, broken>>

-----------------------------------------------------------------------------
(* The processors *)

(* rpc_dispatch_processor: the list may have been freed since the processor *)
(* took the request, and with it the node the walk is at.                   *)
Dispatch(p) ==
  /\ ~broken /\ proc[p].pc = "walk"
  /\ IF "dispatch" \notin parts THEN Break
     ELSE /\ proc' = [proc EXCEPT ![p].pc = IF \E i \in 1..Len(nodes) : nodes[i] = proc[p].kind
                                            THEN "handler" ELSE "reply"]
          /\ UNCHANGED <<main, started, starts, parts, nodes, listening, loop, conns, known, played, broken>>

(* A play of a client that does not stop it, or that does *)
Handle(p) ==
  /\ ~broken /\ proc[p].pc = "handler"
  /\ \E kept \in BOOLEAN : played' = (played \/ (kept /\ proc[p].kind = "play"))
  /\ proc' = [proc EXCEPT ![p].pc = "reply"]
  /\ UNCHANGED <<main, started, starts, parts, nodes, listening, loop, conns, known, broken>>

(* The answer goes to the queue of the connection, which may be freed. *)
Reply(p) ==
  /\ ~broken /\ proc[p].pc = "reply"
  /\ IF proc[p].conn \notin known THEN Break
     ELSE /\ proc' = [proc EXCEPT ![p] = NoRequest]
          /\ UNCHANGED <<main, started, starts, parts, nodes, listening, loop, conns, known, played, broken>>

-----------------------------------------------------------------------------

Starting ==
  \/ rpc_ensure_uv_loop_inited \/ StartInit \/ StartNoLoop \/ StartFail \/ StartListen
  \/ service_bootstrap \/ register_all_reqeust_handler \/ StartEnd

Stopping == StopLoop \/ rpc_dispatch_destroy \/ StopConnections \/ StopPool \/ service_clean

Processor(p) == Dispatch(p) \/ Handle(p) \/ Reply(p)

ServiceNext ==
  \/ StartBegin \/ Starting \/ StopBegin \/ Stopping
  \/ \E c \in Conns : connection_cb(c) \/ Close(c)
  \/ \E c \in Conns, p \in Processors, i \in 1..Len(Handlers) : Receive(c, p, Handlers[i])
  \/ exit_async_cb \/ rpc_core_uvloop_env
  \/ \E p \in Processors : Processor(p)

ServiceSpec == ServiceInit /\ [][ServiceNext]_serviceVars

(* The main thread and the processors run; nobody has to connect or send. *)
ServiceFairness ==
  /\ WF_serviceVars(Starting \/ Stopping)
  /\ \A p \in Processors : WF_serviceVars(Processor(p))

-----------------------------------------------------------------------------

(***************************************************************************)
(* A handler that runs finds every part it works with, although requests   *)
(* are taken as soon as the port is open and until after the parts began   *)
(* to go down, and in a second start as in the first one                   *)
(* (service_bootstrap, service_clean).                                     *)
(***************************************************************************)
HandlerHasAll == \A p \in Processors : proc[p].pc = "handler" => Needs(proc[p].kind) \subseteq parts

(***************************************************************************)
(* service_stop returns unless a play was left behind or the dispatch      *)
(* list, a connection or the loop was used after it was freed.  It does    *)
(* not wait for the clients to go.                                         *)
(***************************************************************************)
StopReturns == (main = "exit") ~> (main = "idle" \/ played \/ broken)
============================================================================
