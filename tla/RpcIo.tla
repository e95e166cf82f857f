------------------------------- MODULE RpcIo -------------------------------
(***************************************************************************)
(* The I/O core of rpcprovider/rpc_io.c: connections with their queues of  *)
(* outgoing bodies, the processors that answer requests, the sender thread *)
(* with its signal queue, and the shutdown.                                *)
(*                                                                         *)
(* Threads: the network loop (rpc_service.c: connection_cb, read_cb,       *)
(* shutdown_cb), the processors of the pool, the sender rpc_io_routine and *)
(* the main thread in rpc_io_destroy.  The queues behave as RpcQueue shows *)
(* them to (FIFO, one critical section per call; a blocked get ends by a   *)
(* push or by stop: the wakeup without a cause that ends the sender for    *)
(* good is a finding of RpcQueue and left out here), the pool as           *)
(* RpcThreadPool does (requests are taken in order, each one once;         *)
(* tp_kill_wait returns when all are processed).  A request arrives whole. *)
(*                                                                         *)
(* Connection structures are freed by rpc_io_del while tasks, processors,  *)
(* the signal queue and the sender point to them.  What a thread reads     *)
(* from freed memory is either what was there or nothing it can use, and   *)
(* what it writes there is lost.  The shell of a request stays inside the  *)
(* receive buffer of its connection: another request of the connection may *)
(* overwrite or free it, and an answer in the making writes to it.         *)
(***************************************************************************)
EXTENDS Naturals, Sequences, FiniteSets

CONSTANTS
  Processors,   \* threads of io_processor_pool
  Fds,          \* file descriptors; the system reuses them
  MaxConns,     \* bound: connections ever accepted
  MaxMsgs,      \* bound: requests received and messages notified
  MaxPosts,     \* bound: of them, requests that want no answer
  MaxNotes      \* bound: of them, messages notified

ASSUME BoundsAssumption == {MaxConns, MaxMsgs, MaxPosts, MaxNotes} \subseteq Nat

Conns == 1..MaxConns    \* rpc_io_t structures, in the order they are allocated
Msgs == 1..MaxMsgs      \* requests and notified messages
NoConn == 0
NoMsg == 0
Kinds == {"get", "post", "note"}   \* shell.req of a request; a notified message
MaxOfKind == [get |-> MaxMsgs, post |-> MaxPosts, note |-> MaxNotes]

VARIABLES
  life,     \* life[c]: "unborn" | "open" (in io_list) | "freed"
  fdOf,     \* fdOf[c]: child->fd, kept as stale memory when c is freed
  send,     \* send[c]: the bodies in child->send
  sent,     \* sent[c]: the bodies handed to the stream of c
  nmsg,     \* messages so far
  owner,    \* owner[m]: the connection of message m
  kind,     \* kind[m]
  mixed,    \* requests in progress together with another one of their connection
  tasks,    \* the requests queued in the pool
  proc,     \* proc[p]: what processor p does, and for which message
  signalq,  \* io_send.signal_queue
  spc, sio, \* the sender: "top" | "serve" | "done", and the connection it serves
  mpc       \* rpc_io_destroy: "running" | "closing" | "joining" | "pool" | "done";
            \* "crash" when the process died on a null pointer

connVars == <<life, fdOf, send, sent>>
msgVars == <<nmsg, owner, kind, mixed>>
senderVars == <<spc, sio>>
vars == <<connVars, msgVars, tasks, proc, signalq, senderVars, mpc>>

Idle == [pc |-> "idle", msg |-> NoMsg]

Init ==
  /\ life = [c \in Conns |-> "unborn"]
  /\ fdOf = [c \in Conns |-> "none"]
  /\ send = [c \in Conns |-> <<>>]
  /\ sent = [c \in Conns |-> <<>>]
  /\ nmsg = 0
  /\ owner = [m \in Msgs |-> NoConn]
  /\ kind = [m \in Msgs |-> "get"]
  /\ mixed = {}
  /\ tasks = <<>>
  /\ proc = [p \in Processors |-> Idle]
  /\ signalq = <<>>
  /\ spc = "top" /\ sio = NoConn
  /\ mpc = "running"

Open(c) == c # NoConn /\ life[c] = "open"

Running == mpc # "crash"

(* rpc_io_find: the open connection with descriptor f, or none. *)
Find(f) ==
  LET found == {c \in Conns : Open(c) /\ fdOf[c] = f}
  IN  IF found = {} THEN NoConn ELSE CHOOSE c \in found : TRUE

(* The requests of connection c whose shell is still in use. *)
Unfinished(c) ==
  {m \in Msgs : /\ owner[m] = c /\ kind[m] # "note"
                /\ \/ \E i \in 1..Len(tasks) : tasks[i] = m
                   \/ \E p \in Processors :
                        proc[p].pc \in {"handling", "reply"} /\ proc[p].msg = m}

-----------------------------------------------------------------------------
(* The network loop *)

(* connection_cb and rpc_io_add: a descriptor in use is not accepted again. *)
Accept(c, f) ==
  /\ mpc = "running"
  /\ life[c] = "unborn" /\ \A d \in 1..(c - 1) : life[d] # "unborn"
  /\ \A d \in Conns : Open(d) => fdOf[d] # f
  /\ life' = [life EXCEPT ![c] = "open"]
  /\ fdOf' = [fdOf EXCEPT ![c] = f]
  /\ UNCHANGED <<send, sent, msgVars, tasks, proc, signalq, senderVars, mpc>>

(* A new message of kind k for connection c. *)
NewMsg(c, k) ==
  /\ nmsg < MaxMsgs
  /\ Cardinality({m \in 1..nmsg : kind[m] = k}) < MaxOfKind[k]
  /\ nmsg' = nmsg + 1
  /\ owner' = [owner EXCEPT ![nmsg + 1] = c]
  /\ kind' = [kind EXCEPT ![nmsg + 1] = k]

(* read_cb, rpc_io_enqueue: one complete packet becomes a task that keeps   *)
(* a pointer to the connection and to the shell in its receive buffer.      *)
Receive(c, k) ==
  /\ Open(c)
  /\ NewMsg(c, k)
  /\ tasks' = Append(tasks, nmsg + 1)
  /\ mixed' = IF Unfinished(c) = {} THEN mixed
                                    ELSE mixed \cup Unfinished(c) \cup {nmsg + 1}
  /\ UNCHANGED <<connVars, proc, signalq, senderVars, mpc>>

(* The bodies still queued are thrown away, the structure is freed. *)
Discard(c) ==
  /\ life' = [life EXCEPT ![c] = "freed"]
  /\ send' = [send EXCEPT ![c] = <<>>]
  /\ sent' = [sent EXCEPT ![c] = <<>>]
  /\ UNCHANGED fdOf

(* shutdown_cb and rpc_io_del, when the peer is gone. *)
Del(c) ==
  /\ Open(c)
  /\ Discard(c)
  /\ UNCHANGED <<msgVars, tasks, proc, signalq, senderVars, mpc>>

-----------------------------------------------------------------------------
(* rpc_io_processor, and rpc_io_nodify_fd for one connection *)

Begin(p) ==
  /\ proc[p].pc = "idle" /\ tasks # <<>>
  /\ proc' = [proc EXCEPT ![p] = [pc |-> "handling", msg |-> Head(tasks)]]
  /\ tasks' = Tail(tasks)
  /\ UNCHANGED <<connVars, msgVars, signalq, senderVars, mpc>>

(* The handler returned; shell->req, read through the pointer, says whether *)
(* an answer is wanted.                                                     *)
Handled(p) ==
  /\ proc[p].pc = "handling"
  /\ \E pc \in {"reply", "signal"} :
       /\ Open(owner[proc[p].msg]) /\ proc[p].msg \notin mixed =>
            pc = IF kind[proc[p].msg] = "post" THEN "signal" ELSE "reply"
       /\ proc' = [proc EXCEPT ![p].pc = pc]
  /\ UNCHANGED <<connVars, msgVars, tasks, signalq, senderVars, mpc>>

(* A handler's thread, or the caller of a request on the client, notifies   *)
(* the connection with descriptor f (notify_type 1).                        *)
Notify(p, f) ==
  /\ mpc = "running" /\ proc[p].pc = "idle"
  /\ \E c \in Conns :
       /\ Open(c) /\ fdOf[c] = f
       /\ NewMsg(c, "note")
  /\ UNCHANGED mixed
  /\ proc' = [proc EXCEPT ![p] = [pc |-> "reply", msg |-> nmsg + 1]]
  /\ UNCHANGED <<connVars, tasks, signalq, senderVars, mpc>>

(* rpc_queue_push on child->send *)
Reply(p) ==
  /\ proc[p].pc = "reply"
  /\ LET c == owner[proc[p].msg] IN
       send' = IF Open(c) THEN [send EXCEPT ![c] = Append(@, proc[p].msg)] ELSE send
  /\ proc' = [proc EXCEPT ![p].pc = "signal"]
  /\ UNCHANGED <<life, fdOf, sent, msgVars, tasks, signalq, senderVars, mpc>>

(* Who is signalled for message m: the connection the task points to; a     *)
(* notified connection is looked up again, and may be gone (NULL).          *)
Target(m) == IF kind[m] = "note" THEN Find(fdOf[owner[m]]) ELSE owner[m]

(* rpc_queue_push on signal_queue; lost when the queue is destroyed. *)
PushSignal(p) ==
  /\ proc[p].pc = "signal"
  /\ signalq' = IF mpc \in {"pool", "done"} THEN signalq
                                            ELSE Append(signalq, Target(proc[p].msg))
  /\ proc' = [proc EXCEPT ![p] = Idle]
  /\ mixed' = mixed \ {proc[p].msg}
  /\ UNCHANGED <<connVars, nmsg, owner, kind, tasks, senderVars, mpc>>

-----------------------------------------------------------------------------
(* The sender, rpc_io_routine *)

(* A connection to serve; io->fd of a null pointer ends the process. *)
SenderTake ==
  /\ spc = "top" /\ signalq # <<>>
  /\ sio' = Head(signalq)
  /\ signalq' = Tail(signalq)
  /\ spc' = "serve"
  /\ mpc' = IF sio' = NoConn THEN "crash" ELSE mpc
  /\ UNCHANGED <<connVars, msgVars, tasks, proc>>

(* What rpc_io_get can find for io->fd: the open connection with that       *)
(* descriptor, or none.                                                     *)
Found ==
  {Find(fdOf[sio])} \cup (IF Open(sio) THEN {} ELSE {NoConn})

(* Mutant of SenderSend: the body stays in the queue. *)
SenderSendPeek ==
  /\ spc = "serve"
  /\ \E c \in Found \ {NoConn} :
       /\ send[c] # <<>>
       /\ sent' = IF Open(sio) THEN [sent EXCEPT ![sio] = Append(@, Head(send[c]))]
                               ELSE sent
       /\ Len(sent[sio]) < MaxMsgs
  /\ UNCHANGED <<life, fdOf, send, msgVars, tasks, proc, signalq, senderVars, mpc>>

(* One body goes to the stream of the connection that was signalled; the    *)
(* stream of a freed connection is gone.                                    *)
SenderSend ==
  /\ spc = "serve"
  /\ \E c \in Found \ {NoConn} :
       /\ send[c] # <<>>
       /\ send' = [send EXCEPT ![c] = Tail(@)]
       /\ sent' = IF Open(sio) THEN [sent EXCEPT ![sio] = Append(@, Head(send[c]))]
                               ELSE sent
  /\ UNCHANGED <<life, fdOf, msgVars, tasks, proc, signalq, senderVars, mpc>>

(* Mutant of SenderNext: one body per signal. *)
SenderNextEarly ==
  /\ spc = "serve"
  /\ spc' = "top" /\ sio' = NoConn
  /\ UNCHANGED <<connVars, msgVars, tasks, proc, signalq, mpc>>

(* rpc_io_get finds no connection or an empty queue. *)
SenderNext ==
  /\ spc = "serve"
  /\ \E c \in Found : c # NoConn => send[c] = <<>>
  /\ spc' = "top" /\ sio' = NoConn
  /\ UNCHANGED <<connVars, msgVars, tasks, proc, signalq, mpc>>

(* Mutant of SenderEnd: stop wakes nobody, the sender waits for a signal. *)
SenderEndSignalled ==
  /\ spc = "top" /\ mpc = "joining" /\ signalq # <<>>
  /\ spc' = "done"
  /\ UNCHANGED <<connVars, msgVars, tasks, proc, signalq, sio, mpc>>

(* io_send.abort is seen, or the stopped queue is empty. *)
SenderEnd ==
  /\ spc = "top" /\ mpc = "joining"
  /\ spc' = "done"
  /\ UNCHANGED <<connVars, msgVars, tasks, proc, signalq, sio, mpc>>

-----------------------------------------------------------------------------
(* rpc_io_destroy *)

DestroyStart ==
  /\ mpc = "running"
  /\ mpc' = "closing"
  /\ UNCHANGED <<connVars, msgVars, tasks, proc, signalq, senderVars>>

DestroyConn(c) ==
  /\ mpc = "closing" /\ Open(c)
  /\ Discard(c)
  /\ UNCHANGED <<msgVars, tasks, proc, signalq, senderVars, mpc>>

(* abort, rpc_queue_stop: the sender is asked to end. *)
DestroyAbort ==
  /\ mpc = "closing" /\ \A c \in Conns : ~Open(c)
  /\ mpc' = "joining"
  /\ UNCHANGED <<connVars, msgVars, tasks, proc, signalq, senderVars>>

(* The sender is joined, the signal queue drained and destroyed. *)
DestroyQueue ==
  /\ mpc = "joining" /\ spc = "done"
  /\ signalq' = <<>>
  /\ mpc' = "pool"
  /\ UNCHANGED <<connVars, msgVars, tasks, proc, senderVars>>

(* rpc_tp_destroy with tp_kill_wait *)
DestroyPool ==
  /\ mpc = "pool" /\ tasks = <<>> /\ \A p \in Processors : proc[p].pc = "idle"
  /\ mpc' = "done"
  /\ UNCHANGED <<connVars, msgVars, tasks, proc, signalq, senderVars>>

-----------------------------------------------------------------------------

Loop ==
  /\ Running
  /\ \E c \in Conns : \/ \E f \in Fds : Accept(c, f)
                      \/ \E k \in {"get", "post"} : Receive(c, k)
                      \/ Del(c)

Processor(p) == Running /\ (Begin(p) \/ Handled(p) \/ Reply(p) \/ PushSignal(p))

Sender == Running /\ (SenderTake \/ SenderSend \/ SenderNext \/ SenderEnd)

Destroy ==
  \/ \E c \in Conns : DestroyConn(c)
  \/ DestroyAbort \/ DestroyQueue \/ DestroyPool

Next ==
  \/ Loop
  \/ \E p \in Processors : Processor(p) \/ \E f \in Fds : Notify(p, f)
  \/ Sender
  \/ DestroyStart \/ Destroy

(***************************************************************************)
(* Fairness: the threads of the program run.  Peers need not connect, send *)
(* or go away, and nobody needs to stop the service.                       *)
(***************************************************************************)
Fairness ==
  /\ \A p \in Processors : WF_vars(Processor(p))
  /\ WF_vars(Sender)
  /\ WF_vars(Destroy)

Spec == Init /\ [][Next]_vars

FairSpec == Spec /\ Fairness

-----------------------------------------------------------------------------

(* The type of the I/O state. *)
TypeOK ==
  /\ life \in [Conns -> {"unborn", "open", "freed"}]
  /\ fdOf \in [Conns -> Fds \cup {"none"}]
  /\ send \in [Conns -> Seq(Msgs)]
  /\ sent \in [Conns -> Seq(Msgs)]
  /\ nmsg \in 0..MaxMsgs
  /\ owner \in [Msgs -> Conns \cup {NoConn}]
  /\ kind \in [Msgs -> Kinds]
  /\ mixed \subseteq Msgs
  /\ tasks \in Seq(Msgs)
  /\ proc \in [Processors -> [pc : {"idle", "handling", "reply", "signal"},
                              msg : Msgs \cup {NoMsg}]]
  /\ signalq \in Seq(Conns \cup {NoConn})
  /\ spc \in {"top", "serve", "done"}
  /\ sio \in Conns \cup {NoConn}
  /\ mpc \in {"running", "closing", "joining", "pool", "done", "crash"}

(* A thread or the signal queue will bring the sender to connection c. *)
Signalled(c) ==
  \/ \E i \in 1..Len(signalq) : signalq[i] = c
  \/ \E p \in Processors : proc[p].pc = "signal" /\ owner[proc[p].msg] = c
  \/ spc = "serve" /\ sio = c

(***************************************************************************)
(* No body waits unnoticed: the queue of an open connection that is not    *)
(* empty is signalled, being served, or its producer has yet to signal.    *)
(* The sender looks at a queue for no other reason.                        *)
(***************************************************************************)
SignalCovers == \A c \in Conns : Open(c) /\ send[c] # <<>> => Signalled(c)

(* Everything that went or will go out on connection c. *)
Outbound(c) == sent[c] \o send[c]

(***************************************************************************)
(* Answers go to the connection that asked and no message goes out twice,  *)
(* even when descriptors are reused while old signals are around.          *)
(***************************************************************************)
RightConnectionOnce ==
  \A c \in Conns :
    Open(c) => /\ \A i \in 1..Len(Outbound(c)) : owner[Outbound(c)[i]] = c
               /\ \A i, j \in 1..Len(Outbound(c)) : Outbound(c)[i] = Outbound(c)[j] => i = j

(* Someone still points to a freed connection. *)
Dangling ==
  \E c \in Conns :
    /\ life[c] = "freed"
    /\ \/ Signalled(c)
       \/ \E p \in Processors : proc[p].pc # "idle" /\ owner[proc[p].msg] = c
       \/ \E i \in 1..Len(tasks) : owner[tasks[i]] = c

Sent(m) == owner[m] # NoConn /\ \E i \in 1..Len(sent[owner[m]]) : sent[owner[m]][i] = m

(* Message m is on its way: queued as a task, with a processor, or to send. *)
Pending(m) ==
  \/ \E i \in 1..Len(tasks) : tasks[i] = m
  \/ \E p \in Processors : proc[p].pc \in {"handling", "reply"} /\ proc[p].msg = m
  \/ \E c \in Conns : \E i \in 1..Len(send[c]) : send[c][i] = m

(***************************************************************************)
(* Every request that wants an answer gets one, and every notified message *)
(* goes out, unless its connection closes, it shared its connection with   *)
(* another request in progress (whose shell it may have taken for its own) *)
(* or something still points to a freed connection (whose descriptor a new *)
(* connection may have).                                                   *)
(***************************************************************************)
ReplySent ==
  \A m \in Msgs :
    (kind[m] # "post" /\ Pending(m))
      ~> (Sent(m) \/ ~Open(owner[m]) \/ m \in mixed \/ Dangling \/ mpc # "running")

(***************************************************************************)
(* rpc_io_destroy returns, whatever the sender and the processors were     *)
(* doing when it was called, or the process dies of a notification whose   *)
(* connection is gone: nobody it joins waits for it.                       *)
(***************************************************************************)
DestroyReturns == (mpc = "closing") ~> (mpc \in {"done", "crash"})

-----------------------------------------------------------------------------
(* The inductive invariant *)

(* A descriptor belongs to one open connection. *)
FdUnique ==
  \A c, d \in Conns : Open(c) /\ Open(d) /\ fdOf[c] = fdOf[d] => c = d

(* Nothing is open any more when the sender is told to end. *)
ClosedFirst ==
  mpc \in {"joining", "pool", "done"} => \A c \in Conns : ~Open(c)

(* Only an open connection has bodies to send. *)
QueuedWhenOpen == \A c \in Conns : send[c] # <<>> => Open(c)

(* What is queued and processed are messages there have been. *)
KnownMsgs ==
  /\ \A i \in 1..Len(tasks) : tasks[i] \in 1..nmsg
  /\ \A p \in Processors : proc[p].pc # "idle" => proc[p].msg \in 1..nmsg
  /\ \A m \in 1..nmsg : owner[m] \in Conns

AtWork(p) == proc[p].pc \in {"handling", "reply"}

(* A message is in one place: a task, with a processor, or on its way out   *)
(* on its own connection.                                                   *)
OnePlace ==
  /\ \A i, j \in 1..Len(tasks) : tasks[i] = tasks[j] => i = j
  /\ \A p, q \in Processors : AtWork(p) /\ AtWork(q) /\ proc[p].msg = proc[q].msg => p = q
  /\ \A p \in Processors : AtWork(p) => \A i \in 1..Len(tasks) : tasks[i] # proc[p].msg

OutboundSound ==
  \A c \in Conns : \A i \in 1..Len(Outbound(c)) :
    /\ Outbound(c)[i] \in 1..nmsg /\ owner[Outbound(c)[i]] = c
    /\ \A j \in 1..Len(Outbound(c)) : Outbound(c)[i] = Outbound(c)[j] => i = j
    /\ \A j \in 1..Len(tasks) : tasks[j] # Outbound(c)[i]
    /\ \A p \in Processors : AtWork(p) => proc[p].msg # Outbound(c)[i]

(* The strengthening that RpcIoProofs shows inductive. *)
IInv ==
  /\ TypeOK /\ FdUnique /\ ClosedFirst /\ QueuedWhenOpen /\ KnownMsgs
  /\ OnePlace /\ OutboundSound /\ SignalCovers
=============================================================================
