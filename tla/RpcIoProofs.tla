---------------------------- MODULE RpcIoProofs ----------------------------
(***************************************************************************)
(* Machine-checked proofs about RpcIo, for every set of processors and     *)
(* descriptors and all numbers of connections and messages.                *)
(***************************************************************************)
EXTENDS RpcIo, TLAPS

(* What Append does to a sequence, element by element. *)
LEMMA AppendFacts ==
  ASSUME NEW S, NEW s \in Seq(S), NEW e \in S
  PROVE  /\ Append(s, e) \in Seq(S)
         /\ Len(Append(s, e)) = Len(s) + 1
         /\ Append(s, e)[Len(s) + 1] = e
         /\ \A i \in 1..Len(s) : Append(s, e)[i] = s[i]
         /\ \A i \in 1..Len(Append(s, e)) : i \in 1..Len(s) \/ i = Len(s) + 1
OBVIOUS

(* What Head and Tail give of a sequence that is not empty. *)
LEMMA TailFacts ==
  ASSUME NEW S, NEW s \in Seq(S), s # <<>>
  PROVE  /\ Head(s) \in S
         /\ Tail(s) \in Seq(S)
         /\ Len(s) \in Nat \ {0}
         /\ Len(Tail(s)) = Len(s) - 1
         /\ Head(s) = s[1]
         /\ \A i \in 1..Len(Tail(s)) : Tail(s)[i] = s[i + 1] /\ i + 1 \in 1..Len(s)
         /\ \A i \in 1..Len(s) : i = 1 \/ (i - 1 \in 1..Len(Tail(s)) /\ Tail(s)[i - 1] = s[i])
OBVIOUS

(* The sender moves a body from the queue to the stream. *)
LEMMA MoveFacts ==
  ASSUME NEW S, NEW s \in Seq(S), NEW t \in Seq(S), t # <<>>
  PROVE  Append(s, Head(t)) \o Tail(t) = s \o t
OBVIOUS

(* The sender throws a body away. *)
LEMMA DropFacts ==
  ASSUME NEW S, NEW s \in Seq(S), NEW t \in Seq(S), t # <<>>
  PROVE  /\ Len(s \o t) \in Nat /\ Len(s \o Tail(t)) = Len(s \o t) - 1
         /\ \A i \in 1..Len(s \o Tail(t)) :
              (s \o Tail(t))[i] = (s \o t)[IF i <= Len(s) THEN i ELSE i + 1]
OBVIOUS

(* A processor queues a body. *)
LEMMA PushFacts ==
  ASSUME NEW S, NEW s \in Seq(S), NEW t \in Seq(S), NEW e \in S
  PROVE  s \o Append(t, e) = Append(s \o t, e) /\ s \o t \in Seq(S)
OBVIOUS

(* rpc_io_find returns the open connection, when there is one. *)
LEMMA FindFacts ==
  ASSUME NEW f
  PROVE  /\ Find(f) = NoConn \/ (Find(f) \in Conns /\ Open(Find(f)) /\ fdOf[Find(f)] = f)
         /\ \A c \in Conns : Open(c) /\ fdOf[c] = f => Find(f) # NoConn
<1> DEFINE found == {c \in Conns : Open(c) /\ fdOf[c] = f}
<1>1. CASE found = {}
  BY <1>1 DEF Find
<1>2. CASE found # {}
  <2>1. Find(f) = CHOOSE c \in found : TRUE
    BY <1>2 DEF Find
  <2>2. Find(f) \in found
    BY <1>2, <2>1
  <2>3. QED
    BY <2>2 DEF Conns, NoConn
<1>3. QED
  BY <1>1, <1>2

(* Among open connections the one with the descriptor is found. *)
LEMMA FindOpen ==
  ASSUME FdUnique, NEW c \in Conns, Open(c)
  PROVE  Find(fdOf[c]) = c
BY FindFacts DEF FdUnique

(* The state rpc_io_init makes. *)
LEMMA IoInit == Init => IInv
<1> SUFFICES ASSUME Init PROVE IInv
  OBVIOUS
<1>1. TypeOK
  BY BoundsAssumption DEF Init, TypeOK, Idle, Kinds, Msgs, Conns, NoMsg, NoConn
<1>2. FdUnique /\ ClosedFirst
  BY DEF Init, FdUnique, ClosedFirst, Open
<1>3. KnownMsgs
  BY DEF Init, KnownMsgs, Idle
<1>4. OnePlace /\ OutboundSound
  <2>1. \A c \in Conns : Len(Outbound(c)) = 0
    BY DEF Init, Outbound
  <2>2. QED
    BY <2>1 DEF Init, OnePlace, OutboundSound, AtWork, Idle
<1>5. SignalCovers /\ QueuedWhenOpen
  BY DEF Init, SignalCovers, QueuedWhenOpen, Open
<1>6. QED
  BY <1>1, <1>2, <1>3, <1>4, <1>5 DEF IInv

-----------------------------------------------------------------------------
(* The type of the state *)

(* A message that is new keeps the types and what is known of the old ones. *)
LEMMA NewMsgFacts ==
  ASSUME TypeOK, NEW c \in Conns, NEW k \in Kinds, NewMsg(c, k)
  PROVE  /\ nmsg + 1 \in Msgs /\ nmsg \in Nat /\ nmsg' = nmsg + 1
         /\ nmsg' \in 0..MaxMsgs
         /\ owner' \in [Msgs -> Conns \cup {NoConn}]
         /\ kind' \in [Msgs -> Kinds]
         /\ owner'[nmsg + 1] = c
         /\ \A m \in 1..nmsg : owner'[m] = owner[m] /\ m \in Msgs
<1>1. nmsg + 1 \in Msgs /\ nmsg \in Nat /\ nmsg' = nmsg + 1 /\ nmsg' \in 0..MaxMsgs
  BY BoundsAssumption DEF TypeOK, NewMsg, Msgs
<1>2. owner' \in [Msgs -> Conns \cup {NoConn}] /\ kind' \in [Msgs -> Kinds]
  BY <1>1 DEF TypeOK, NewMsg
<1>3. owner'[nmsg + 1] = c
  BY <1>1 DEF TypeOK, NewMsg
<1>4. \A m \in 1..nmsg : owner'[m] = owner[m] /\ m \in Msgs
  BY <1>1, BoundsAssumption DEF TypeOK, NewMsg, Msgs
<1>5. QED
  BY <1>1, <1>2, <1>3, <1>4

(* What a processor at work refers to. *)
LEMMA WorkFacts ==
  ASSUME TypeOK, KnownMsgs, NEW p \in Processors, proc[p].pc # "idle"
  PROVE  /\ proc[p].msg \in 1..nmsg /\ proc[p].msg \in Msgs
         /\ owner[proc[p].msg] \in Conns
         /\ proc[p] \in [pc : {"idle", "handling", "reply", "signal"},
                          msg : Msgs \cup {NoMsg}]
BY BoundsAssumption DEF TypeOK, KnownMsgs, Msgs

(* One step keeps the types. *)
LEMMA TypeStep == TypeOK /\ KnownMsgs /\ [Next]_vars => TypeOK'
<1> SUFFICES ASSUME TypeOK, KnownMsgs, [Next]_vars PROVE TypeOK'
  OBVIOUS
<1> USE DEF connVars, msgVars, senderVars
<1>1. ASSUME NEW c \in Conns, NEW f \in Fds, Accept(c, f) PROVE TypeOK'
  BY <1>1 DEF TypeOK, Accept
<1>2. ASSUME NEW c \in Conns, NEW k \in {"get", "post"}, Receive(c, k) PROVE TypeOK'
  <2>1. k \in Kinds
    BY DEF Kinds
  <2>2. /\ nmsg' \in 0..MaxMsgs /\ nmsg + 1 \in Msgs
        /\ owner' \in [Msgs -> Conns \cup {NoConn}] /\ kind' \in [Msgs -> Kinds]
    BY <1>2, <2>1, NewMsgFacts DEF Receive
  <2>3. tasks' \in Seq(Msgs)
    BY <1>2, <2>2, AppendFacts DEF TypeOK, Receive
  <2>4. mixed' \subseteq Msgs
    BY <1>2, <2>2 DEF TypeOK, Receive, Unfinished
  <2>5. QED
    BY <1>2, <2>2, <2>3, <2>4 DEF TypeOK, Receive
<1>3. ASSUME NEW c \in Conns, Discard(c), UNCHANGED <<msgVars, tasks, proc, signalq, senderVars, mpc>>
      PROVE TypeOK'
  BY <1>3 DEF TypeOK, Discard
<1>4. ASSUME NEW p \in Processors, Begin(p) PROVE TypeOK'
  <2>1. Head(tasks) \in Msgs /\ tasks' \in Seq(Msgs)
    BY <1>4, TailFacts DEF TypeOK, Begin
  <2>2. QED
    BY <1>4, <2>1 DEF TypeOK, Begin
<1>5. ASSUME NEW p \in Processors, Handled(p) PROVE TypeOK'
  <2>1. PICK pc \in {"reply", "signal"} : proc' = [proc EXCEPT ![p].pc = pc]
    BY <1>5 DEF Handled
  <2>2. proc' \in [Processors -> [pc : {"idle", "handling", "reply", "signal"},
                                  msg : Msgs \cup {NoMsg}]]
    BY <2>1 DEF TypeOK
  <2>3. QED
    BY <1>5, <2>2 DEF TypeOK, Handled
<1>6. ASSUME NEW p \in Processors, NEW f \in Fds, Notify(p, f) PROVE TypeOK'
  <2>1. PICK c \in Conns : NewMsg(c, "note")
    BY <1>6 DEF Notify
  <2>2. /\ nmsg' \in 0..MaxMsgs /\ nmsg + 1 \in Msgs
        /\ owner' \in [Msgs -> Conns \cup {NoConn}] /\ kind' \in [Msgs -> Kinds]
    <3>1. "note" \in Kinds
      BY DEF Kinds
    <3>2. QED
      BY <2>1, <3>1, NewMsgFacts
  <2>3. proc' \in [Processors -> [pc : {"idle", "handling", "reply", "signal"},
                                  msg : Msgs \cup {NoMsg}]]
    BY <1>6, <2>2 DEF TypeOK, Notify
  <2>4. QED
    BY <1>6, <2>2, <2>3 DEF TypeOK, Notify
<1>7. ASSUME NEW p \in Processors, Reply(p) PROVE TypeOK'
  <2>1. proc[p].msg \in Msgs /\ owner[proc[p].msg] \in Conns
    BY <1>7, WorkFacts DEF Reply
  <2>2. send' \in [Conns -> Seq(Msgs)]
    <3>1. send[owner[proc[p].msg]] \in Seq(Msgs)
      BY <2>1 DEF TypeOK
    <3>2. Append(send[owner[proc[p].msg]], proc[p].msg) \in Seq(Msgs)
      BY <2>1, <3>1, AppendFacts
    <3>3. QED
      BY <1>7, <3>2 DEF TypeOK, Reply
  <2>3. proc' \in [Processors -> [pc : {"idle", "handling", "reply", "signal"},
                                  msg : Msgs \cup {NoMsg}]]
    BY <1>7 DEF TypeOK, Reply
  <2>4. QED
    BY <1>7, <2>2, <2>3 DEF TypeOK, Reply
<1>8. ASSUME NEW p \in Processors, PushSignal(p) PROVE TypeOK'
  <2>1. owner[proc[p].msg] \in Conns
    BY <1>8, WorkFacts DEF PushSignal
  <2>2. Target(proc[p].msg) \in Conns \cup {NoConn}
    BY <2>1, FindFacts DEF Target
  <2>3. signalq' \in Seq(Conns \cup {NoConn})
    BY <1>8, <2>2, AppendFacts DEF TypeOK, PushSignal
  <2>4. proc' \in [Processors -> [pc : {"idle", "handling", "reply", "signal"},
                                  msg : Msgs \cup {NoMsg}]]
    BY <1>8 DEF TypeOK, PushSignal, Idle
  <2>5. mixed' \subseteq Msgs
    BY <1>8 DEF TypeOK, PushSignal
  <2>6. QED
    BY <1>8, <2>3, <2>4, <2>5 DEF TypeOK, PushSignal
<1>9. ASSUME SenderTake PROVE TypeOK'
  <2>1. sio' \in Conns \cup {NoConn} /\ signalq' \in Seq(Conns \cup {NoConn})
    BY <1>9, TailFacts DEF TypeOK, SenderTake
  <2>2. QED
    BY <1>9, <2>1 DEF TypeOK, SenderTake
<1>10. ASSUME SenderSend PROVE TypeOK'
  <2>1. PICK c \in Found \ {NoConn} :
          /\ send[c] # <<>>
          /\ send' = [send EXCEPT ![c] = Tail(@)]
          /\ sent' = IF Open(sio) THEN [sent EXCEPT ![sio] = Append(@, Head(send[c]))]
                                  ELSE sent
    BY <1>10 DEF SenderSend
  <2>2. c \in Conns
    BY FindFacts DEF Found
  <2>3. send[c] \in Seq(Msgs)
    BY <2>2 DEF TypeOK
  <2>4. Head(send[c]) \in Msgs /\ Tail(send[c]) \in Seq(Msgs)
    BY <2>1, <2>3, TailFacts
  <2>5. send' \in [Conns -> Seq(Msgs)]
    BY <2>1, <2>4 DEF TypeOK
  <2>6. sent' \in [Conns -> Seq(Msgs)]
    <3>1. CASE Open(sio)
      <4>1. sio \in Conns
        BY <3>1 DEF TypeOK, Open
      <4>2. Append(sent[sio], Head(send[c])) \in Seq(Msgs)
        BY <2>4, <4>1, AppendFacts DEF TypeOK
      <4>3. QED
        BY <2>1, <3>1, <4>2 DEF TypeOK
    <3>2. CASE ~Open(sio)
      BY <2>1, <3>2 DEF TypeOK
    <3>3. QED
      BY <3>1, <3>2
  <2>7. QED
    BY <1>10, <2>5, <2>6 DEF TypeOK, SenderSend
<1>11. ASSUME SenderNext PROVE TypeOK'
  BY <1>11 DEF TypeOK, SenderNext
<1>12. ASSUME SenderEnd PROVE TypeOK'
  BY <1>12 DEF TypeOK, SenderEnd
<1>13. ASSUME DestroyStart \/ DestroyAbort \/ DestroyQueue \/ DestroyPool PROVE TypeOK'
  <2>1. CASE DestroyStart
    BY <2>1 DEF TypeOK, DestroyStart
  <2>2. CASE DestroyAbort
    BY <2>2 DEF TypeOK, DestroyAbort
  <2>3. CASE DestroyQueue
    BY <2>3 DEF TypeOK, DestroyQueue
  <2>4. CASE DestroyPool
    BY <2>4 DEF TypeOK, DestroyPool
  <2>5. QED
    BY <1>13, <2>1, <2>2, <2>3, <2>4
<1>14. ASSUME UNCHANGED vars PROVE TypeOK'
  BY <1>14 DEF TypeOK, vars
<1>15. QED
  <2>1. ASSUME Loop PROVE TypeOK'
    BY <2>1, <1>1, <1>2, <1>3 DEF Loop, Del
  <2>2. ASSUME NEW p \in Processors, Processor(p) PROVE TypeOK'
    BY <2>2, <1>4, <1>5, <1>7, <1>8 DEF Processor
  <2>3. ASSUME Sender PROVE TypeOK'
    BY <2>3, <1>9, <1>10, <1>11, <1>12 DEF Sender
  <2>4. ASSUME Destroy PROVE TypeOK'
    BY <2>4, <1>3, <1>13 DEF Destroy, DestroyConn
  <2>5. QED
    BY <2>1, <2>2, <2>3, <2>4, <1>6, <1>13, <1>14 DEF Next

-----------------------------------------------------------------------------
(* The other parts of the invariant *)

(* The steps of Next, side by side. *)
LEMMA StepCases ==
  ASSUME [Next]_vars
  PROVE  \/ \E c \in Conns, f \in Fds : Accept(c, f)
         \/ \E c \in Conns, k \in {"get", "post"} : Receive(c, k)
         \/ \E c \in Conns : Del(c) \/ DestroyConn(c)
         \/ \E p \in Processors : Begin(p) \/ Handled(p) \/ Reply(p) \/ PushSignal(p)
         \/ \E p \in Processors, f \in Fds : Notify(p, f)
         \/ SenderTake \/ SenderSend \/ SenderNext \/ SenderEnd
         \/ DestroyStart \/ DestroyAbort \/ DestroyQueue \/ DestroyPool
         \/ UNCHANGED vars
BY Zenon DEF Next, Loop, Processor, Sender, Destroy

(* Connections that do not change keep FdUnique and, while the shutdown has *)
(* not got further, ClosedFirst.                                            *)
LEMMA ConnsStep ==
  TypeOK /\ FdUnique /\ ClosedFirst /\ [Next]_vars => FdUnique' /\ ClosedFirst'
<1> SUFFICES ASSUME TypeOK, FdUnique, ClosedFirst, [Next]_vars
             PROVE  FdUnique' /\ ClosedFirst'
  OBVIOUS
<1> USE DEF connVars, msgVars, senderVars
<1>1. ASSUME NEW c \in Conns, NEW f \in Fds, Accept(c, f) PROVE FdUnique' /\ ClosedFirst'
  <2>1. life' = [life EXCEPT ![c] = "open"] /\ fdOf' = [fdOf EXCEPT ![c] = f]
        /\ mpc = "running" /\ mpc' = mpc
        /\ \A d \in Conns : Open(d) => fdOf[d] # f
    BY <1>1 DEF Accept
  <2>2. FdUnique'
    BY <2>1 DEF TypeOK, FdUnique, Open
  <2>3. ClosedFirst'
    BY <2>1 DEF ClosedFirst
  <2>4. QED
    BY <2>2, <2>3
<1>2. ASSUME NEW c \in Conns, Discard(c), mpc' = mpc PROVE FdUnique' /\ ClosedFirst'
  BY <1>2 DEF Discard, TypeOK, FdUnique, ClosedFirst, Open
<1>3. ASSUME UNCHANGED <<life, fdOf>>, mpc' = mpc \/ mpc' \in {"closing", "crash"}
      PROVE  FdUnique' /\ ClosedFirst'
  BY <1>3 DEF FdUnique, ClosedFirst, Open
<1>4. CASE DestroyAbort
  BY <1>4 DEF DestroyAbort, FdUnique, ClosedFirst, Open
<1>5. CASE DestroyQueue
  BY <1>5 DEF DestroyQueue, FdUnique, ClosedFirst, Open
<1>6. CASE DestroyPool
  BY <1>6 DEF DestroyPool, FdUnique, ClosedFirst, Open
<1>7. ASSUME NEW p \in Processors, Begin(p) \/ Handled(p) \/ Reply(p) \/ PushSignal(p)
      PROVE  FdUnique' /\ ClosedFirst'
  BY <1>3, <1>7 DEF Begin, Handled, Reply, PushSignal
<1>8. CASE SenderTake \/ SenderSend \/ SenderNext \/ SenderEnd
  BY <1>3, <1>8 DEF SenderTake, SenderSend, SenderNext, SenderEnd
<1>9. ASSUME NEW c \in Conns, Del(c) \/ DestroyConn(c) PROVE FdUnique' /\ ClosedFirst'
  BY <1>2, <1>9 DEF Del, DestroyConn
<1>10. ASSUME NEW c \in Conns, NEW k \in {"get", "post"}, Receive(c, k)
       PROVE  FdUnique' /\ ClosedFirst'
  BY <1>3, <1>10 DEF Receive
<1>11. ASSUME NEW p \in Processors, NEW f \in Fds, Notify(p, f) PROVE FdUnique' /\ ClosedFirst'
  BY <1>3, <1>11 DEF Notify
<1>12. CASE DestroyStart
  BY <1>3, <1>12 DEF DestroyStart
<1>13. CASE UNCHANGED vars
  BY <1>3, <1>13 DEF vars
<1>14. QED
  BY StepCases, <1>1, <1>4, <1>5, <1>6, <1>7, <1>8, <1>9, <1>10, <1>11, <1>12, <1>13

(* Tasks and processors keep referring to messages there have been. *)
LEMMA KnownStep == TypeOK /\ KnownMsgs /\ [Next]_vars => KnownMsgs'
<1> SUFFICES ASSUME TypeOK, KnownMsgs, [Next]_vars PROVE KnownMsgs'
  OBVIOUS
<1> USE DEF connVars, msgVars, senderVars
<1>1. ASSUME NEW c \in Conns, NEW k \in {"get", "post"}, Receive(c, k) PROVE KnownMsgs'
  <2>1. k \in Kinds
    BY DEF Kinds
  <2>2. /\ nmsg \in Nat /\ nmsg' = nmsg + 1 /\ nmsg + 1 \in Msgs
        /\ owner'[nmsg + 1] = c /\ \A m \in 1..nmsg : owner'[m] = owner[m]
    BY <1>1, <2>1, NewMsgFacts DEF Receive
  <2>3. \A i \in 1..Len(tasks') : tasks'[i] \in 1..nmsg'
    BY <1>1, <2>2, AppendFacts DEF Receive, TypeOK, KnownMsgs
  <2>4. \A p \in Processors : proc'[p].pc # "idle" => proc'[p].msg \in 1..nmsg'
    BY <1>1, <2>2 DEF Receive, KnownMsgs
  <2>5. \A m \in 1..nmsg' : owner'[m] \in Conns
    BY <2>2 DEF KnownMsgs
  <2>6. QED
    BY <2>3, <2>4, <2>5 DEF KnownMsgs
<1>2. ASSUME NEW p \in Processors, NEW f \in Fds, Notify(p, f) PROVE KnownMsgs'
  <2>1. PICK c \in Conns : NewMsg(c, "note")
    BY <1>2 DEF Notify
  <2>2. "note" \in Kinds
    BY DEF Kinds
  <2>3. /\ nmsg \in Nat /\ nmsg' = nmsg + 1 /\ nmsg + 1 \in Msgs
        /\ owner'[nmsg + 1] = c /\ \A m \in 1..nmsg : owner'[m] = owner[m]
    BY <2>1, <2>2, NewMsgFacts
  <2>4. \A i \in 1..Len(tasks') : tasks'[i] \in 1..nmsg'
    BY <1>2, <2>3 DEF Notify, KnownMsgs
  <2>5. \A q \in Processors : proc'[q].pc # "idle" => proc'[q].msg \in 1..nmsg'
    BY <1>2, <2>3 DEF Notify, KnownMsgs, TypeOK
  <2>6. \A m \in 1..nmsg' : owner'[m] \in Conns
    BY <2>3 DEF KnownMsgs
  <2>7. QED
    BY <2>4, <2>5, <2>6 DEF KnownMsgs
<1>3. ASSUME NEW p \in Processors, Begin(p) PROVE KnownMsgs'
  <2>1. /\ Head(tasks) \in 1..nmsg
        /\ \A i \in 1..Len(tasks') : tasks'[i] \in 1..nmsg
    BY <1>3, TailFacts DEF Begin, TypeOK, KnownMsgs
  <2>2. \A q \in Processors : proc'[q].pc # "idle" => proc'[q].msg \in 1..nmsg
    BY <1>3, <2>1 DEF Begin, TypeOK, KnownMsgs
  <2>3. QED
    BY <1>3, <2>1, <2>2 DEF Begin, KnownMsgs
<1>4. ASSUME NEW p \in Processors, Handled(p) \/ Reply(p) \/ PushSignal(p) PROVE KnownMsgs'
  <2>1. UNCHANGED <<tasks, nmsg, owner>>
    BY <1>4 DEF Handled, Reply, PushSignal
  <2>2. \A q \in Processors : proc'[q].pc # "idle" => proc'[q].msg \in 1..nmsg
    <3>1. CASE Handled(p)
      <4>1. PICK pc \in {"reply", "signal"} : proc' = [proc EXCEPT ![p].pc = pc]
        BY <3>1 DEF Handled
      <4>2. QED
        BY <3>1, <4>1 DEF Handled, TypeOK, KnownMsgs
    <3>2. CASE Reply(p)
      BY <3>2 DEF Reply, TypeOK, KnownMsgs
    <3>3. CASE PushSignal(p)
      BY <3>3 DEF PushSignal, Idle, TypeOK, KnownMsgs
    <3>4. QED
      BY <1>4, <3>1, <3>2, <3>3
  <2>3. QED
    BY <2>1, <2>2 DEF KnownMsgs
<1>5. ASSUME UNCHANGED <<tasks, proc, nmsg, owner>> PROVE KnownMsgs'
  BY <1>5 DEF KnownMsgs
<1>6. ASSUME NEW c \in Conns, NEW f \in Fds, Accept(c, f) PROVE KnownMsgs'
  BY <1>5, <1>6 DEF Accept
<1>7. ASSUME NEW c \in Conns, Del(c) \/ DestroyConn(c) PROVE KnownMsgs'
  BY <1>5, <1>7 DEF Del, DestroyConn
<1>8. CASE SenderTake \/ SenderSend \/ SenderNext \/ SenderEnd
  BY <1>5, <1>8 DEF SenderTake, SenderSend, SenderNext, SenderEnd
<1>9. CASE DestroyStart \/ DestroyAbort \/ DestroyQueue \/ DestroyPool
  BY <1>5, <1>9 DEF DestroyStart, DestroyAbort, DestroyQueue, DestroyPool
<1>10. CASE UNCHANGED vars
  BY <1>5, <1>10 DEF vars
<1>11. QED
  BY StepCases, <1>1, <1>2, <1>3, <1>4, <1>6, <1>7, <1>8, <1>9, <1>10

(* Places that nobody moves anything to. *)
LEMMA PlaceKept ==
  ASSUME TypeOK, KnownMsgs, OnePlace, OutboundSound,
         tasks' = tasks, nmsg' = nmsg, owner' = owner,
         \A c \in Conns : Outbound(c)' = Outbound(c),
         \A p \in Processors : AtWork(p)' => AtWork(p) /\ proc'[p].msg = proc[p].msg
  PROVE  OnePlace' /\ OutboundSound'
<1>1. OnePlace'
  BY DEF OnePlace
<1>2. OutboundSound'
  BY DEF OutboundSound
<1>3. QED
  BY <1>1, <1>2

(* A connection is freed. *)
LEMMA PlaceDiscard ==
  ASSUME TypeOK, KnownMsgs, OnePlace, OutboundSound, NEW c \in Conns,
         Discard(c), UNCHANGED <<msgVars, tasks, proc>>
  PROVE  OnePlace' /\ OutboundSound'
<1> USE DEF msgVars
<1>1. OnePlace'
  BY DEF OnePlace, AtWork
<1>2. \A d \in Conns : Outbound(d)' = IF d = c THEN <<>> ELSE Outbound(d)
  BY DEF Discard, Outbound, TypeOK
<1>3. Len(Outbound(c)') = 0
  BY <1>2
<1>4. OutboundSound'
  <2> SUFFICES ASSUME NEW d \in Conns, NEW i \in 1..Len(Outbound(d)')
               PROVE  /\ Outbound(d)'[i] \in 1..nmsg' /\ owner'[Outbound(d)'[i]] = d
                      /\ \A j \in 1..Len(Outbound(d)') :
                           Outbound(d)'[i] = Outbound(d)'[j] => i = j
                      /\ \A j \in 1..Len(tasks') : tasks'[j] # Outbound(d)'[i]
                      /\ \A p \in Processors : AtWork(p)' => proc'[p].msg # Outbound(d)'[i]
    BY DEF OutboundSound
  <2>1. d # c
    BY <1>3
  <2>2. Outbound(d)' = Outbound(d)
    BY <1>2, <2>1
  <2>3. QED
    BY <2>2 DEF OutboundSound, AtWork
<1>5. QED
  BY <1>1, <1>4

(* A request comes in. *)
LEMMA PlaceReceive ==
  ASSUME TypeOK, KnownMsgs, OnePlace, OutboundSound,
         NEW c \in Conns, NEW k \in {"get", "post"}, Receive(c, k)
  PROVE  OnePlace' /\ OutboundSound'
<1> USE DEF connVars
<1>1. k \in Kinds
  BY DEF Kinds
<1>2. /\ nmsg \in Nat /\ nmsg' = nmsg + 1 /\ nmsg + 1 \in Msgs
      /\ \A m \in 1..nmsg : owner'[m] = owner[m] /\ m # nmsg + 1
  BY <1>1, NewMsgFacts DEF Receive
<1>3. tasks' = Append(tasks, nmsg + 1) /\ proc' = proc
  BY DEF Receive
<1>4. /\ Len(tasks') = Len(tasks) + 1 /\ tasks'[Len(tasks) + 1] = nmsg + 1
      /\ Len(tasks) \in Nat
      /\ \A i \in 1..Len(tasks) : tasks'[i] = tasks[i] /\ tasks[i] # nmsg + 1
      /\ \A i \in 1..Len(tasks') : i \in 1..Len(tasks) \/ i = Len(tasks) + 1
  BY <1>2, <1>3, AppendFacts DEF TypeOK, KnownMsgs
<1>5. \A p \in Processors : AtWork(p) => proc[p].msg # nmsg + 1
  BY <1>2 DEF AtWork, KnownMsgs
<1>6. \A i, j \in 1..Len(tasks') : tasks'[i] = tasks'[j] => i = j
  BY <1>4 DEF OnePlace
<1>7. \A p \in Processors : AtWork(p)' => \A i \in 1..Len(tasks') : tasks'[i] # proc'[p].msg
  BY <1>3, <1>4, <1>5 DEF OnePlace, AtWork
<1>8. OnePlace'
  BY <1>3, <1>6, <1>7 DEF OnePlace, AtWork
<1>9. \A d \in Conns : Outbound(d)' = Outbound(d)
  BY DEF Outbound, Receive
<1>10. OutboundSound'
  BY <1>2, <1>3, <1>4, <1>9 DEF OutboundSound, AtWork
<1>11. QED
  BY <1>8, <1>10

(* A message is notified. *)
LEMMA PlaceNotify ==
  ASSUME TypeOK, KnownMsgs, OnePlace, OutboundSound,
         NEW p \in Processors, NEW f \in Fds, Notify(p, f)
  PROVE  OnePlace' /\ OutboundSound'
<1> USE DEF connVars
<1>1. PICK c \in Conns : NewMsg(c, "note")
  BY DEF Notify
<1>2. "note" \in Kinds
  BY DEF Kinds
<1>3. /\ nmsg \in Nat /\ nmsg' = nmsg + 1
      /\ \A m \in 1..nmsg : owner'[m] = owner[m] /\ m # nmsg + 1
  BY <1>1, <1>2, NewMsgFacts
<1>4. /\ tasks' = tasks
      /\ proc'[p].msg = nmsg + 1
      /\ \A q \in Processors \ {p} : proc'[q] = proc[q]
  BY DEF Notify, TypeOK
<1>5. \A q \in Processors : AtWork(q) => proc[q].msg # nmsg + 1
  BY <1>3 DEF AtWork, KnownMsgs
<1>6. \A i \in 1..Len(tasks) : tasks[i] # nmsg + 1
  BY <1>3 DEF KnownMsgs
<1>7. OnePlace'
  BY <1>4, <1>5, <1>6 DEF OnePlace, AtWork
<1>8. \A d \in Conns : Outbound(d)' = Outbound(d)
  BY DEF Outbound, Notify
<1>9. OutboundSound'
  <2> SUFFICES ASSUME NEW d \in Conns, NEW i \in 1..Len(Outbound(d)')
               PROVE  /\ Outbound(d)'[i] \in 1..nmsg' /\ owner'[Outbound(d)'[i]] = d
                      /\ \A j \in 1..Len(Outbound(d)') :
                           Outbound(d)'[i] = Outbound(d)'[j] => i = j
                      /\ \A j \in 1..Len(tasks') : tasks'[j] # Outbound(d)'[i]
                      /\ \A q \in Processors : AtWork(q)' => proc'[q].msg # Outbound(d)'[i]
    BY DEF OutboundSound
  <2>1. Outbound(d)' = Outbound(d) /\ Outbound(d)[i] \in 1..nmsg
    BY <1>8 DEF OutboundSound
  <2>2. Outbound(d)[i] # nmsg + 1 /\ owner'[Outbound(d)[i]] = d /\ Outbound(d)[i] \in 1..nmsg'
    BY <1>3, <1>8, <2>1 DEF OutboundSound
  <2>3. \A q \in Processors : AtWork(q)' => proc'[q].msg # Outbound(d)[i]
    BY <1>4, <1>8, <2>2 DEF OutboundSound, AtWork
  <2>4. QED
    BY <1>4, <2>1, <2>2, <2>3 DEF OutboundSound
<1>10. QED
  BY <1>7, <1>9

(* A processor takes a request. *)
LEMMA PlaceBegin ==
  ASSUME TypeOK, KnownMsgs, OnePlace, OutboundSound, NEW p \in Processors, Begin(p)
  PROVE  OnePlace' /\ OutboundSound'
<1> USE DEF connVars, msgVars
<1>1. /\ Len(tasks) \in Nat \ {0} /\ tasks' = Tail(tasks) /\ Len(tasks') = Len(tasks) - 1
      /\ Head(tasks) = tasks[1]
      /\ \A i \in 1..Len(tasks') : tasks'[i] = tasks[i + 1] /\ i + 1 \in 1..Len(tasks)
  BY TailFacts DEF TypeOK, Begin
<1>2. /\ proc'[p].msg = tasks[1]
      /\ \A q \in Processors \ {p} : proc'[q] = proc[q]
  BY <1>1 DEF Begin, TypeOK
<1>3. \A i, j \in 1..Len(tasks') : tasks'[i] = tasks'[j] => i = j
  BY <1>1 DEF OnePlace
<1>4. \A q, r \in Processors : AtWork(q)' /\ AtWork(r)' /\ proc'[q].msg = proc'[r].msg => q = r
  BY <1>1, <1>2 DEF OnePlace, AtWork
<1>5. \A q \in Processors : AtWork(q)' => \A i \in 1..Len(tasks') : tasks'[i] # proc'[q].msg
  BY <1>1, <1>2 DEF OnePlace, AtWork
<1>6. OnePlace'
  BY <1>3, <1>4, <1>5 DEF OnePlace
<1>7. \A d \in Conns : Outbound(d)' = Outbound(d)
  BY DEF Outbound, Begin
<1>8. nmsg' = nmsg /\ owner' = owner
  BY DEF Begin
<1>9. OutboundSound'
  BY <1>1, <1>2, <1>7, <1>8 DEF OutboundSound, AtWork
<1>10. QED
  BY <1>6, <1>9

(* A body is queued. *)
LEMMA PlaceReply ==
  ASSUME TypeOK, KnownMsgs, OnePlace, OutboundSound, NEW p \in Processors, Reply(p)
  PROVE  OnePlace' /\ OutboundSound'
<1> USE DEF msgVars
<1>1. PICK m \in Msgs, c \in Conns : m = proc[p].msg /\ c = owner[m] /\ m \in 1..nmsg
  BY WorkFacts DEF Reply
<1>2. AtWork(p)
  BY DEF Reply, AtWork
<1>3. /\ ~AtWork(p)'
      /\ \A q \in Processors \ {p} : proc'[q] = proc[q]
  BY DEF Reply, AtWork, TypeOK
<1>4. \A q \in Processors : AtWork(q)' => AtWork(q) /\ proc'[q].msg = proc[q].msg /\ proc[q].msg # m
  BY <1>1, <1>2, <1>3 DEF AtWork, OnePlace
<1>5. UNCHANGED <<tasks, nmsg, owner>>
  BY DEF Reply
<1>6. CASE ~Open(c)
  <2>1. \A d \in Conns : Outbound(d)' = Outbound(d)
    BY <1>1, <1>6 DEF Reply, Outbound
  <2>2. QED
    BY <1>4, <1>5, <2>1, PlaceKept
<1>7. CASE Open(c)
  <2>1. OnePlace'
    BY <1>4, <1>5 DEF OnePlace
  <2>2. sent' = sent /\ send' = [send EXCEPT ![c] = Append(send[c], m)]
    BY <1>1, <1>7 DEF Reply
  <2>3. send[c] \in Seq(Msgs) /\ sent[c] \in Seq(Msgs)
    BY <1>1 DEF TypeOK
  <2>4. Outbound(c)' = Append(Outbound(c), m) /\ Outbound(c) \in Seq(Msgs)
    <3>1. Outbound(c)' = sent[c] \o Append(send[c], m)
      BY <1>1, <1>5, <2>2 DEF Outbound, TypeOK
    <3>2. QED
      <4>1. \A s, t \in Seq(Msgs) : s \o Append(t, m) = Append(s \o t, m) /\ s \o t \in Seq(Msgs)
        BY PushFacts, Zenon
      <4>2. Outbound(c) = sent[c] \o send[c]
        BY DEF Outbound
      <4>3. QED
        BY <2>3, <3>1, <4>1, <4>2, Zenon
  <2>5. \A d \in Conns \ {c} : Outbound(d)' = Outbound(d)
    BY <2>2 DEF Outbound, TypeOK
  <2>6. /\ \A i \in 1..Len(tasks) : tasks[i] # m
        /\ \A i \in 1..Len(Outbound(c)) : Outbound(c)[i] # m
    BY <1>1, <1>2 DEF OnePlace, OutboundSound
  <2>7. /\ Len(Outbound(c)) \in Nat
        /\ Len(Outbound(c)') = Len(Outbound(c)) + 1
        /\ Outbound(c)'[Len(Outbound(c)) + 1] = m
        /\ \A i \in 1..Len(Outbound(c)) : Outbound(c)'[i] = Outbound(c)[i]
        /\ \A i \in 1..Len(Outbound(c)') : i \in 1..Len(Outbound(c)) \/ i = Len(Outbound(c)) + 1
    BY <1>1, <2>4, AppendFacts
  <2>8. \A i \in 1..Len(Outbound(c)') :
          /\ Outbound(c)'[i] \in 1..nmsg /\ owner[Outbound(c)'[i]] = c
          /\ \A j \in 1..Len(Outbound(c)') : Outbound(c)'[i] = Outbound(c)'[j] => i = j
    BY <1>1, <2>6, <2>7, SMTT(20) DEF OutboundSound
  <2>9. \A i \in 1..Len(Outbound(c)') :
          /\ \A j \in 1..Len(tasks) : tasks[j] # Outbound(c)'[i]
          /\ \A q \in Processors : AtWork(q)' => proc'[q].msg # Outbound(c)'[i]
    BY <1>1, <1>4, <2>6, <2>7 DEF OutboundSound
  <2>10. OutboundSound'
    <3> SUFFICES ASSUME NEW d \in Conns, NEW i \in 1..Len(Outbound(d)')
                 PROVE  /\ Outbound(d)'[i] \in 1..nmsg' /\ owner'[Outbound(d)'[i]] = d
                        /\ \A j \in 1..Len(Outbound(d)') :
                             Outbound(d)'[i] = Outbound(d)'[j] => i = j
                        /\ \A j \in 1..Len(tasks') : tasks'[j] # Outbound(d)'[i]
                        /\ \A q \in Processors : AtWork(q)' => proc'[q].msg # Outbound(d)'[i]
      BY DEF OutboundSound
    <3>1. CASE d = c
      BY <1>5, <2>8, <2>9, <3>1
    <3>2. CASE d # c
      BY <1>4, <1>5, <2>5, <3>2 DEF OutboundSound
    <3>3. QED
      BY <3>1, <3>2
  <2>11. QED
    BY <2>1, <2>10
<1>8. QED
  BY <1>6, <1>7

(* A body leaves: to the stream, or lost with a stream that is gone. *)
LEMMA PlaceSend ==
  ASSUME TypeOK, KnownMsgs, FdUnique, OnePlace, OutboundSound, SenderSend
  PROVE  OnePlace' /\ OutboundSound'
<1> USE DEF msgVars
<1>1. PICK c \in Found \ {NoConn} :
        /\ send[c] # <<>>
        /\ send' = [send EXCEPT ![c] = Tail(@)]
        /\ sent' = IF Open(sio) THEN [sent EXCEPT ![sio] = Append(@, Head(send[c]))]
                                ELSE sent
  BY DEF SenderSend
<1>2. c \in Conns
  BY FindFacts DEF Found
<1>3. send[c] \in Seq(Msgs) /\ sent[c] \in Seq(Msgs)
  BY <1>2 DEF TypeOK
<1>4. UNCHANGED <<tasks, nmsg, owner, proc>>
  BY DEF SenderSend
<1>5. CASE Open(sio)
  <2>1. sio \in Conns
    BY <1>5 DEF TypeOK, Open
  <2>2. c = sio
    BY <1>1, <1>5, <2>1, FindOpen DEF Found
  <2>3. Outbound(c)' = Append(sent[c], Head(send[c])) \o Tail(send[c])
    BY <1>1, <1>2, <1>5, <2>2 DEF Outbound, TypeOK
  <2>4. Outbound(c)' = Outbound(c)
    BY <1>1, <1>3, <2>3, MoveFacts DEF Outbound
  <2>5. \A d \in Conns : Outbound(d)' = Outbound(d)
    BY <1>1, <1>5, <2>2, <2>4 DEF Outbound, TypeOK
  <2>6. QED
    BY <1>4, <2>5, PlaceKept DEF AtWork
<1>6. CASE ~Open(sio)
  <2>1. OnePlace'
    BY <1>4 DEF OnePlace, AtWork
  <2>2. Outbound(c)' = sent[c] \o Tail(send[c])
    BY <1>1, <1>2, <1>6 DEF Outbound, TypeOK
  <2>3. \A d \in Conns \ {c} : Outbound(d)' = Outbound(d)
    BY <1>1, <1>6 DEF Outbound, TypeOK
  <2> DEFINE g(i) == IF i <= Len(sent[c]) THEN i ELSE i + 1
  <2>4. /\ Len(Outbound(c)) \in Nat /\ Len(Outbound(c)') = Len(Outbound(c)) - 1
        /\ \A i \in 1..Len(Outbound(c)') : Outbound(c)'[i] = Outbound(c)[g(i)]
    <3>1. /\ Len(sent[c] \o send[c]) \in Nat
          /\ Len(sent[c] \o Tail(send[c])) = Len(sent[c] \o send[c]) - 1
          /\ \A i \in 1..Len(sent[c] \o Tail(send[c])) :
               (sent[c] \o Tail(send[c]))[i] = (sent[c] \o send[c])[g(i)]
      <4>1. \A s, t \in Seq(Msgs) : t # <<>> =>
              /\ Len(s \o t) \in Nat /\ Len(s \o Tail(t)) = Len(s \o t) - 1
              /\ \A i \in 1..Len(s \o Tail(t)) :
                   (s \o Tail(t))[i] = (s \o t)[IF i <= Len(s) THEN i ELSE i + 1]
        BY DropFacts, Zenon
      <4>2. QED
        BY <1>1, <1>3, <4>1, Zenon
    <3>2. Outbound(c) = sent[c] \o send[c]
      BY DEF Outbound
    <3> HIDE DEF g
    <3>3. QED
      BY <2>2, <3>1, <3>2
  <2>5. /\ \A i \in 1..Len(Outbound(c)') : g(i) \in 1..Len(Outbound(c))
        /\ \A i, j \in 1..Len(Outbound(c)') : g(i) = g(j) => i = j
    <3>1. Len(sent[c]) \in Nat
      BY <1>3
    <3>2. QED
      BY <2>4, <3>1
  <2> HIDE DEF g
  <2>6. OutboundSound'
    <3> SUFFICES ASSUME NEW d \in Conns, NEW i \in 1..Len(Outbound(d)')
                 PROVE  /\ Outbound(d)'[i] \in 1..nmsg' /\ owner'[Outbound(d)'[i]] = d
                        /\ \A j \in 1..Len(Outbound(d)') :
                             Outbound(d)'[i] = Outbound(d)'[j] => i = j
                        /\ \A j \in 1..Len(tasks') : tasks'[j] # Outbound(d)'[i]
                        /\ \A q \in Processors : AtWork(q)' => proc'[q].msg # Outbound(d)'[i]
      BY DEF OutboundSound
    <3>1. CASE d = c
      <4>1. /\ i \in 1..Len(Outbound(c)') /\ g(i) \in 1..Len(Outbound(c))
            /\ Outbound(d)'[i] = Outbound(c)[g(i)]
        BY <2>4, <2>5, <3>1
      <4>2. Outbound(d)'[i] \in 1..nmsg' /\ owner'[Outbound(d)'[i]] = d
        BY <1>2, <1>4, <3>1, <4>1 DEF OutboundSound
      <4>3. \A j \in 1..Len(Outbound(d)') : Outbound(d)'[i] = Outbound(d)'[j] => i = j
        <5> TAKE j \in 1..Len(Outbound(d)')
        <5>1. g(j) \in 1..Len(Outbound(c)) /\ Outbound(d)'[j] = Outbound(c)[g(j)]
          BY <2>4, <2>5, <3>1
        <5>2. Outbound(c)[g(i)] = Outbound(c)[g(j)] => g(i) = g(j)
          BY <1>2, <4>1, <5>1 DEF OutboundSound
        <5>3. QED
          BY <2>5, <3>1, <4>1, <5>1, <5>2
      <4>4. /\ \A j \in 1..Len(tasks') : tasks'[j] # Outbound(d)'[i]
            /\ \A q \in Processors : AtWork(q)' => proc'[q].msg # Outbound(d)'[i]
        BY <1>2, <1>4, <4>1 DEF OutboundSound, AtWork
      <4>5. QED
        BY <4>2, <4>3, <4>4
    <3>2. CASE d # c
      BY <1>4, <2>3, <3>2 DEF OutboundSound, AtWork
    <3>3. QED
      BY <3>1, <3>2
  <2>7. QED
    BY <2>1, <2>6
<1>7. QED
  BY <1>5, <1>6

(* A message stays in one place. *)
LEMMA PlaceStep ==
  TypeOK /\ FdUnique /\ KnownMsgs /\ OnePlace /\ OutboundSound /\ [Next]_vars
    => OnePlace' /\ OutboundSound'
<1> SUFFICES ASSUME TypeOK, FdUnique, KnownMsgs, OnePlace, OutboundSound, [Next]_vars
             PROVE  OnePlace' /\ OutboundSound'
  OBVIOUS
<1> USE DEF connVars, msgVars, senderVars
<1>1. ASSUME NEW c \in Conns, NEW k \in {"get", "post"}, Receive(c, k)
      PROVE  OnePlace' /\ OutboundSound'
  BY <1>1, PlaceReceive
<1>2. ASSUME NEW c \in Conns, Del(c) \/ DestroyConn(c) PROVE OnePlace' /\ OutboundSound'
  BY <1>2, PlaceDiscard DEF Del, DestroyConn
<1>3. ASSUME NEW p \in Processors, Begin(p) PROVE OnePlace' /\ OutboundSound'
  BY <1>3, PlaceBegin
<1>4. ASSUME NEW p \in Processors, Reply(p) PROVE OnePlace' /\ OutboundSound'
  BY <1>4, PlaceReply
<1>5. ASSUME NEW p \in Processors, NEW f \in Fds, Notify(p, f) PROVE OnePlace' /\ OutboundSound'
  BY <1>5, PlaceNotify
<1>6. CASE SenderSend
  BY <1>6, PlaceSend
<1>7. ASSUME UNCHANGED <<tasks, nmsg, owner, send, sent>>,
             \A p \in Processors : AtWork(p)' => AtWork(p) /\ proc'[p].msg = proc[p].msg
      PROVE  OnePlace' /\ OutboundSound'
  <2>1. \A c \in Conns : Outbound(c)' = Outbound(c)
    BY <1>7 DEF Outbound
  <2>2. QED
    BY <1>7, <2>1, PlaceKept
<1>8. ASSUME NEW p \in Processors, Handled(p) \/ PushSignal(p) PROVE OnePlace' /\ OutboundSound'
  <2>1. \A q \in Processors : AtWork(q)' => AtWork(q) /\ proc'[q].msg = proc[q].msg
    <3>1. CASE Handled(p)
      <4>1. PICK pc \in {"reply", "signal"} : proc' = [proc EXCEPT ![p].pc = pc]
        BY <3>1 DEF Handled
      <4>2. QED
        BY <3>1, <4>1 DEF Handled, TypeOK, AtWork
    <3>2. CASE PushSignal(p)
      BY <3>2 DEF PushSignal, Idle, TypeOK, AtWork
    <3>3. QED
      BY <1>8, <3>1, <3>2
  <2>2. UNCHANGED <<tasks, nmsg, owner, send, sent>>
    BY <1>8 DEF Handled, PushSignal
  <2>3. QED
    BY <1>7, <2>1, <2>2
<1>9. ASSUME UNCHANGED <<tasks, nmsg, owner, send, sent, proc>>
      PROVE  OnePlace' /\ OutboundSound'
  BY <1>7, <1>9 DEF AtWork
<1>10. ASSUME NEW c \in Conns, NEW f \in Fds, Accept(c, f) PROVE OnePlace' /\ OutboundSound'
  BY <1>9, <1>10 DEF Accept
<1>11. CASE SenderTake \/ SenderNext \/ SenderEnd
  BY <1>9, <1>11 DEF SenderTake, SenderNext, SenderEnd
<1>12. CASE DestroyStart \/ DestroyAbort \/ DestroyQueue \/ DestroyPool
  BY <1>9, <1>12 DEF DestroyStart, DestroyAbort, DestroyQueue, DestroyPool
<1>13. CASE UNCHANGED vars
  BY <1>9, <1>13 DEF vars
<1>14. QED
  BY StepCases, <1>1, <1>2, <1>3, <1>4, <1>5, <1>6, <1>8, <1>10, <1>11, <1>12, <1>13

-----------------------------------------------------------------------------
(* The signals *)

(* A connection stays signalled when nobody takes its signal. *)
LEMMA SignalledKept ==
  ASSUME KnownMsgs, NEW c \in Conns, Signalled(c),
         UNCHANGED <<signalq, spc, sio>>,
         \A m \in 1..nmsg : owner'[m] = owner[m],
         \A p \in Processors : proc[p].pc = "signal" => proc'[p] = proc[p]
  PROVE  Signalled(c)'
<1>1. CASE \E i \in 1..Len(signalq) : signalq[i] = c
  BY <1>1 DEF Signalled
<1>2. CASE \E p \in Processors : proc[p].pc = "signal" /\ owner[proc[p].msg] = c
  <2>1. PICK p \in Processors : proc[p].pc = "signal" /\ owner[proc[p].msg] = c
    BY <1>2
  <2>2. proc[p].msg \in 1..nmsg
    BY <2>1 DEF KnownMsgs
  <2>3. proc'[p].pc = "signal" /\ owner'[proc'[p].msg] = c
    BY <2>1, <2>2
  <2>4. QED
    BY <2>3 DEF Signalled
<1>3. CASE spc = "serve" /\ sio = c
  BY <1>3 DEF Signalled
<1>4. QED
  BY <1>1, <1>2, <1>3 DEF Signalled

(* A step that takes no signal and queues no body. *)
LEMMA SignalKept ==
  ASSUME KnownMsgs, SignalCovers,
         UNCHANGED <<signalq, spc, sio>>,
         \A m \in 1..nmsg : owner'[m] = owner[m],
         \A p \in Processors : proc[p].pc = "signal" => proc'[p] = proc[p],
         \A c \in Conns : Open(c)' /\ send'[c] # <<>> => Open(c) /\ send[c] # <<>>
  PROVE  SignalCovers'
<1> SUFFICES ASSUME NEW c \in Conns, Open(c)', send'[c] # <<>> PROVE Signalled(c)'
  BY DEF SignalCovers
<1>1. Signalled(c)
  BY DEF SignalCovers
<1>2. QED
  BY <1>1, SignalledKept

(* Bodies are queued for open connections only. *)
LEMMA QueuedStep ==
  TypeOK /\ KnownMsgs /\ QueuedWhenOpen /\ [Next]_vars => QueuedWhenOpen'
<1> SUFFICES ASSUME TypeOK, KnownMsgs, QueuedWhenOpen, [Next]_vars PROVE QueuedWhenOpen'
  OBVIOUS
<1> USE DEF connVars, msgVars, senderVars
<1>1. ASSUME NEW c \in Conns, NEW f \in Fds, Accept(c, f) PROVE QueuedWhenOpen'
  BY <1>1 DEF Accept, QueuedWhenOpen, Open, TypeOK
<1>2. ASSUME NEW c \in Conns, Del(c) \/ DestroyConn(c) PROVE QueuedWhenOpen'
  BY <1>2 DEF Del, DestroyConn, Discard, QueuedWhenOpen, Open, TypeOK
<1>3. ASSUME NEW p \in Processors, Reply(p) PROVE QueuedWhenOpen'
  BY <1>3 DEF Reply, QueuedWhenOpen, Open, TypeOK
<1>4. CASE SenderSend
  <2>1. PICK c \in Found \ {NoConn} : send' = [send EXCEPT ![c] = Tail(@)]
    BY <1>4 DEF SenderSend
  <2>2. c \in Conns /\ Open(c)
    BY FindFacts DEF Found
  <2>3. life' = life
    BY <1>4 DEF SenderSend
  <2>4. QED
    BY <2>1, <2>2, <2>3 DEF QueuedWhenOpen, Open, TypeOK
<1>5. ASSUME UNCHANGED <<life, send>> PROVE QueuedWhenOpen'
  BY <1>5 DEF QueuedWhenOpen, Open
<1>6. ASSUME NEW c \in Conns, NEW k \in {"get", "post"}, Receive(c, k) PROVE QueuedWhenOpen'
  BY <1>5, <1>6 DEF Receive
<1>7. ASSUME NEW p \in Processors, Begin(p) \/ Handled(p) \/ PushSignal(p)
      PROVE  QueuedWhenOpen'
  BY <1>5, <1>7 DEF Begin, Handled, PushSignal
<1>8. ASSUME NEW p \in Processors, NEW f \in Fds, Notify(p, f) PROVE QueuedWhenOpen'
  BY <1>5, <1>8 DEF Notify
<1>9. CASE SenderTake \/ SenderNext \/ SenderEnd
  BY <1>5, <1>9 DEF SenderTake, SenderNext, SenderEnd
<1>10. CASE DestroyStart \/ DestroyAbort \/ DestroyQueue \/ DestroyPool
  BY <1>5, <1>10 DEF DestroyStart, DestroyAbort, DestroyQueue, DestroyPool
<1>11. CASE UNCHANGED vars
  BY <1>5, <1>11 DEF vars
<1>12. QED
  BY StepCases, <1>1, <1>2, <1>3, <1>4, <1>6, <1>7, <1>8, <1>9, <1>10, <1>11

(* A processor tells the sender of a body. *)
LEMMA SignalPush ==
  ASSUME TypeOK, FdUnique, ClosedFirst, KnownMsgs, SignalCovers,
         NEW p \in Processors, PushSignal(p)
  PROVE  SignalCovers'
<1> USE DEF connVars, senderVars
<1> SUFFICES ASSUME NEW c \in Conns, Open(c)', send'[c] # <<>> PROVE Signalled(c)'
  BY DEF SignalCovers
<1>1. Open(c) /\ send[c] # <<>> /\ UNCHANGED <<owner, spc, sio>>
  BY DEF PushSignal, Open
<1>2. mpc \notin {"pool", "done"}
  BY <1>1 DEF ClosedFirst
<1>3. /\ owner[proc[p].msg] \in Conns /\ signalq' = Append(signalq, Target(proc[p].msg))
  BY <1>2, WorkFacts DEF PushSignal
<1>4. Target(proc[p].msg) \in Conns \cup {NoConn}
  BY <1>3, FindFacts DEF Target
<1>5. /\ Len(signalq) \in Nat /\ Len(signalq') = Len(signalq) + 1
      /\ signalq'[Len(signalq) + 1] = Target(proc[p].msg)
      /\ \A i \in 1..Len(signalq) : signalq'[i] = signalq[i]
  BY <1>3, <1>4, AppendFacts DEF TypeOK
<1>6. CASE \E i \in 1..Len(signalq) : signalq[i] = c
  <2>1. PICK i \in 1..Len(signalq) : signalq[i] = c
    BY <1>6
  <2>2. i \in 1..Len(signalq') /\ signalq'[i] = c
    BY <1>5, <2>1
  <2>3. QED
    BY <2>2 DEF Signalled
<1>7. CASE owner[proc[p].msg] = c
  <2>1. Target(proc[p].msg) = c
    BY <1>1, <1>7, FindOpen DEF Target
  <2>2. Len(signalq) + 1 \in 1..Len(signalq') /\ signalq'[Len(signalq) + 1] = c
    BY <1>5, <2>1
  <2>3. QED
    BY <2>2 DEF Signalled
<1>8. CASE \E q \in Processors \ {p} : proc[q].pc = "signal" /\ owner[proc[q].msg] = c
  <2>1. PICK q \in Processors \ {p} : proc[q].pc = "signal" /\ owner[proc[q].msg] = c
    BY <1>8
  <2>2. proc'[q] = proc[q]
    BY DEF PushSignal, TypeOK
  <2>3. QED
    BY <1>1, <2>1, <2>2 DEF Signalled
<1>9. CASE spc = "serve" /\ sio = c
  BY <1>1, <1>9 DEF Signalled
<1>10. Signalled(c)
  BY <1>1 DEF SignalCovers
<1>11. QED
  BY <1>6, <1>7, <1>8, <1>9, <1>10 DEF Signalled

(* The sender takes a signal. *)
LEMMA SignalTake ==
  ASSUME TypeOK, SignalCovers, SenderTake
  PROVE  SignalCovers'
<1> USE DEF connVars, msgVars
<1> SUFFICES ASSUME NEW c \in Conns, Open(c)', send'[c] # <<>> PROVE Signalled(c)'
  BY DEF SignalCovers
<1>1. /\ Signalled(c) /\ spc = "top" /\ spc' = "serve" /\ sio' = Head(signalq)
      /\ UNCHANGED <<proc, owner>>
  BY DEF SenderTake, Open, SignalCovers
<1>2. /\ Head(signalq) = signalq[1] /\ Len(signalq) \in Nat /\ signalq' = Tail(signalq)
      /\ \A i \in 1..Len(signalq) :
           i = 1 \/ (i - 1 \in 1..Len(signalq') /\ signalq'[i - 1] = signalq[i])
  BY TailFacts DEF SenderTake, TypeOK
<1>3. CASE \E i \in 1..Len(signalq) : signalq[i] = c
  <2>1. PICK i \in 1..Len(signalq) : signalq[i] = c
    BY <1>3
  <2>2. CASE i = 1
    BY <1>1, <1>2, <2>1, <2>2 DEF Signalled
  <2>3. CASE i # 1
    <3>1. i - 1 \in 1..Len(signalq') /\ signalq'[i - 1] = c
      BY <1>2, <2>1, <2>3
    <3>2. QED
      BY <3>1 DEF Signalled
  <2>4. QED
    BY <2>2, <2>3
<1>4. CASE \E p \in Processors : proc[p].pc = "signal" /\ owner[proc[p].msg] = c
  BY <1>1, <1>4 DEF Signalled
<1>5. QED
  BY <1>1, <1>3, <1>4 DEF Signalled

(* The sender leaves a connection when it has nothing more to send. *)
LEMMA SignalNext ==
  ASSUME TypeOK, FdUnique, SignalCovers, SenderNext
  PROVE  SignalCovers'
<1> USE DEF connVars, msgVars
<1> SUFFICES ASSUME NEW c \in Conns, Open(c)', send'[c] # <<>> PROVE Signalled(c)'
  BY DEF SignalCovers
<1>1. Open(c) /\ send[c] # <<>> /\ UNCHANGED <<signalq, proc, owner>>
  BY DEF SenderNext, Open
<1>2. Signalled(c)
  BY <1>1 DEF SignalCovers
<1>3. sio # c
  <2> SUFFICES ASSUME sio = c PROVE FALSE
    OBVIOUS
  <2>1. Found = {c}
    BY <1>1, FindOpen DEF Found
  <2>2. c # NoConn
    BY DEF Conns, NoConn
  <2>3. QED
    BY <1>1, <2>1, <2>2 DEF SenderNext
<1>4. QED
  BY <1>1, <1>2, <1>3 DEF Signalled

(* No body becomes unnoticed. *)
LEMMA SignalStep == IInv /\ [Next]_vars => SignalCovers'
<1> SUFFICES ASSUME IInv, [Next]_vars PROVE SignalCovers'
  OBVIOUS
<1> USE DEF IInv, connVars, msgVars, senderVars
<1>1. ASSUME NEW c \in Conns, NEW f \in Fds, Accept(c, f) PROVE SignalCovers'
  <2>1. \A d \in Conns : Open(d)' /\ send'[d] # <<>> => Open(d) /\ send[d] # <<>>
    BY <1>1 DEF Accept, QueuedWhenOpen
  <2>2. QED
    BY <1>1, <2>1, SignalKept DEF Accept
<1>2. ASSUME NEW c \in Conns, NEW k \in {"get", "post"}, Receive(c, k) PROVE SignalCovers'
  <2>1. k \in Kinds
    BY DEF Kinds
  <2>2. \A m \in 1..nmsg : owner'[m] = owner[m]
    BY <1>2, <2>1, NewMsgFacts DEF Receive
  <2>3. QED
    BY <1>2, <2>2, SignalKept DEF Receive, Open
<1>3. ASSUME NEW c \in Conns, Del(c) \/ DestroyConn(c) PROVE SignalCovers'
  <2>1. UNCHANGED <<signalq, spc, sio, owner, proc>> /\ Discard(c)
    BY <1>3 DEF Del, DestroyConn
  <2>2. \A d \in Conns : Open(d)' /\ send'[d] # <<>> => Open(d) /\ send[d] # <<>>
    BY <2>1 DEF Discard, Open, TypeOK
  <2>3. QED
    BY <2>1, <2>2, SignalKept
<1>4. ASSUME NEW p \in Processors, Begin(p) \/ Handled(p) PROVE SignalCovers'
  <2>1. \A q \in Processors : proc[q].pc = "signal" => proc'[q] = proc[q]
    <3>1. CASE Begin(p)
      BY <3>1 DEF Begin, TypeOK
    <3>2. CASE Handled(p)
      <4>1. PICK pc \in {"reply", "signal"} : proc' = [proc EXCEPT ![p].pc = pc]
        BY <3>2 DEF Handled
      <4>2. QED
        BY <3>2, <4>1 DEF Handled, TypeOK
    <3>3. QED
      BY <1>4, <3>1, <3>2
  <2>2. UNCHANGED <<signalq, spc, sio, owner, life, send>>
    BY <1>4 DEF Begin, Handled
  <2>3. QED
    BY <2>1, <2>2, SignalKept DEF Open
<1>5. ASSUME NEW p \in Processors, NEW f \in Fds, Notify(p, f) PROVE SignalCovers'
  <2>1. PICK c \in Conns : NewMsg(c, "note")
    BY <1>5 DEF Notify
  <2>2. "note" \in Kinds
    BY DEF Kinds
  <2>3. \A m \in 1..nmsg : owner'[m] = owner[m]
    BY <2>1, <2>2, NewMsgFacts
  <2>4. \A q \in Processors : proc[q].pc = "signal" => proc'[q] = proc[q]
    BY <1>5 DEF Notify, TypeOK
  <2>5. UNCHANGED <<signalq, spc, sio, life, send>>
    BY <1>5 DEF Notify
  <2>6. QED
    BY <2>3, <2>4, <2>5, SignalKept DEF Open
<1>6. ASSUME NEW p \in Processors, Reply(p) PROVE SignalCovers'
  <2> SUFFICES ASSUME NEW d \in Conns, Open(d)', send'[d] # <<>> PROVE Signalled(d)'
    BY DEF SignalCovers
  <2>1. UNCHANGED <<signalq, spc, sio, owner, life>> /\ proc[p].pc = "reply"
    BY <1>6 DEF Reply
  <2>2. proc'[p].pc = "signal" /\ proc'[p].msg = proc[p].msg
    BY <1>6 DEF Reply, TypeOK
  <2>3. CASE d = owner[proc[p].msg]
    BY <2>1, <2>2, <2>3 DEF Signalled
  <2>4. CASE d # owner[proc[p].msg]
    <3>1. send'[d] = send[d]
      BY <1>6, <2>4 DEF Reply, TypeOK
    <3>2. Signalled(d)
      BY <2>1, <3>1 DEF SignalCovers, Open
    <3>3. \A q \in Processors : proc[q].pc = "signal" => proc'[q] = proc[q]
      BY <1>6, <2>1 DEF Reply, TypeOK
    <3>4. QED
      BY <2>1, <3>2, <3>3, SignalledKept
  <2>5. QED
    BY <2>3, <2>4
<1>7. ASSUME NEW p \in Processors, PushSignal(p) PROVE SignalCovers'
  BY <1>7, SignalPush
<1>8. CASE SenderTake
  BY <1>8, SignalTake
<1>9. CASE SenderSend
  <2>1. PICK c \in Found \ {NoConn} : send[c] # <<>> /\ send' = [send EXCEPT ![c] = Tail(@)]
    BY <1>9 DEF SenderSend
  <2>2. \A d \in Conns : send'[d] # <<>> => send[d] # <<>>
    BY <2>1 DEF TypeOK
  <2>3. UNCHANGED <<signalq, spc, sio, owner, life, proc>>
    BY <1>9 DEF SenderSend
  <2>4. QED
    BY <2>2, <2>3, SignalKept DEF Open
<1>10. CASE SenderNext
  BY <1>10, SignalNext
<1>11. CASE SenderEnd \/ DestroyQueue
  <2>1. \A c \in Conns : ~Open(c)
    BY <1>11 DEF SenderEnd, DestroyQueue, ClosedFirst
  <2>2. QED
    BY <1>11, <2>1 DEF SenderEnd, DestroyQueue, SignalCovers, Open
<1>12. CASE DestroyStart \/ DestroyAbort \/ DestroyPool \/ UNCHANGED vars
  <2>1. UNCHANGED <<signalq, spc, sio, owner, life, send, proc>>
    BY <1>12 DEF DestroyStart, DestroyAbort, DestroyPool, vars
  <2>2. QED
    BY <2>1, SignalKept DEF Open
<1>13. QED
  BY StepCases, <1>1, <1>2, <1>3, <1>4, <1>5, <1>6, <1>7, <1>8, <1>9, <1>10, <1>11, <1>12

-----------------------------------------------------------------------------
(* The theorems *)

(***************************************************************************)
(* The inductive invariant holds in every state the threads of rpc_io.c    *)
(* reach.                                                                  *)
(***************************************************************************)
THEOREM Invariance == Spec => []IInv
<1>1. IInv /\ [Next]_vars => IInv'
  BY TypeStep, ConnsStep, QueuedStep, KnownStep, PlaceStep, SignalStep DEF IInv
<1>2. QED
  BY <1>1, IoInit, PTL DEF Spec

(* The I/O state keeps its type, for any number of threads and connections. *)
THEOREM TypeCorrect == Spec => []TypeOK
<1>1. IInv => TypeOK
  BY DEF IInv
<1>2. QED
  BY <1>1, Invariance, PTL

(***************************************************************************)
(* A body queued by rpc_io_processor or rpc_io_nodify_fd for a connection  *)
(* that is open never waits without a signal on its way to the sender.     *)
(***************************************************************************)
THEOREM NoBodyUnnoticed == Spec => []SignalCovers
<1>1. IInv => SignalCovers
  BY DEF IInv
<1>2. QED
  BY <1>1, Invariance, PTL

(***************************************************************************)
(* The sender hands a body only to the connection it was made for and only *)
(* once, although rpc_io_find looks connections up by reused descriptors.  *)
(***************************************************************************)
THEOREM AnswersRight == Spec => []RightConnectionOnce
<1>1. IInv => RightConnectionOnce
  BY DEF IInv, OutboundSound, RightConnectionOnce
<1>2. QED
  BY <1>1, Invariance, PTL
=============================================================================
