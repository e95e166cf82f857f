------------------------ MODULE RpcThreadPoolProofs ------------------------
(***************************************************************************)
(* Machine-checked proofs about RpcThreadPool, for every finite set of     *)
(* threads and every set of tasks.                                         *)
(***************************************************************************)
EXTENDS RpcThreadPool, FiniteSetTheorems, TLAPS

(* What Append does to a sequence, element by element. *)
LEMMA AppendFacts ==
  ASSUME NEW S, NEW s \in Seq(S), NEW e \in S
  PROVE  /\ Append(s, e) \in Seq(S)
         /\ Len(Append(s, e)) = Len(s) + 1
         /\ Append(s, e)[Len(s) + 1] = e
         /\ \A i \in 1..Len(s) : Append(s, e)[i] = s[i]
         /\ \A i \in 1..Len(Append(s, e)) : i \in 1..Len(s) \/ i = Len(s) + 1
OBVIOUS

(* What Head and Tail give of a sequence that is not empty. *)
LEMMA TailFacts ==
  ASSUME NEW S, NEW s \in Seq(S), s # <<>>
  PROVE  /\ Head(s) \in S
         /\ Tail(s) \in Seq(S)
         /\ Len(s) \in Nat \ {0}
         /\ Len(Tail(s)) = Len(s) - 1
         /\ Head(s) = s[1]
         /\ \A i \in 1..Len(Tail(s)) : Tail(s)[i] = s[i + 1] /\ i + 1 \in 1..Len(s)
OBVIOUS

(* The pool rpc_tp_create builds has its types. *)
LEMMA TypeInit == Init => TypeOK
<1> SUFFICES ASSUME Init PROVE TypeOK
  OBVIOUS
<1>1. queue \in Seq(Tasks) /\ inserted \in Seq(Tasks) /\ taken \in Seq(Tasks)
  BY DEF Init
<1>2. early \in SUBSET Tasks
  BY DEF Init
<1>3. abort \in BOOLEAN /\ freed \in BOOLEAN /\ dpc \in DestroyPCs
  BY DEF Init, DestroyPCs
<1>4. tpc \in [Threads -> ThreadPCs]
  BY DEF Init, ThreadPCs
<1>5. job \in [Threads -> Tasks \cup {NoTask}]
  BY DEF Init
<1>6. reg \in [Tasks -> RegPCs] /\ state \in [Tasks -> WorkerStates]
  BY DEF Init, RegPCs, WorkerStates
<1>7. QED
  BY <1>1, <1>2, <1>3, <1>4, <1>5, <1>6 DEF TypeOK

(* One step keeps the types. *)
LEMMA TypeStep == TypeOK /\ [Next]_vars => TypeOK'
<1> SUFFICES ASSUME TypeOK, [Next]_vars PROVE TypeOK'
  OBVIOUS
<1> USE DEF TypeOK, ThreadPCs, RegPCs, WorkerStates, DestroyPCs
<1>1. ASSUME NEW w \in Tasks, RegisterCheck(w) PROVE TypeOK'
  BY <1>1 DEF RegisterCheck
<1>2. ASSUME NEW w \in Tasks, RegisterInsert(w) PROVE TypeOK'
  <2>1. tpc' \in [Threads -> ThreadPCs]
    BY <1>2 DEF RegisterInsert, Signal, Asleep
  <2>2. QED
    BY <1>2, <2>1, AppendFacts DEF RegisterInsert
<1>3. ASSUME NEW w \in Tasks, RegisterDangling(w) PROVE TypeOK'
  BY <1>3 DEF RegisterDangling
<1>4. ASSUME NEW t \in Threads, Start(t) PROVE TypeOK'
  <2>1. Head(queue) \in Tasks /\ Tail(queue) \in Seq(Tasks)
    BY <1>4, TailFacts DEF Start
  <2>2. QED
    BY <1>4, <2>1, AppendFacts DEF Start
<1>5. ASSUME NEW t \in Threads, Finish(t) PROVE TypeOK'
  BY <1>5 DEF Finish
<1>6. ASSUME NEW t \in Threads, Sleep(t) \/ SpuriousWakeup(t) \/ Exit(t)
      PROVE TypeOK'
  BY <1>6 DEF Sleep, SpuriousWakeup, Exit
<1>7. CASE DestroyCall \/ DestroyPoll \/ DestroyJoin \/ DestroyDrained
           \/ DestroyFree
  BY <1>7 DEF DestroyCall, DestroyPoll, DestroyJoin, DestroyDrained,
              DestroyFree
<1>8. CASE DestroyAbort
  BY <1>8 DEF DestroyAbort, WakeAll
<1>9. CASE DestroyDrain
  <2>1. Head(queue) \in Tasks /\ Tail(queue) \in Seq(Tasks)
    BY <1>9, TailFacts DEF DestroyDrain
  <2>2. QED
    BY <1>9, <2>1, AppendFacts DEF DestroyDrain
<1>10. CASE UNCHANGED vars
  BY <1>10 DEF vars
<1>11. QED
  BY <1>1, <1>2, <1>3, <1>4, <1>5, <1>6, <1>7, <1>8, <1>9, <1>10
  DEF Next, Register, Thread, Destroy

(***************************************************************************)
(* Type correctness: every field of the pool keeps its type through        *)
(* registration, the thread routine and destruction.                       *)
(***************************************************************************)
THEOREM TypeCorrect == Spec => []TypeOK
BY TypeInit, TypeStep, PTL DEF Spec

(* No worker is queued twice, since none is inserted twice. *)
LEMMA QueueDistinct ==
  ASSUME TypeOK, TakenInOrder, InsertedOnce
  PROVE  /\ \A i, j \in 1..Len(queue) : queue[i] = queue[j] => i = j
         /\ \A i \in 1..Len(queue) : queue[i] \in Tasks
                                     /\ reg[queue[i]] = "registered"
<1>1. \A i \in 1..Len(queue) : Len(taken) + i \in 1..Len(inserted)
  BY DEF TypeOK, TakenInOrder
<1>2. \A i \in 1..Len(queue) : queue[i] \in Tasks
  BY DEF TypeOK
<1>3. \A i, j \in 1..Len(queue) : queue[i] = queue[j] => i = j
  <2> SUFFICES ASSUME NEW i \in 1..Len(queue), NEW j \in 1..Len(queue),
                      queue[i] = queue[j]
               PROVE i = j
    OBVIOUS
  <2>1. inserted[Len(taken) + i] = inserted[Len(taken) + j]
    BY DEF TakenInOrder
  <2>2. Len(taken) + i = Len(taken) + j
    BY <1>1, <2>1 DEF InsertedOnce
  <2>3. QED
    BY <2>2 DEF TypeOK
<1>4. QED
  BY <1>1, <1>2, <1>3 DEF TakenInOrder, InsertedOnce

(***************************************************************************)
(* Taking the first worker out of the queue, by a thread or by             *)
(* rpc_tp_destroy, keeps the order, and the worker is no longer queued.    *)
(***************************************************************************)
LEMMA Dequeue ==
  ASSUME TypeOK, TakenInOrder, InsertedOnce, Placed,
         queue # <<>>,
         queue' = Tail(queue),
         taken' = Append(taken, Head(queue)),
         inserted' = inserted,
         reg' = reg,
         NEW x \in {"busy", "dropped"},
         state' = [state EXCEPT ![Head(queue)] = x]
  PROVE  /\ TakenInOrder'
         /\ InsertedOnce'
         /\ Placed'
         /\ Head(queue) \in Tasks
         /\ state[Head(queue)] = "idle"
         /\ reg[Head(queue)] = "registered"
         /\ \A w \in Tasks : w # Head(queue) => state'[w] = state[w]
         /\ state'[Head(queue)] = x
         /\ \A i \in 1..Len(queue') : \E j \in 1..Len(queue) : queue'[i] = queue[j]
<1> DEFINE h == Head(queue)
<1>1. /\ h \in Tasks /\ h = queue[1] /\ Len(queue) \in Nat \ {0}
      /\ Len(queue') = Len(queue) - 1
      /\ \A i \in 1..Len(queue') : queue'[i] = queue[i + 1] /\ i + 1 \in 1..Len(queue)
  BY TailFacts DEF TypeOK
<1>2. /\ Len(taken') = Len(taken) + 1
      /\ taken'[Len(taken) + 1] = h
      /\ \A i \in 1..Len(taken) : taken'[i] = taken[i]
      /\ \A i \in 1..Len(taken') : i \in 1..Len(taken) \/ i = Len(taken) + 1
      /\ Len(taken) \in Nat
  BY <1>1, AppendFacts DEF TypeOK
<1>3. TakenInOrder'
  <2>1. Len(inserted') = Len(taken') + Len(queue')
    <3>1. Len(inserted) = Len(taken) + Len(queue)
      BY DEF TakenInOrder
    <3>2. (Len(taken) + 1) + (Len(queue) - 1) = Len(taken) + Len(queue)
      BY <1>1, <1>2
    <3>3. QED
      BY <1>1, <1>2, <3>1, <3>2
  <2>2. \A i \in 1..Len(taken') : taken'[i] = inserted'[i]
    <3>1. h = inserted[Len(taken) + 1]
      BY <1>1 DEF TakenInOrder
    <3>2. QED
      BY <1>2, <3>1 DEF TakenInOrder
  <2>3. ASSUME NEW i \in 1..Len(queue')
        PROVE  queue'[i] = inserted'[Len(taken') + i]
    <3>1. queue'[i] = inserted[Len(taken) + (i + 1)]
      BY <1>1 DEF TakenInOrder
    <3>2. Len(taken) + (i + 1) = Len(taken') + i
      BY <1>1, <1>2
    <3>3. QED
      BY <3>1, <3>2
  <2>4. QED
    BY <2>1, <2>2, <2>3 DEF TakenInOrder
<1>4. InsertedOnce'
  BY DEF InsertedOnce
<1>5. state[h] = "idle" /\ reg[h] = "registered"
  BY <1>1, QueueDistinct DEF Placed
<1>6. /\ \A w \in Tasks : w # h => state'[w] = state[w]
      /\ state'[h] = x
  BY <1>1 DEF TypeOK
<1>7. Placed'
  <2>1. ASSUME NEW w \in Tasks, reg'[w] # "registered" PROVE state'[w] = "none"
    BY <2>1, <1>5, <1>6 DEF Placed
  <2>2. ASSUME NEW i \in 1..Len(queue') PROVE state'[queue'[i]] = "idle"
    <3>1. queue'[i] = queue[i + 1] /\ i + 1 \in 1..Len(queue) /\ i + 1 # 1
      BY <1>1
    <3>2. queue[i + 1] # h /\ queue[i + 1] \in Tasks
      BY <1>1, <3>1, QueueDistinct
    <3>3. QED
      BY <3>1, <3>2, <1>6 DEF Placed
  <2>3. ASSUME NEW w \in Tasks, state'[w] = "idle"
        PROVE  \E i \in 1..Len(queue') : queue'[i] = w
    <3>1. w # h /\ state[w] = "idle"
      BY <2>3, <1>6
    <3>2. PICK j \in 1..Len(queue) : queue[j] = w
      BY <3>1 DEF Placed
    <3>3. j # 1 /\ j - 1 \in 1..Len(queue') /\ (j - 1) + 1 = j
      BY <1>1, <3>1, <3>2
    <3>4. QED
      BY <1>1, <3>2, <3>3
  <2>4. QED
    BY <2>1, <2>2, <2>3 DEF Placed
<1>8. QED
  BY <1>1, <1>3, <1>4, <1>5, <1>6, <1>7

(* The invariant holds of a new pool. *)
LEMMA InvInit == Init => IInv
<1> SUFFICES ASSUME Init PROVE IInv
  OBVIOUS
<1>1. TypeOK
  BY TypeInit
<1>2. TakenInOrder /\ InsertedOnce
  BY DEF Init, TakenInOrder, InsertedOnce
<1>3. Placed /\ Running
  BY DEF Init, Placed, Running
<1>4. Phases /\ EarlyKept
  BY DEF Init, Phases, EarlyKept
<1>5. QED
  BY <1>1, <1>2, <1>3, <1>4 DEF IInv

(* A step that changes only a registration that is not accepted. *)
LEMMA InvRegisterOther ==
  ASSUME IInv, TypeOK', NEW w \in Tasks, RegisterCheck(w) \/ RegisterDangling(w)
  PROVE  IInv'
<1>1. /\ reg[w] # "registered" /\ reg'[w] # "registered"
      /\ \A v \in Tasks : v # w => reg'[v] = reg[v]
  BY DEF RegisterCheck, RegisterDangling, IInv, TypeOK
<1>2. UNCHANGED <<queue, abort, freed, tpc, job, state, dpc, inserted, taken, early>>
  BY DEF RegisterCheck, RegisterDangling
<1>3. TakenInOrder'
  BY <1>2 DEF IInv, TakenInOrder
<1>4. InsertedOnce'
  BY <1>1, <1>2 DEF IInv, InsertedOnce, TypeOK
<1>5. Placed'
  BY <1>1, <1>2 DEF IInv, Placed
<1>6. Running' /\ Phases'
  BY <1>2 DEF IInv, Running, Phases
<1>7. EarlyKept'
  BY <1>1, <1>2 DEF IInv, EarlyKept, TypeOK
<1>8. QED
  BY <1>3, <1>4, <1>5, <1>6, <1>7 DEF IInv

(* What pthread_cond_signal changes: sleepers become ready, nothing else. *)
LEMMA SignalFacts ==
  ASSUME TypeOK, Signal
  PROVE  \A t \in Threads : tpc'[t] = tpc[t]
                            \/ (tpc[t] = "asleep" /\ tpc'[t] = "ready")
BY DEF Signal, Asleep, TypeOK

(* An accepted registration goes to the end of the queue. *)
LEMMA InvRegisterInsert ==
  ASSUME IInv, TypeOK', NEW w \in Tasks, RegisterInsert(w)
  PROVE  IInv'
<1> USE DEF IInv
<1>1. /\ reg[w] = "checked" /\ reg'[w] = "registered"
      /\ \A v \in Tasks : v # w => reg'[v] = reg[v]
      /\ state[w] = "none" /\ state'[w] = "idle"
      /\ \A v \in Tasks : v # w => state'[v] = state[v]
      /\ UNCHANGED <<abort, freed, job, dpc, taken>>
  BY DEF RegisterInsert, TypeOK, Placed
<1>2. \A t \in Threads : tpc'[t] = tpc[t]
                         \/ (tpc[t] = "asleep" /\ tpc'[t] = "ready")
  BY SignalFacts DEF RegisterInsert
<1>3. /\ Len(queue') = Len(queue) + 1 /\ queue'[Len(queue) + 1] = w
      /\ \A i \in 1..Len(queue) : queue'[i] = queue[i]
      /\ \A i \in 1..Len(queue') : i \in 1..Len(queue) \/ i = Len(queue) + 1
      /\ Len(queue) \in Nat
      /\ \A i \in 1..Len(queue) : queue[i] \in Tasks
  BY AppendFacts DEF RegisterInsert, TypeOK
<1>4. /\ Len(inserted') = Len(inserted) + 1 /\ inserted'[Len(inserted) + 1] = w
      /\ \A i \in 1..Len(inserted) : inserted'[i] = inserted[i]
      /\ \A i \in 1..Len(inserted') : i \in 1..Len(inserted) \/ i = Len(inserted) + 1
      /\ Len(inserted) \in Nat
      /\ \A i \in 1..Len(inserted) : inserted[i] \in Tasks
  BY AppendFacts DEF RegisterInsert, TypeOK
<1>5. TakenInOrder'
  <2>1. Len(taken) \in Nat /\ Len(inserted) = Len(taken) + Len(queue)
    BY DEF TypeOK, TakenInOrder
  <2>2. Len(inserted') = Len(taken') + Len(queue')
    BY <1>1, <1>3, <1>4, <2>1
  <2>3. \A i \in 1..Len(taken') : taken'[i] = inserted'[i]
    BY <1>1, <1>3, <1>4, <2>1 DEF TakenInOrder
  <2>4. ASSUME NEW i \in 1..Len(queue')
        PROVE  queue'[i] = inserted'[Len(taken') + i]
    <3>1. CASE i \in 1..Len(queue)
      <4>1. Len(taken) + i \in 1..Len(inserted)
        BY <3>1, <2>1, <1>3
      <4>2. QED
        BY <3>1, <4>1, <1>1, <1>3, <1>4 DEF TakenInOrder
    <3>2. CASE i = Len(queue) + 1
      <4>1. Len(taken) + i = Len(inserted) + 1
        BY <3>2, <2>1, <1>3
      <4>2. QED
        BY <3>2, <4>1, <1>1, <1>3, <1>4
    <3>3. QED
      BY <3>1, <3>2, <1>3
  <2>5. QED
    BY <2>2, <2>3, <2>4 DEF TakenInOrder
<1>6. InsertedOnce'
  <2>1. \A i \in 1..Len(inserted) : inserted[i] # w
    BY <1>1, <1>4 DEF InsertedOnce
  <2>2. \A i, j \in 1..Len(inserted') : inserted'[i] = inserted'[j] => i = j
    BY <1>4, <2>1 DEF InsertedOnce
  <2>3. \A i \in 1..Len(inserted') : reg'[inserted'[i]] = "registered"
    BY <1>1, <1>4 DEF InsertedOnce
  <2>4. QED
    BY <2>2, <2>3 DEF InsertedOnce
<1>7. Placed'
  <2>1. \A i \in 1..Len(queue) : queue[i] # w
    BY <1>1, <1>3 DEF Placed
  <2>2. \A v \in Tasks : reg'[v] # "registered" => state'[v] = "none"
    BY <1>1 DEF Placed
  <2>3. \A i \in 1..Len(queue') : state'[queue'[i]] = "idle"
    BY <1>1, <1>3, <2>1 DEF Placed
  <2>4. ASSUME NEW v \in Tasks, state'[v] = "idle"
        PROVE  \E i \in 1..Len(queue') : queue'[i] = v
    <3>1. CASE v = w
      <4>1. Len(queue) + 1 \in 1..Len(queue')
        BY <1>3
      <4>2. QED
        BY <3>1, <4>1, <1>3
    <3>2. CASE v # w
      <4>1. PICK i \in 1..Len(queue) : queue[i] = v
        BY <3>2, <2>4, <1>1 DEF Placed
      <4>2. i \in 1..Len(queue')
        BY <1>3
      <4>3. QED
        BY <4>1, <4>2, <1>3
    <3>3. QED
      BY <3>1, <3>2
  <2>5. QED
    BY <2>2, <2>3, <2>4 DEF Placed
<1>8. Running'
  <2>1. \A t \in Threads : (tpc'[t] = "running" <=> tpc[t] = "running")
    BY <1>2
  <2>2. \A t \in Threads : tpc[t] = "running" => job[t] # w
    BY <1>1 DEF Running
  <2>3. QED
    BY <1>1, <2>1, <2>2 DEF Running
<1>9. Phases'
  BY <1>1, <1>2 DEF Phases
<1>10. EarlyKept'
  <2>1. w \notin early /\ early' \subseteq early \cup {w}
        /\ (abort => early' = early)
    BY <1>1 DEF EarlyKept, RegisterInsert
  <2>2. \A v \in early' : reg'[v] = "registered"
                          /\ state'[v] \in {"idle", "busy", "freed"}
    BY <1>1, <2>1 DEF EarlyKept, TypeOK
  <2>3. ASSUME NEW t \in Threads, tpc'[t] = "exited",
               NEW i \in 1..Len(queue')
        PROVE  queue'[i] \notin early'
    <3>1. tpc[t] = "exited" /\ early' = early
      BY <1>2, <2>1, <2>3 DEF Phases
    <3>2. QED
      BY <1>3, <2>1, <3>1 DEF EarlyKept
  <2>4. QED
    BY <2>2, <2>3 DEF EarlyKept
<1>11. QED
  BY <1>5, <1>6, <1>7, <1>8, <1>9, <1>10

(* A thread takes the first worker. *)
LEMMA InvStart ==
  ASSUME IInv, TypeOK', NEW t \in Threads, Start(t)
  PROVE  IInv'
<1> USE DEF IInv
<1> DEFINE h == Head(queue)
<1>1. /\ tpc[t] = "ready" /\ tpc'[t] = "running" /\ job'[t] = h
      /\ \A u \in Threads : u # t => tpc'[u] = tpc[u] /\ job'[u] = job[u]
      /\ UNCHANGED <<abort, freed, reg, dpc, inserted, early>>
  BY DEF Start, TypeOK
<1>2. /\ TakenInOrder' /\ InsertedOnce' /\ Placed'
      /\ h \in Tasks /\ state[h] = "idle" /\ reg[h] = "registered"
      /\ \A w \in Tasks : w # h => state'[w] = state[w]
      /\ state'[h] = "busy"
      /\ \A i \in 1..Len(queue') : \E j \in 1..Len(queue) : queue'[i] = queue[j]
  BY Dequeue DEF Start
<1>3. Running'
  <2>1. \A u \in Threads : tpc[u] = "running" => job[u] # h
    BY <1>2 DEF Running
  <2>2. \A u \in Threads : tpc'[u] = "running" =>
          job'[u] \in Tasks /\ state'[job'[u]] = "busy"
    BY <1>1, <1>2, <2>1 DEF Running
  <2>3. \A u, v \in Threads : tpc'[u] = "running" /\ tpc'[v] = "running"
                              /\ job'[u] = job'[v] => u = v
    BY <1>1, <2>1 DEF Running
  <2>4. \A w \in Tasks : state'[w] = "busy" =>
          \E u \in Threads : tpc'[u] = "running" /\ job'[u] = w
    BY <1>1, <1>2 DEF Running
  <2>5. QED
    BY <2>2, <2>3, <2>4 DEF Running
<1>4. Phases'
  BY <1>1 DEF Phases
<1>5. EarlyKept'
  <2>1. \A w \in early' : reg'[w] = "registered"
                          /\ state'[w] \in {"idle", "busy", "freed"}
    BY <1>1, <1>2 DEF EarlyKept, TypeOK
  <2>2. ASSUME NEW u \in Threads, tpc'[u] = "exited"
        PROVE  \A i \in 1..Len(queue') : queue'[i] \notin early'
    BY <1>1, <1>2, <2>2 DEF EarlyKept
  <2>3. QED
    BY <2>1, <2>2 DEF EarlyKept
<1>6. QED
  BY <1>2, <1>3, <1>4, <1>5

(* A thread ends its worker. *)
LEMMA InvFinish ==
  ASSUME IInv, TypeOK', NEW t \in Threads, Finish(t)
  PROVE  IInv'
<1> USE DEF IInv
<1> DEFINE w == job[t]
<1>1. /\ tpc[t] = "running" /\ tpc'[t] = "ready"
      /\ \A u \in Threads : u # t => tpc'[u] = tpc[u] /\ job'[u] = job[u]
      /\ UNCHANGED <<queue, abort, freed, reg, dpc, inserted, taken, early>>
  BY DEF Finish, TypeOK
<1>2. /\ w \in Tasks /\ state[w] = "busy" /\ state'[w] = "freed"
      /\ \A v \in Tasks : v # w => state'[v] = state[v]
      /\ reg[w] = "registered"
  BY <1>1 DEF Finish, TypeOK, Running, Placed
<1>3. TakenInOrder' /\ InsertedOnce'
  BY <1>1 DEF TakenInOrder, InsertedOnce
<1>4. Placed'
  <2>1. \A i \in 1..Len(queue) : queue[i] # w /\ queue[i] \in Tasks
    BY <1>2 DEF Placed, TypeOK
  <2>2. QED
    BY <1>1, <1>2, <2>1 DEF Placed
<1>5. Running'
  <2>1. \A u \in Threads : u # t /\ tpc[u] = "running" => job[u] # w
    BY <1>1 DEF Running
  <2>2. QED
    BY <1>1, <1>2, <2>1 DEF Running
<1>6. Phases'
  BY <1>1 DEF Phases
<1>7. EarlyKept'
  BY <1>1, <1>2 DEF EarlyKept, TypeOK
<1>8. QED
  BY <1>3, <1>4, <1>5, <1>6, <1>7

(* A thread goes to sleep, wakes up or exits. *)
LEMMA InvThreadOther ==
  ASSUME IInv, TypeOK', NEW t \in Threads,
         Sleep(t) \/ SpuriousWakeup(t) \/ Exit(t)
  PROVE  IInv'
<1> USE DEF IInv
<1>1. /\ \A u \in Threads : u # t => tpc'[u] = tpc[u]
      /\ tpc[t] \in {"ready", "asleep"}
      /\ tpc'[t] \in {"ready", "asleep", "exited"}
      /\ tpc'[t] = "exited" => (abort /\ queue = <<>>)
      /\ tpc'[t] = "asleep" => ~abort
      /\ UNCHANGED <<queue, abort, freed, job, reg, state, dpc, inserted, taken, early>>
  BY DEF Sleep, SpuriousWakeup, Exit, TypeOK
<1>2. TakenInOrder' /\ InsertedOnce' /\ Placed'
  BY <1>1 DEF TakenInOrder, InsertedOnce, Placed
<1>3. Running'
  BY <1>1 DEF Running
<1>4. Phases'
  BY <1>1 DEF Phases
<1>5. EarlyKept'
  BY <1>1 DEF EarlyKept
<1>6. QED
  BY <1>2, <1>3, <1>4, <1>5

(* The steps of rpc_tp_destroy. *)
LEMMA InvDestroy ==
  ASSUME IInv, TypeOK', Destroy
  PROVE  IInv'
<1> USE DEF IInv
<1>1. CASE DestroyCall \/ DestroyPoll \/ DestroyJoin \/ DestroyDrained \/ DestroyFree
  <2>1. UNCHANGED <<queue, abort, tpc, job, reg, state, inserted, taken, early>>
    BY <1>1 DEF DestroyCall, DestroyPoll, DestroyJoin, DestroyDrained, DestroyFree
  <2>2. TakenInOrder' /\ InsertedOnce' /\ Placed' /\ Running' /\ EarlyKept'
    BY <2>1 DEF TakenInOrder, InsertedOnce, Placed, Running, EarlyKept
  <2>3. Phases'
    BY <1>1 DEF DestroyCall, DestroyPoll, DestroyJoin, DestroyDrained,
                DestroyFree, Phases
  <2>4. QED
    BY <2>2, <2>3
<1>2. CASE DestroyAbort
  <2>1. UNCHANGED <<queue, freed, job, reg, state, inserted, taken, early>>
        /\ dpc = "aborting" /\ dpc' = "joining" /\ abort' = TRUE
    BY <1>2 DEF DestroyAbort
  <2>2. \A t \in Threads : /\ tpc'[t] # "asleep"
                           /\ tpc[t] # "asleep" => tpc'[t] = tpc[t]
                           /\ tpc[t] = "asleep" => tpc'[t] = "ready"
    BY <1>2 DEF DestroyAbort, WakeAll
  <2>3. TakenInOrder' /\ InsertedOnce' /\ Placed'
    BY <2>1, SMTT(20) DEF TakenInOrder, InsertedOnce, Placed
  <2>4. Running'
    <3>1. \A t \in Threads : (tpc'[t] = "running" <=> tpc[t] = "running")
      BY <2>2
    <3>2. QED
      BY <2>1, <3>1 DEF Running
  <2>5. Phases'
    BY <2>1, <2>2 DEF Phases
  <2>6. EarlyKept'
    BY <2>1, <2>2 DEF EarlyKept
  <2>7. QED
    BY <2>3, <2>4, <2>5, <2>6
<1>3. CASE DestroyDrain
  <2> DEFINE h == Head(queue)
  <2>1. UNCHANGED <<abort, freed, tpc, job, reg, dpc, inserted, early>>
        /\ dpc = "draining"
    BY <1>3 DEF DestroyDrain
  <2>2. /\ TakenInOrder' /\ InsertedOnce' /\ Placed'
        /\ h \in Tasks /\ state[h] = "idle"
        /\ \A w \in Tasks : w # h => state'[w] = state[w]
        /\ \A i \in 1..Len(queue') : \E j \in 1..Len(queue) : queue'[i] = queue[j]
        /\ state'[h] = "dropped"
    BY <1>3, Dequeue DEF DestroyDrain
  <2>3. \A t \in Threads : tpc[t] = "exited"
    BY <2>1 DEF Phases
  <2>4. h \notin early
    <3>1. 1 \in 1..Len(queue) /\ h = queue[1]
      BY <1>3, TailFacts DEF DestroyDrain, TypeOK
    <3>2. QED
      BY <2>3, <3>1, ThreadsAssumption DEF EarlyKept
  <2>5. Running'
    BY <2>1, <2>2, <2>3 DEF Running
  <2>6. Phases'
    BY <2>1 DEF Phases
  <2>7. EarlyKept'
    <3>1. \A w \in early : w # h /\ w \in Tasks
      BY <2>4 DEF TypeOK
    <3>2. \A w \in early' : reg'[w] = "registered"
                            /\ state'[w] \in {"idle", "busy", "freed"}
      BY <2>1, <2>2, <3>1 DEF EarlyKept
    <3>3. \A i \in 1..Len(queue') : queue'[i] \notin early'
      BY <2>1, <2>2, <2>3, ThreadsAssumption DEF EarlyKept
    <3>4. QED
      BY <3>2, <3>3 DEF EarlyKept
  <2>8. QED
    BY <2>2, <2>5, <2>6, <2>7
<1>4. QED
  BY <1>1, <1>2, <1>3 DEF Destroy

(* The invariant is inductive. *)
LEMMA InvStep == IInv /\ [Next]_vars => IInv'
<1> SUFFICES ASSUME IInv, [Next]_vars PROVE IInv'
  OBVIOUS
<1>1. TypeOK'
  BY TypeStep DEF IInv
<1>2. ASSUME NEW w \in Tasks, Register(w) PROVE IInv'
  BY <1>1, <1>2, InvRegisterOther, InvRegisterInsert DEF Register
<1>3. ASSUME NEW t \in Threads, Thread(t) \/ SpuriousWakeup(t) PROVE IInv'
  BY <1>1, <1>3, InvStart, InvFinish, InvThreadOther DEF Thread
<1>4. CASE Destroy
  BY <1>1, <1>4, InvDestroy
<1>5. CASE UNCHANGED vars
  <2>1. TakenInOrder' /\ InsertedOnce' /\ Placed' /\ Running'
    BY <1>5 DEF vars, IInv, TakenInOrder, InsertedOnce, Placed, Running
  <2>2. Phases' /\ EarlyKept'
    BY <1>5 DEF vars, IInv, Phases, EarlyKept
  <2>3. QED
    BY <1>1, <2>1, <2>2 DEF IInv
<1>6. QED
  BY <1>2, <1>3, <1>4, <1>5 DEF Next

(* The pool's invariant holds in every reachable state. *)
THEOREM Invariance == Spec => []IInv
BY InvInit, InvStep, PTL DEF Spec

(***************************************************************************)
(* Requests leave the worker queue in registration order.                  *)
(***************************************************************************)
THEOREM InOrder == Spec => []TakenInOrder
<1>1. IInv => TakenInOrder
  BY DEF IInv
<1>2. QED
  BY <1>1, Invariance, PTL

(***************************************************************************)
(* No request is processed twice, and none is freed while it is processed. *)
(***************************************************************************)
THEOREM AtMostOnce == Spec => []RunAtMostOnce
<1>1. IInv => RunAtMostOnce
  <2> SUFFICES ASSUME IInv PROVE RunAtMostOnce
    OBVIOUS
  <2>1. ASSUME NEW i \in 1..Len(taken), NEW j \in 1..Len(taken),
               taken[i] = taken[j]
        PROVE  i = j
    <3>1. i \in 1..Len(inserted) /\ j \in 1..Len(inserted)
      BY DEF IInv, TypeOK, TakenInOrder
    <3>2. inserted[i] = inserted[j]
      BY <2>1 DEF IInv, TakenInOrder
    <3>3. QED
      BY <3>1, <3>2 DEF IInv, InsertedOnce
  <2>2. QED
    BY <2>1 DEF IInv, Running, RunAtMostOnce
<1>2. QED
  BY <1>1, Invariance, PTL

(***************************************************************************)
(* rpc_tp_destroy never throws away a request that was queued before it    *)
(* set abort: when the pool is gone each of them has been processed.       *)
(***************************************************************************)
THEOREM EarlySafe == Spec => [](EarlyNeverDropped /\ FreedAfterThreads)
<1>1. IInv => EarlyNeverDropped /\ FreedAfterThreads
  <2> SUFFICES ASSUME IInv PROVE EarlyNeverDropped /\ FreedAfterThreads
    OBVIOUS
  <2>1. FreedAfterThreads
    BY DEF IInv, Phases, FreedAfterThreads
  <2>2. ASSUME NEW w \in early PROVE state[w] # "dropped"
    BY DEF IInv, EarlyKept
  <2>3. ASSUME NEW w \in early, freed PROVE state[w] = "freed"
    <3>1. \A t \in Threads : tpc[t] = "exited"
      BY <2>1, <2>3 DEF FreedAfterThreads
    <3>2. w \in Tasks
      BY DEF IInv, TypeOK
    <3>3. state[w] # "idle"
      BY <3>1, <3>2, ThreadsAssumption DEF IInv, Placed, EarlyKept
    <3>4. state[w] # "busy"
      BY <3>1, <3>2 DEF IInv, Running
    <3>5. QED
      BY <3>3, <3>4 DEF IInv, EarlyKept
  <2>4. QED
    BY <2>1, <2>2, <2>3 DEF EarlyNeverDropped
<1>2. QED
  BY <1>1, Invariance, PTL

(* The sets of ready threads that the steps can lead to, and their sizes. *)
LEMMA ReadyFacts ==
  ASSUME NEW R \in SUBSET Threads
  PROVE  /\ IsFiniteSet(R) /\ Cardinality(R) \in Nat
         /\ \A t \in Threads : t \notin R =>
              Cardinality(R \cup {t}) = Cardinality(R) + 1
         /\ \A t \in R : Cardinality(R \ {t}) = Cardinality(R) - 1
<1>1. IsFiniteSet(R)
  BY ThreadsAssumption, FS_Subset
<1>2. Cardinality(R) \in Nat
  BY <1>1, FS_CardinalityType
<1>3. ASSUME NEW t \in Threads, t \notin R
      PROVE  Cardinality(R \cup {t}) = Cardinality(R) + 1
  BY <1>1, <1>3, FS_AddElement
<1>4. ASSUME NEW t \in R
      PROVE  Cardinality(R \ {t}) = Cardinality(R) - 1
  BY <1>1, FS_RemoveElement
<1>5. QED
  BY <1>1, <1>2, <1>3, <1>4

(***************************************************************************)
(* The signal of rpc_tp_worker_register suffices: no pool thread sleeps    *)
(* while a queued request lacks a thread on its way to the queue.          *)
(***************************************************************************)
THEOREM NoIdleThread == Spec => []WorkConserving
<1>1. Init => WorkConserving
  BY DEF Init, WorkConserving, Asleep
<1>2. TypeOK /\ WorkConserving /\ [Next]_vars => WorkConserving'
  <2> SUFFICES ASSUME TypeOK, WorkConserving, [Next]_vars, Asleep' # {}
               PROVE  Len(queue') <= Cardinality(Ready')
    BY DEF WorkConserving
  <2>0. /\ Ready \in SUBSET Threads /\ Asleep \in SUBSET Threads
        /\ Ready' \in SUBSET Threads
        /\ Len(queue) \in Nat /\ Cardinality(Ready) \in Nat
        /\ Cardinality(Ready') \in Nat
    <3>1. /\ Ready \in SUBSET Threads /\ Asleep \in SUBSET Threads
          /\ Ready' \in SUBSET Threads /\ Len(queue) \in Nat
      BY DEF Ready, Asleep, TypeOK
    <3>2. QED
      BY <3>1, ReadyFacts
  <2>1. ASSUME NEW w \in Tasks, RegisterInsert(w)
        PROVE  Len(queue') <= Cardinality(Ready')
    <3>1. Asleep # {}
      BY <2>1 DEF RegisterInsert, Signal, Asleep
    <3>2. PICK t \in Asleep : tpc' = [tpc EXCEPT ![t] = "ready"]
      BY <2>1, <3>1 DEF RegisterInsert, Signal
    <3>3. Ready' = Ready \cup {t} /\ t \notin Ready /\ t \in Threads
      BY <3>2 DEF Ready, Asleep, TypeOK
    <3>4. Cardinality(Ready') = Cardinality(Ready) + 1
      BY <2>0, <3>3, ReadyFacts
    <3>5. Len(queue') = Len(queue) + 1
      BY <2>1, AppendFacts DEF RegisterInsert, TypeOK
    <3>6. Len(queue) <= Cardinality(Ready)
      BY <3>1 DEF WorkConserving
    <3>7. QED
      BY <2>0, <3>4, <3>5, <3>6
  <2>2. ASSUME NEW t \in Threads, Start(t)
        PROVE  Len(queue') <= Cardinality(Ready')
    <3>1. Ready' = Ready \ {t} /\ t \in Ready /\ Asleep' = Asleep
      BY <2>2 DEF Start, Ready, Asleep, TypeOK
    <3>2. Cardinality(Ready') = Cardinality(Ready) - 1
      BY <2>0, <3>1, ReadyFacts
    <3>3. Len(queue') = Len(queue) - 1
      BY <2>2, TailFacts DEF Start, TypeOK
    <3>4. QED
      BY <2>0, <3>1, <3>2, <3>3 DEF WorkConserving
  <2>3. ASSUME NEW t \in Threads, Finish(t) \/ SpuriousWakeup(t)
        PROVE  Len(queue') <= Cardinality(Ready')
    <3>1. Ready' = Ready \cup {t} /\ t \notin Ready /\ queue' = queue
          /\ Asleep' \subseteq Asleep
      BY <2>3 DEF Finish, SpuriousWakeup, Ready, Asleep, TypeOK
    <3>2. Cardinality(Ready') = Cardinality(Ready) + 1
      BY <2>0, <3>1, ReadyFacts
    <3>3. Len(queue) <= Cardinality(Ready)
      BY <3>1 DEF WorkConserving
    <3>4. QED
      BY <2>0, <3>1, <3>2, <3>3
  <2>4. ASSUME NEW t \in Threads, Sleep(t) \/ Exit(t)
        PROVE  Len(queue') <= Cardinality(Ready')
    <3>1. Len(queue') = 0
      BY <2>4 DEF Sleep, Exit
    <3>2. QED
      BY <2>0, <3>1
  <2>5. ASSUME UNCHANGED <<queue, tpc>>
        PROVE  Len(queue') <= Cardinality(Ready')
    BY <2>5 DEF WorkConserving, Ready, Asleep
  <2>6. CASE DestroyAbort
    BY <2>6 DEF DestroyAbort, WakeAll, Asleep
  <2>7. CASE DestroyDrain
    <3>1. Asleep' = Asleep /\ Ready' = Ready /\ Len(queue') = Len(queue) - 1
      BY <2>7, TailFacts DEF DestroyDrain, Asleep, Ready, TypeOK
    <3>2. QED
      BY <2>0, <3>1 DEF WorkConserving
  <2>8. QED
    BY <2>1, <2>2, <2>3, <2>4, <2>5, <2>6, <2>7
    DEF Next, Register, RegisterCheck, RegisterDangling, Thread, Destroy,
        DestroyCall, DestroyPoll, DestroyJoin, DestroyDrained, DestroyFree, vars
<1>3. QED
  BY <1>1, <1>2, TypeCorrect, PTL DEF Spec
=============================================================================
