--------------------------- MODULE RpcThreadPool ---------------------------
(***************************************************************************)
(* The worker pool of rpcprovider/rpc_threadpool.c.  rpc_io.c hands every  *)
(* decoded request to it (rpc_io_request_dispatcher) with                  *)
(* rpc_io_processor as the work and rpc_io_processor_complete, which frees *)
(* the worker, as the completion callback.                                 *)
(*                                                                         *)
(* A critical section of pool->mutex is one action.  What the code does    *)
(* outside of the mutex is a step of its own: rpc_tp_worker_register tests *)
(* pool->abort before it locks, and rpc_tp_destroy polls, joins, drains    *)
(* and frees without the lock, so calls of both overlap freely.            *)
(***************************************************************************)
EXTENDS Naturals, Sequences, FiniteSets

CONSTANTS
  Threads,   \* the nthreads pool threads
  Tasks,     \* requests, each registered by one call of its own
  NoTask     \* "no worker"

ASSUME ThreadsAssumption == Threads # {} /\ IsFiniteSet(Threads)
ASSUME TasksAssumption == NoTask \notin Tasks

VARIABLES
  queue,     \* pool->worker_queue
  abort,     \* pool->abort
  freed,     \* the pool's memory is gone
  tpc,       \* tpc[t]: where thread t is in rpc_tp_routine
  job,       \* job[t]: the worker thread t runs
  reg,       \* reg[w]: where the registration of w is
  state,     \* state[w]: the worker
  dpc,       \* where the call of rpc_tp_destroy is
  inserted,  \* history: the workers put in the queue, in order
  taken,     \* history: the workers taken out of it, in order
  early      \* history: those put in the queue before abort was set

vars == <<queue, abort, freed, tpc, job, reg, state, dpc,
          inserted, taken, early>>

ThreadPCs    == {"ready", "asleep", "running", "exited"}
RegPCs       == {"new", "checked", "rejected", "registered", "dangling"}
WorkerStates == {"none", "idle", "busy", "freed", "dropped"}
DestroyPCs   == {"idle", "polling", "aborting", "joining", "draining",
                 "freeing", "done"}

Init ==
  /\ queue = <<>>
  /\ abort = FALSE
  /\ freed = FALSE
  /\ tpc = [t \in Threads |-> "ready"]
  /\ job = [t \in Threads |-> NoTask]
  /\ reg = [w \in Tasks |-> "new"]
  /\ state = [w \in Tasks |-> "none"]
  /\ dpc = "idle"
  /\ inserted = <<>>
  /\ taken = <<>>
  /\ early = {}

Asleep == {t \in Threads : tpc[t] = "asleep"}
Ready  == {t \in Threads : tpc[t] = "ready"}

-----------------------------------------------------------------------------
(* rpc_tp_worker_register *)

(* The test of pool->abort, before the lock is taken. *)
RegisterCheck(w) ==
  /\ reg[w] = "new"
  /\ reg' = [reg EXCEPT ![w] = IF freed THEN "dangling"
                               ELSE IF abort THEN "rejected" ELSE "checked"]
  /\ UNCHANGED <<queue, abort, freed, tpc, job, state, dpc,
                 inserted, taken, early>>

(* pthread_cond_signal: one sleeper, if there is any, looks again. *)
Signal ==
  IF Asleep = {}
  THEN UNCHANGED tpc
  ELSE \E t \in Asleep : tpc' = [tpc EXCEPT ![t] = "ready"]

(* Mutant of RegisterInsert: the signal is forgotten. *)
RegisterInsertSilent(w) ==
  /\ reg[w] = "checked" /\ ~freed
  /\ reg' = [reg EXCEPT ![w] = "registered"]
  /\ state' = [state EXCEPT ![w] = "idle"]
  /\ queue' = Append(queue, w)
  /\ inserted' = Append(inserted, w)
  /\ early' = IF abort THEN early ELSE early \cup {w}
  /\ UNCHANGED <<abort, freed, tpc, job, dpc, taken>>

(* The insertion, under the lock; abort is not tested again. *)
RegisterInsert(w) ==
  /\ reg[w] = "checked" /\ ~freed
  /\ reg' = [reg EXCEPT ![w] = "registered"]
  /\ state' = [state EXCEPT ![w] = "idle"]
  /\ queue' = Append(queue, w)
  /\ inserted' = Append(inserted, w)
  /\ early' = IF abort THEN early ELSE early \cup {w}
  /\ Signal
  /\ UNCHANGED <<abort, freed, job, dpc, taken>>

(* The insertion when the pool was freed in between: undefined behaviour, *)
(* the worker is lost.                                                     *)
RegisterDangling(w) ==
  /\ reg[w] = "checked" /\ freed
  /\ reg' = [reg EXCEPT ![w] = "dangling"]
  /\ UNCHANGED <<queue, abort, freed, tpc, job, state, dpc,
                 inserted, taken, early>>

-----------------------------------------------------------------------------
(* rpc_tp_routine *)

(* The first worker is taken, whether or not abort is set. *)
Start(t) ==
  /\ tpc[t] = "ready" /\ queue # <<>>
  /\ queue' = Tail(queue)
  /\ taken' = Append(taken, Head(queue))
  /\ tpc' = [tpc EXCEPT ![t] = "running"]
  /\ job' = [job EXCEPT ![t] = Head(queue)]
  /\ state' = [state EXCEPT ![Head(queue)] = "busy"]
  /\ UNCHANGED <<abort, freed, reg, dpc, inserted, early>>

(* process_cb returns, the worker is complete, complete_cb frees it. *)
Finish(t) ==
  /\ tpc[t] = "running"
  /\ tpc' = [tpc EXCEPT ![t] = "ready"]
  /\ job' = [job EXCEPT ![t] = NoTask]
  /\ state' = [state EXCEPT ![job[t]] = "freed"]
  /\ UNCHANGED <<queue, abort, freed, reg, dpc, inserted, taken, early>>

Sleep(t) ==
  /\ tpc[t] = "ready" /\ queue = <<>> /\ ~abort
  /\ tpc' = [tpc EXCEPT ![t] = "asleep"]
  /\ UNCHANGED <<queue, abort, freed, job, reg, state, dpc,
                 inserted, taken, early>>

(* pthread_cond_wait may return without a signal. *)
SpuriousWakeup(t) ==
  /\ tpc[t] = "asleep"
  /\ tpc' = [tpc EXCEPT ![t] = "ready"]
  /\ UNCHANGED <<queue, abort, freed, job, reg, state, dpc,
                 inserted, taken, early>>

(* Mutant of Exit: abort is tested before the queue. *)
ExitEager(t) ==
  /\ tpc[t] = "ready" /\ abort
  /\ tpc' = [tpc EXCEPT ![t] = "exited"]
  /\ UNCHANGED <<queue, abort, freed, job, reg, state, dpc,
                 inserted, taken, early>>

Exit(t) ==
  /\ tpc[t] = "ready" /\ queue = <<>> /\ abort
  /\ tpc' = [tpc EXCEPT ![t] = "exited"]
  /\ UNCHANGED <<queue, abort, freed, job, reg, state, dpc,
                 inserted, taken, early>>

-----------------------------------------------------------------------------
(* rpc_tp_destroy, called once (rpc_io_destroy) *)

(* tp_kill_wait polls the queue first, tp_kill_immediate does not. *)
DestroyCall ==
  /\ dpc = "idle"
  /\ dpc' \in {"polling", "aborting"}
  /\ UNCHANGED <<queue, abort, freed, tpc, job, reg, state,
                 inserted, taken, early>>

(* The poll that finds the queue empty; one that does not just sleeps. *)
DestroyPoll ==
  /\ dpc = "polling" /\ queue = <<>>
  /\ dpc' = "aborting"
  /\ UNCHANGED <<queue, abort, freed, tpc, job, reg, state,
                 inserted, taken, early>>

(* Mutant of WakeAll: signal in place of broadcast. *)
WakeOne == Signal

(* pthread_cond_broadcast: every sleeper looks again. *)
WakeAll == tpc' = [t \in Threads |-> IF tpc[t] = "asleep" THEN "ready" ELSE tpc[t]]

DestroyAbort ==
  /\ dpc = "aborting"
  /\ dpc' = "joining"
  /\ abort' = TRUE
  /\ WakeAll
  /\ UNCHANGED <<queue, freed, job, reg, state, inserted, taken, early>>

DestroyJoin ==
  /\ dpc = "joining"
  /\ \A t \in Threads : tpc[t] = "exited"
  /\ dpc' = "draining"
  /\ UNCHANGED <<queue, abort, freed, tpc, job, reg, state,
                 inserted, taken, early>>

(* A worker that is left over is freed without having run. *)
DestroyDrain ==
  /\ dpc = "draining" /\ queue # <<>>
  /\ queue' = Tail(queue)
  /\ taken' = Append(taken, Head(queue))
  /\ state' = [state EXCEPT ![Head(queue)] = "dropped"]
  /\ UNCHANGED <<abort, freed, tpc, job, reg, dpc, inserted, early>>

DestroyDrained ==
  /\ dpc = "draining" /\ queue = <<>>
  /\ dpc' = "freeing"
  /\ UNCHANGED <<queue, abort, freed, tpc, job, reg, state,
                 inserted, taken, early>>

DestroyFree ==
  /\ dpc = "freeing"
  /\ dpc' = "done"
  /\ freed' = TRUE
  /\ UNCHANGED <<queue, abort, tpc, job, reg, state, inserted, taken, early>>

-----------------------------------------------------------------------------

Thread(t) == Start(t) \/ Finish(t) \/ Sleep(t) \/ Exit(t)

Register(w) == RegisterCheck(w) \/ RegisterInsert(w) \/ RegisterDangling(w)

Destroy ==
  \/ DestroyCall
  \/ DestroyPoll
  \/ DestroyAbort
  \/ DestroyJoin
  \/ DestroyDrain
  \/ DestroyDrained
  \/ DestroyFree

Next ==
  \/ \E w \in Tasks : Register(w)
  \/ \E t \in Threads : Thread(t) \/ SpuriousWakeup(t)
  \/ Destroy

(***************************************************************************)
(* Fairness: the operating system runs every thread that can run, the one  *)
(* that is inside rpc_tp_destroy included, and a process_cb returns.       *)
(* Nobody is obliged to register a task or to destroy the pool.            *)
(***************************************************************************)
Fairness ==
  /\ \A t \in Threads : WF_vars(Thread(t))
  /\ WF_vars(Destroy /\ dpc # "idle")

Spec == Init /\ [][Next]_vars

FairSpec == Spec /\ Fairness

-----------------------------------------------------------------------------

TypeOK ==
  /\ queue \in Seq(Tasks)
  /\ abort \in BOOLEAN
  /\ freed \in BOOLEAN
  /\ tpc \in [Threads -> ThreadPCs]
  /\ job \in [Threads -> Tasks \cup {NoTask}]
  /\ reg \in [Tasks -> RegPCs]
  /\ state \in [Tasks -> WorkerStates]
  /\ dpc \in DestroyPCs
  /\ inserted \in Seq(Tasks)
  /\ taken \in Seq(Tasks)
  /\ early \in SUBSET Tasks

(***************************************************************************)
(* Requests leave the queue in the order they were registered, none is     *)
(* skipped: what was taken followed by what is queued is what was          *)
(* inserted.                                                               *)
(***************************************************************************)
TakenInOrder ==
  /\ Len(inserted) = Len(taken) + Len(queue)
  /\ \A i \in 1..Len(taken) : taken[i] = inserted[i]
  /\ \A i \in 1..Len(queue) : queue[i] = inserted[Len(taken) + i]

(***************************************************************************)
(* A request is run by at most one thread and never run again: no worker   *)
(* is taken twice, and a worker some thread runs is busy, so it is neither *)
(* queued nor freed under the thread's feet.                               *)
(***************************************************************************)
RunAtMostOnce ==
  /\ \A i, j \in 1..Len(taken) : taken[i] = taken[j] => i = j
  /\ \A t \in Threads : tpc[t] = "running" => state[job[t]] = "busy"
  /\ \A t, u \in Threads : tpc[t] = "running" /\ tpc[u] = "running"
                           /\ job[t] = job[u] => t = u

(***************************************************************************)
(* Destroying the pool, immediately or not, never throws away a request    *)
(* that was queued before abort was set: the threads leave only from an    *)
(* empty queue.                                                            *)
(***************************************************************************)
EarlyNeverDropped ==
  \A w \in early : /\ state[w] # "dropped"
                   /\ freed => state[w] = "freed"

(***************************************************************************)
(* The pool is never freed while a thread can still touch it.              *)
(***************************************************************************)
FreedAfterThreads ==
  freed => \A t \in Threads : tpc[t] = "exited"

(***************************************************************************)
(* No thread sleeps through work: while a thread is asleep every queued    *)
(* request has a thread of its own on the way to the queue.                *)
(***************************************************************************)
WorkConserving ==
  Asleep # {} => Len(queue) <= Cardinality(Ready)

-----------------------------------------------------------------------------
(***************************************************************************)
(* The inductive invariant behind the safety properties: each registered   *)
(* worker is in exactly one place (queued and idle, run by one thread and  *)
(* busy, freed, or dropped), and the phases of rpc_tp_destroy order the    *)
(* end of the threads before the draining of the queue.                    *)
(***************************************************************************)
InsertedOnce ==
  /\ \A i, j \in 1..Len(inserted) : inserted[i] = inserted[j] => i = j
  /\ \A i \in 1..Len(inserted) : reg[inserted[i]] = "registered"

Placed ==
  /\ \A w \in Tasks : reg[w] # "registered" => state[w] = "none"
  /\ \A i \in 1..Len(queue) : state[queue[i]] = "idle"
  /\ \A w \in Tasks : state[w] = "idle" => \E i \in 1..Len(queue) : queue[i] = w

Running ==
  /\ \A t \in Threads : tpc[t] = "running" =>
       job[t] \in Tasks /\ state[job[t]] = "busy"
  /\ \A t, u \in Threads : tpc[t] = "running" /\ tpc[u] = "running"
                           /\ job[t] = job[u] => t = u
  /\ \A w \in Tasks : state[w] = "busy" =>
       \E t \in Threads : tpc[t] = "running" /\ job[t] = w

Phases ==
  /\ abort <=> dpc \in {"joining", "draining", "freeing", "done"}
  /\ freed <=> dpc = "done"
  /\ dpc \in {"draining", "freeing", "done"} =>
       \A t \in Threads : tpc[t] = "exited"
  /\ \A t \in Threads : (tpc[t] = "exited" => abort)
                         /\ (tpc[t] = "asleep" => ~abort)

EarlyKept ==
  /\ \A w \in early : reg[w] = "registered" /\ state[w] \in {"idle", "busy", "freed"}
  /\ (\E t \in Threads : tpc[t] = "exited") =>
       \A i \in 1..Len(queue) : queue[i] \notin early

IInv ==
  /\ TypeOK
  /\ TakenInOrder
  /\ InsertedOnce
  /\ Placed
  /\ Running
  /\ Phases
  /\ EarlyKept

-----------------------------------------------------------------------------
(***************************************************************************)
(* A request queued before abort is processed, whatever the destroying     *)
(* thread does.                                                            *)
(***************************************************************************)
EarlyProcessed ==
  \A w \in Tasks : w \in early ~> state[w] = "freed"

(* A call of rpc_tp_destroy returns. *)
DestroyReturns == dpc # "idle" ~> dpc = "done"
=============================================================================
