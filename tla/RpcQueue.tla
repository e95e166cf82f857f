------------------------------ MODULE RpcQueue ------------------------------
(***************************************************************************)
(* The blocking queue of rpcprovider/rpc_queue.c: a TAILQ guarded by one   *)
(* mutex and one condition variable.  It carries the outgoing buffers of a *)
(* connection and the "this connection has something to send" signals to   *)
(* the sender thread of rpc_io.c.                                          *)
(*                                                                         *)
(* Every critical section is one action: from pthread_mutex_lock to        *)
(* pthread_mutex_unlock, or to the point where pthread_cond_wait gives the *)
(* mutex up.  A getter inside pthread_cond_(timed)wait is "asleep"; a      *)
(* signal, its timeout, or a wakeup without a cause (POSIX allows it)      *)
(* makes it "awake", and only then does it compete for the mutex again.    *)
(***************************************************************************)
EXTENDS Naturals, Sequences, FiniteSets

CONSTANTS
  Getters,   \* threads that call rpc_queue_get
  Modes,     \* Modes[g]: the kinds of timeout thread g passes
  MaxPush,   \* bound: how many bodies are pushed
  Spurious   \* whether a wait may return without signal or timeout

ASSUME GettersAssumption == IsFiniteSet(Getters)

Timeouts == {"forever", "timed", "zero"}   \* timeout < 0, > 0, = 0
Causes   == {"none", "signal", "timeout", "spurious"}
Results  == {"none", "got", "empty", "abort"}   \* -, 1, 0, -1

VARIABLES
  bodies,      \* the TAILQ: bodies, numbered in the order they are pushed
  stop_sign,   \* rpc_queue_stop_sign
  destroyed,   \* rpc_queue_destroy has returned
  getter,      \* getter[g]: "idle" | "asleep" | "awake"
  mode,        \* mode[g]: the timeout of the call g is in
  cause,       \* cause[g]: why g's wait ended (ret_status)
  result,      \* result[g]: what g's last call returned
  npush        \* number of bodies pushed so far

queueVars == <<bodies, stop_sign, destroyed, getter, mode, cause, result, npush>>

QueueInit ==
  /\ bodies = <<>>
  /\ stop_sign = FALSE
  /\ destroyed = FALSE
  /\ getter = [g \in Getters |-> "idle"]
  /\ mode = [g \in Getters |-> "zero"]
  /\ cause = [g \in Getters |-> "none"]
  /\ result = [g \in Getters |-> "none"]
  /\ npush = 0

Sleepers == {g \in Getters : getter[g] = "asleep"}
Awake  == {g \in Getters : getter[g] = "awake"}

(***************************************************************************)
(* pthread_cond_signal: one sleeper, if there is any, becomes awake.       *)
(***************************************************************************)
QueueSignal ==
  IF Sleepers = {}
  THEN UNCHANGED <<getter, cause>>
  ELSE \E g \in Sleepers :
         /\ getter' = [getter EXCEPT ![g] = "awake"]
         /\ cause' = [cause EXCEPT ![g] = "signal"]

(* Mutant of Push: the signal is forgotten. *)
PushNoSignal ==
  /\ ~destroyed /\ npush < MaxPush
  /\ npush' = npush + 1
  /\ bodies' = Append(bodies, npush + 1)
  /\ UNCHANGED <<stop_sign, destroyed, getter, mode, cause, result>>

Push ==
  /\ ~destroyed
  /\ npush < MaxPush
  /\ npush' = npush + 1
  /\ bodies' = Append(bodies, npush + 1)
  /\ QueueSignal
  /\ UNCHANGED <<stop_sign, destroyed, mode, result>>

(* The end of rpc_queue_get that hands out the first body. *)
Take(g) ==
  /\ bodies # <<>>
  /\ bodies' = Tail(bodies)
  /\ getter' = [getter EXCEPT ![g] = "idle"]
  /\ result' = [result EXCEPT ![g] = "got"]

(* The ends of rpc_queue_get that return without a body. *)
Return(g, r) ==
  /\ getter' = [getter EXCEPT ![g] = "idle"]
  /\ result' = [result EXCEPT ![g] = r]
  /\ UNCHANGED bodies

(***************************************************************************)
(* rpc_queue_get up to its return or its wait.  A body that is there is    *)
(* handed out even when the queue is stopped; a stopped empty queue        *)
(* answers 0; a poll of an empty queue answers 0.  A timed wait whose      *)
(* tv_nsec runs over 10^9 (the sum of lines 94-95 is never normalised)     *)
(* fails at once with EINVAL, which the code reports as an abort.          *)
(***************************************************************************)
GetBody(g, m) ==
  /\ Take(g)
  /\ mode' = [mode EXCEPT ![g] = m]
  /\ cause' = [cause EXCEPT ![g] = "none"]

GetEmpty(g, m) ==
  /\ bodies = <<>>
  /\ stop_sign \/ m = "zero"
  /\ Return(g, "empty")
  /\ mode' = [mode EXCEPT ![g] = m]
  /\ cause' = [cause EXCEPT ![g] = "none"]

GetInvalidTime(g, m) ==
  /\ bodies = <<>> /\ ~stop_sign /\ m = "timed"
  /\ Return(g, "abort")
  /\ mode' = [mode EXCEPT ![g] = m]
  /\ cause' = [cause EXCEPT ![g] = "none"]

GetBlock(g, m) ==
  /\ bodies = <<>> /\ ~stop_sign /\ m # "zero"
  /\ getter' = [getter EXCEPT ![g] = "asleep"]
  /\ mode' = [mode EXCEPT ![g] = m]
  /\ cause' = [cause EXCEPT ![g] = "none"]
  /\ UNCHANGED <<bodies, result>>

Get(g) ==
  /\ ~destroyed /\ getter[g] = "idle"
  /\ \E m \in Modes[g] : \/ GetBody(g, m)
                         \/ GetEmpty(g, m)
                         \/ GetInvalidTime(g, m)
                         \/ GetBlock(g, m)
  /\ UNCHANGED <<stop_sign, destroyed, npush>>

(* The environment ends a wait: its time is over, or for no reason. *)
EndWait(g, c) ==
  /\ getter[g] = "asleep"
  /\ \/ c = "timeout" /\ mode[g] = "timed"
     \/ c = "spurious" /\ Spurious
  /\ getter' = [getter EXCEPT ![g] = "awake"]
  /\ cause' = [cause EXCEPT ![g] = c]
  /\ UNCHANGED <<bodies, stop_sign, destroyed, mode, result, npush>>

(***************************************************************************)
(* rpc_queue_get from the end of the wait, with the mutex held again, to   *)
(* its return: the loop never waits twice.  The stop sign wins over a      *)
(* body; an empty queue is a timeout or, for any other cause, an abort.    *)
(***************************************************************************)
Resume(g) ==
  /\ getter[g] = "awake"
  /\ \/ stop_sign /\ Return(g, "abort")
     \/ ~stop_sign /\ Take(g)
     \/ /\ ~stop_sign /\ bodies = <<>>
        /\ Return(g, IF cause[g] = "timeout" THEN "empty" ELSE "abort")
  /\ UNCHANGED <<stop_sign, destroyed, mode, cause, npush>>

(* Mutant of QueueStop: the sign is set and nobody is told. *)
StopNoSignal ==
  /\ ~destroyed
  /\ stop_sign' = TRUE
  /\ UNCHANGED <<bodies, destroyed, getter, mode, cause, result, npush>>

QueueStop ==
  /\ ~destroyed
  /\ stop_sign' = TRUE
  /\ QueueSignal
  /\ UNCHANGED <<bodies, destroyed, mode, result, npush>>

(* rpc_queue_destroy: its callers have joined every getter before it. *)
QueueDestroy ==
  /\ ~destroyed
  /\ \A g \in Getters : getter[g] = "idle"
  /\ stop_sign' = TRUE
  /\ destroyed' = TRUE
  /\ UNCHANGED <<bodies, getter, mode, cause, result, npush>>

QueueNext ==
  \/ Push
  \/ QueueStop
  \/ QueueDestroy
  \/ \E g \in Getters :
       \/ Get(g)
       \/ Resume(g)
       \/ \E c \in {"timeout", "spurious"} : EndWait(g, c)

(***************************************************************************)
(* Fairness: a thread that is awake gets the mutex eventually, and the     *)
(* clock ends timed waits.  Nobody is obliged to push, get or stop.        *)
(***************************************************************************)
QueueFairness ==
  \A g \in Getters : /\ WF_queueVars(Resume(g))
                     /\ WF_queueVars(EndWait(g, "timeout"))

QueueSpec == QueueInit /\ [][QueueNext]_queueVars

-----------------------------------------------------------------------------

(* The type of the queue and of its users. *)
QueueTypeOK ==
  /\ bodies \in Seq(1..MaxPush)
  /\ stop_sign \in BOOLEAN
  /\ destroyed \in BOOLEAN
  /\ getter \in [Getters -> {"idle", "asleep", "awake"}]
  /\ mode \in [Getters -> Timeouts]
  /\ cause \in [Getters -> Causes]
  /\ result \in [Getters -> Results]
  /\ npush \in 0..MaxPush

(***************************************************************************)
(* push signals at most one sleeper and a sleeper never looks again by     *)
(* itself, so each queued body needs a thread that is already awake: while *)
(* anyone sleeps there are at least as many awake threads as bodies.       *)
(***************************************************************************)
NoBodySleptOn ==
  Sleepers # {} /\ ~stop_sign => Len(bodies) <= Cardinality(Awake)

(***************************************************************************)
(* "rpc queue ensure stop and return" (rpc_queue.c:158): after the stop    *)
(* sign no thread stays inside rpc_queue_get.                              *)
(***************************************************************************)
StopReleasesGetters ==
  \A g \in Getters : stop_sign /\ getter[g] # "idle" ~> getter[g] = "idle"
============================================================================
