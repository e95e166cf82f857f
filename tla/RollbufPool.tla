---------------------------- MODULE RollbufPool ----------------------------
(***************************************************************************)
(* common/rollbuf_pool.c: a byte pool between a thread that pushes and one *)
(* that gets, with a third that finishes, stops and destroys it.           *)
(*                                                                         *)
(* A push tests stop_signal and the room without the lock, and on a        *)
(* stopped pool it unlocks a mutex it does not hold; finish and stop set   *)
(* their flags and signal without the lock.  The two copies of a critical  *)
(* section (into or out of the pool, and of what is behind) are steps of   *)
(* their own.  Bytes are numbered as they are pushed.  Memory is freed     *)
(* when no call is left in the pool: nothing in it waits for that.         *)
(***************************************************************************)
EXTENDS Integers, Sequences

CONSTANTS
  PoolSize,   \* pool_size
  MaxBytes,   \* bound: bytes that are pushed
  MaxWaits    \* ROLLBUF_POOL_MAX_BUF_THROW_TIMEOUT / ..._EVERY_WAIT_TIME

ASSUME PoolAssumption == PoolSize \in Nat

Nobody == "nobody"
Sizes == 1..PoolSize    \* sizes of a push and of a get

VARIABLES
  mem,           \* buffer_pool
  filled,        \* buffer_size
  owner,         \* access_lock
  stop_signal,   \* stop_signal
  finish,        \* finish_singal
  alive,         \* the pool is allocated
  push,          \* the call of rollbuf_pool_push
  get,           \* the call of rollbuf_pool_get
  pushed,        \* number of bytes pushed (history)
  fetched,       \* the bytes that were got (history)
  missed         \* a signal fell between the test and the wait (history)

rollbufVars == <<mem, filled, owner, stop_signal, finish, alive, push, get, pushed, fetched, missed>>

Free == 0   \* a byte that was not written

RollbufTypeOK ==
  /\ mem \in [1..PoolSize -> 0..MaxBytes] /\ filled \in 0..PoolSize
  /\ owner \in {Nobody, "push", "get"}
  /\ {stop_signal, finish, alive, missed} \subseteq BOOLEAN
  /\ push \in [at : {"idle", "room", "lock", "copy", "count"}, n : 0..PoolSize, waits : 0..MaxWaits]
  /\ get \in [at : {"idle", "test", "wait", "sleep", "awake", "move"}, n : 0..PoolSize]
  /\ pushed \in 0..MaxBytes /\ fetched \in Seq(1..MaxBytes)

(* rollbuf_pool_create *)
RollbufInit ==
  /\ mem = [i \in 1..PoolSize |-> Free] /\ filled = 0
  /\ owner = Nobody /\ stop_signal = FALSE /\ finish = FALSE /\ alive = TRUE
  /\ push = [at |-> "idle", n |-> 0, waits |-> 0]
  /\ get = [at |-> "idle", n |-> 0]
  /\ pushed = 0 /\ fetched = <<>> /\ missed = FALSE

-----------------------------------------------------------------------------
(* pthread_cond_signal *)
Woken == IF get.at = "sleep" THEN [get EXCEPT !.at = "awake"] ELSE get

(* rollbuf_pool_push of n bytes *)
PushBegin(n) ==
  /\ alive /\ push.at = "idle" /\ pushed + n <= MaxBytes
  /\ IF stop_signal THEN owner' = Nobody /\ UNCHANGED push
     ELSE push' = [at |-> "room", n |-> n, waits |-> 0] /\ UNCHANGED owner
  /\ UNCHANGED <<mem, filled, stop_signal, finish, alive, get, pushed, fetched, missed>>

(* It waits for room, a limited number of times. *)
PushRoom ==
  /\ push.at = "room"
  /\ push' = IF filled + push.n < PoolSize THEN [push EXCEPT !.at = "lock"]
             ELSE IF push.waits < MaxWaits THEN [push EXCEPT !.waits = @ + 1]
             ELSE [push EXCEPT !.at = "idle"]
  /\ UNCHANGED <<mem, filled, owner, stop_signal, finish, alive, get, pushed, fetched, missed>>

PushLock ==
  /\ push.at = "lock" /\ owner = Nobody
  /\ owner' = "push" /\ push' = [push EXCEPT !.at = "copy"]
  /\ UNCHANGED <<mem, filled, stop_signal, finish, alive, get, pushed, fetched, missed>>

PushCopy ==
  /\ push.at = "copy"
  /\ mem' = [i \in 1..PoolSize |-> IF i \in filled + 1..filled + push.n THEN pushed + i - filled ELSE mem[i]]
  /\ push' = [push EXCEPT !.at = "count"]
  /\ UNCHANGED <<filled, owner, stop_signal, finish, alive, get, pushed, fetched, missed>>

PushCount ==
  /\ push.at = "count"
  /\ filled' = filled + push.n /\ pushed' = pushed + push.n
  /\ get' = Woken
  /\ owner' = Nobody
  /\ push' = [push EXCEPT !.at = "idle"]
  /\ UNCHANGED <<mem, stop_signal, finish, alive, fetched, missed>>

-----------------------------------------------------------------------------
(* rollbuf_pool_get of n bytes *)
GetBegin(n) ==
  /\ alive /\ get.at = "idle" /\ owner = Nobody
  /\ owner' = "get" /\ get' = [at |-> "test", n |-> n]
  /\ UNCHANGED <<mem, filled, stop_signal, finish, alive, push, pushed, fetched, missed>>

(* It returns with the lock released. *)
GetReturns == owner' = Nobody /\ get' = [get EXCEPT !.at = "idle"]

Taken(n) == [i \in 1..n |-> mem[i]]

(* Stopped: -1 and no byte *)
GetStopped ==
  /\ get.at = "test" /\ stop_signal
  /\ GetReturns
  /\ UNCHANGED <<mem, filled, stop_signal, finish, alive, push, pushed, fetched, missed>>

(* Finished with too few bytes: what is there is taken. *)
GetRest ==
  /\ get.at = "test" /\ ~stop_signal /\ get.n > filled /\ finish
  /\ fetched' = fetched \o Taken(filled) /\ filled' = 0
  /\ GetReturns
  /\ UNCHANGED <<mem, stop_signal, finish, alive, push, pushed, missed>>

(* Too few bytes: on_buffering_cb, and then it waits. *)
GetWait ==
  /\ get.at = "test" /\ ~stop_signal /\ get.n > filled /\ ~finish
  /\ get' = [get EXCEPT !.at = "wait"]
  /\ UNCHANGED <<mem, filled, owner, stop_signal, finish, alive, push, pushed, fetched, missed>>

GetSleep ==
  /\ get.at = "wait"
  /\ get' = [get EXCEPT !.at = "sleep"] /\ owner' = Nobody
  /\ UNCHANGED <<mem, filled, stop_signal, finish, alive, push, pushed, fetched, missed>>

GetWake ==
  /\ get.at = "awake" /\ owner = Nobody
  /\ owner' = "get" /\ get' = [get EXCEPT !.at = "test"]
  /\ missed' = FALSE
  /\ UNCHANGED <<mem, filled, stop_signal, finish, alive, push, pushed, fetched>>

GetTake ==
  /\ get.at = "test" /\ ~stop_signal /\ get.n <= filled
  /\ fetched' = fetched \o Taken(get.n) /\ filled' = filled - get.n
  /\ get' = [get EXCEPT !.at = "move"]
  /\ UNCHANGED <<mem, owner, stop_signal, finish, alive, push, pushed, missed>>

(* Mutant of GetMove: as many bytes as were taken are moved. *)
GetMoveTaken ==
  /\ get.at = "move"
  /\ mem' = [i \in 1..PoolSize |-> IF i <= get.n /\ i + get.n <= PoolSize THEN mem[i + get.n] ELSE mem[i]]
  /\ GetReturns
  /\ UNCHANGED <<filled, stop_signal, finish, alive, push, pushed, fetched, missed>>

GetMove ==
  /\ get.at = "move"
  /\ mem' = [i \in 1..PoolSize |-> IF i <= filled THEN mem[i + get.n] ELSE mem[i]]
  /\ GetReturns
  /\ UNCHANGED <<filled, stop_signal, finish, alive, push, pushed, fetched, missed>>

-----------------------------------------------------------------------------
(* A signal that no thread waits for, while one is about to *)
RollbufSignal ==
  /\ get' = Woken
  /\ missed' = (missed \/ get.at = "wait")

(* Mutant of RollbufFinish: no signal. *)
FinishSilent ==
  /\ alive /\ ~finish /\ finish' = TRUE
  /\ UNCHANGED <<mem, filled, owner, stop_signal, alive, push, get, pushed, fetched, missed>>

(* rollbuf_pool_finish *)
RollbufFinish ==
  /\ alive /\ ~finish /\ finish' = TRUE
  /\ RollbufSignal
  /\ UNCHANGED <<mem, filled, owner, stop_signal, alive, push, pushed, fetched>>

(* rollbuf_pool_stop *)
RollbufStop ==
  /\ alive /\ ~stop_signal /\ stop_signal' = TRUE
  /\ RollbufSignal
  /\ UNCHANGED <<mem, filled, owner, finish, alive, push, pushed, fetched>>

(* rollbuf_pool_destroy after stop and finish: it takes the lock for good. *)
RollbufDestroy ==
  /\ alive /\ stop_signal /\ finish
  /\ push.at = "idle" /\ get.at = "idle" /\ owner = Nobody
  /\ alive' = FALSE
  /\ UNCHANGED <<mem, filled, owner, stop_signal, finish, push, get, pushed, fetched, missed>>

-----------------------------------------------------------------------------

PushStep == PushRoom \/ PushLock \/ PushCopy \/ PushCount
GetStep ==
  GetStopped \/ GetRest \/ GetWait \/ GetSleep \/ GetWake \/ GetTake \/ GetMove

RollbufNext ==
  \/ \E n \in Sizes : PushBegin(n) \/ GetBegin(n)
  \/ PushStep \/ GetStep
  \/ RollbufFinish \/ RollbufStop \/ RollbufDestroy

RollbufSpec == RollbufInit /\ [][RollbufNext]_rollbufVars

(* Threads run; finish and stop need not be called. *)
RollbufFairness == WF_rollbufVars(PushStep) /\ WF_rollbufVars(GetStep)

-----------------------------------------------------------------------------

(***************************************************************************)
(* With one thread that pushes the bytes come out as they went in, none is *)
(* lost, doubled or overwritten, and the pool is never filled past its     *)
(* end: although a push tests the room without the lock, and unlocks on a  *)
(* stopped pool what another thread may hold (rollbuf_pool.c:74, :79).     *)
(***************************************************************************)
BytesKept ==
  /\ filled <= PoolSize
  /\ get.at # "move" => fetched \o Taken(filled) = [i \in 1..pushed |-> i]

(***************************************************************************)
(* A get returns once the pool was stopped or finished, unless the signal  *)
(* fell between its test and its wait: flags are set without the lock.     *)
(***************************************************************************)
GetEnds == (get.at # "idle" /\ (stop_signal \/ finish) /\ ~missed) ~> (get.at = "idle" \/ missed)
============================================================================
