-------------------------- MODULE TransportProofs ---------------------------
(***************************************************************************)
(* Machine-checked proofs about what carries the bytes of a packet: the    *)
(* blocking queue (RpcQueue), the byte pool (RollbufPool), encrypted       *)
(* bodies (RpcCrypt) and the stream with its ring buffer (RpcWire).        *)
(***************************************************************************)
EXTENDS RpcQueue, RollbufPool, RpcCrypt, RpcWire, FiniteSetTheorems, SequenceTheorems, TLAPS

-----------------------------------------------------------------------------
(* The blocking queue (RpcQueue) *)

(* What the proof needs to know of the types *)
QueueTypes ==
  /\ bodies \in Seq(Nat) /\ npush \in Nat
  /\ getter \in [Getters -> {"idle", "asleep", "awake"}]

QueueInv == QueueTypes /\ NoBodySleptOn

(* Awake is finite, and so are the numbers of its threads. *)
LEMMA AwakeFinite ==
  /\ IsFiniteSet(Awake)
  /\ Cardinality(Awake) \in Nat
<1>1. Awake \subseteq Getters
  BY DEF Awake
<1>2. QED
  BY <1>1, GettersAssumption, FS_Subset, FS_CardinalityType

(* A sleeper that wakes up is one thread more that is awake. *)
LEMMA OneMoreAwake ==
  ASSUME QueueTypes, NEW g \in Sleepers, getter' = [getter EXCEPT ![g] = "awake"]
  PROVE  Cardinality(Awake') = Cardinality(Awake) + 1 /\ getter' \in [Getters -> {"idle", "asleep", "awake"}]
<1>1. Awake' = Awake \cup {g} /\ g \notin Awake
  BY DEF QueueTypes, Sleepers, Awake
<1>2. QED
  BY <1>1, AwakeFinite, FS_AddElement DEF QueueTypes, Sleepers

(* A thread that returns from rpc_queue_get is one thread less, if it was awake. *)
LEMMA OneLessAwake ==
  ASSUME QueueTypes, NEW g \in Getters, getter' = [getter EXCEPT ![g] = "idle"]
  PROVE  /\ getter' \in [Getters -> {"idle", "asleep", "awake"}]
         /\ getter[g] = "awake" => Cardinality(Awake') = Cardinality(Awake) - 1
         /\ getter[g] = "idle" => Awake' = Awake
         /\ Sleepers' \subseteq Sleepers
<1>1. ASSUME getter[g] = "awake" PROVE Cardinality(Awake') = Cardinality(Awake) - 1
  <2>1. Awake' = Awake \ {g} /\ g \in Awake
    BY <1>1 DEF QueueTypes, Awake
  <2>2. QED
    BY <2>1, AwakeFinite, FS_RemoveElement
<1>2. getter[g] = "idle" => Awake' = Awake
  BY DEF QueueTypes, Awake
<1>3. QED
  BY <1>1, <1>2 DEF QueueTypes, Sleepers

(* rpc_queue_init and every step keep QueueInv. *)
LEMMA QueueInitInv == QueueInit => QueueInv
<1> SUFFICES ASSUME QueueInit PROVE QueueInv
  OBVIOUS
<1>1. QueueTypes
  BY DEF QueueInit, QueueTypes
<1>2. Sleepers = {}
  BY DEF QueueInit, Sleepers
<1>3. QED
  BY <1>1, <1>2 DEF QueueInv, NoBodySleptOn

(* Every step of a putter, a getter and the end of the queue *)
LEMMA QueueStepInv == QueueInv /\ [QueueNext]_queueVars => QueueInv'
<1> SUFFICES ASSUME QueueInv, [QueueNext]_queueVars PROVE QueueInv'
  OBVIOUS
<1> USE DEF QueueInv
<1>1. CASE Push
  <2>1. bodies' \in Seq(Nat) /\ npush' \in Nat /\ Len(bodies') = Len(bodies) + 1 /\ Len(bodies) \in Nat /\ stop_sign' = stop_sign
    BY <1>1 DEF Push, QueueTypes
  <2>2. CASE Sleepers = {}
    <3>1. getter' = getter
      BY <1>1, <2>2 DEF Push, QueueSignal
    <3>2. Sleepers' = {}
      BY <2>2, <3>1 DEF Sleepers
    <3>3. QED
      BY <2>1, <3>1, <3>2 DEF QueueTypes, NoBodySleptOn
  <2>3. CASE Sleepers # {}
    <3>1. PICK g \in Sleepers : getter' = [getter EXCEPT ![g] = "awake"]
      BY <1>1, <2>3 DEF Push, QueueSignal
    <3>2. Cardinality(Awake') = Cardinality(Awake) + 1 /\ getter' \in [Getters -> {"idle", "asleep", "awake"}]
      BY <3>1, OneMoreAwake
    <3>3. QED
      BY <2>1, <2>3, <3>2, AwakeFinite DEF QueueTypes, NoBodySleptOn
  <2>4. QED
    BY <2>2, <2>3
<1>2. CASE QueueStop
  <2>1. getter' \in [Getters -> {"idle", "asleep", "awake"}]
    BY <1>2, OneMoreAwake DEF QueueStop, QueueSignal, QueueTypes
  <2>2. QED
    BY <1>2, <2>1 DEF QueueStop, QueueTypes, NoBodySleptOn
<1>3. CASE QueueDestroy
  BY <1>3 DEF QueueDestroy, QueueTypes, NoBodySleptOn
<1>4. ASSUME NEW g \in Getters, Get(g) PROVE QueueInv'
  <2>1. getter[g] = "idle" /\ UNCHANGED <<npush, stop_sign>>
    BY <1>4 DEF Get
  <2>2. PICK m \in Modes[g] : GetBody(g, m) \/ GetEmpty(g, m) \/ GetInvalidTime(g, m) \/ GetBlock(g, m)
    BY <1>4 DEF Get
  <2>3. CASE GetBody(g, m)
    <3>1. bodies # <<>> /\ bodies' = Tail(bodies) /\ getter' = [getter EXCEPT ![g] = "idle"]
      BY <2>3 DEF GetBody, Take
    <3>2. bodies' \in Seq(Nat) /\ Len(bodies') = Len(bodies) - 1 /\ Len(bodies) \in Nat
      BY <3>1 DEF QueueTypes
    <3>3. Awake' = Awake /\ Sleepers' \subseteq Sleepers /\ QueueTypes'
      BY <2>1, <3>1, <3>2, OneLessAwake DEF QueueTypes
    <3>4. QED
      BY <2>1, <3>2, <3>3, AwakeFinite DEF NoBodySleptOn
  <2>4. CASE GetEmpty(g, m) \/ GetInvalidTime(g, m)
    <3>1. bodies' = bodies /\ getter' = [getter EXCEPT ![g] = "idle"]
      BY <2>4 DEF GetEmpty, GetInvalidTime, Return
    <3>2. Awake' = Awake /\ Sleepers' \subseteq Sleepers /\ QueueTypes'
      BY <2>1, <3>1, OneLessAwake DEF QueueTypes
    <3>3. QED
      BY <2>1, <3>1, <3>2, AwakeFinite DEF NoBodySleptOn
  <2>5. CASE GetBlock(g, m)
    <3>1. bodies' = <<>> /\ getter' = [getter EXCEPT ![g] = "asleep"]
      BY <2>5 DEF GetBlock
    <3>2. QueueTypes' /\ Len(bodies') = 0
      BY <2>1, <3>1 DEF QueueTypes
    <3>3. Cardinality(Awake') \in Nat
      <4>1. Awake' \subseteq Awake
        BY <3>1 DEF QueueTypes, Awake
      <4>2. QED
        BY <4>1, AwakeFinite, FS_Subset, FS_CardinalityType
    <3>4. QED
      BY <3>2, <3>3 DEF NoBodySleptOn
  <2>6. QED
    BY <2>2, <2>3, <2>4, <2>5
<1>5. ASSUME NEW g \in Getters, Resume(g) PROVE QueueInv'
  <2>1. getter[g] = "awake" /\ UNCHANGED <<npush, stop_sign>> /\ getter' = [getter EXCEPT ![g] = "idle"]
    BY <1>5 DEF Resume, Return, Take
  <2>2. Cardinality(Awake') = Cardinality(Awake) - 1 /\ Sleepers' \subseteq Sleepers
    BY <2>1, OneLessAwake
  <2>3. CASE bodies' = bodies
    <3>1. stop_sign \/ bodies = <<>>
      BY <1>5, <2>3 DEF Resume, Take, QueueTypes
    <3>2. QueueTypes'
      BY <2>1, <2>3, OneLessAwake DEF QueueTypes
    <3>3. Cardinality(Awake') \in Nat
      <4>1. Awake' \subseteq Awake
        BY <2>1 DEF QueueTypes, Awake
      <4>2. QED
        BY <4>1, AwakeFinite, FS_Subset, FS_CardinalityType
    <3>4. QED
      BY <2>1, <2>3, <3>1, <3>2, <3>3 DEF NoBodySleptOn
  <2>4. CASE bodies # <<>> /\ bodies' = Tail(bodies)
    <3>1. bodies' \in Seq(Nat) /\ Len(bodies') = Len(bodies) - 1 /\ Len(bodies) \in Nat
      BY <2>4 DEF QueueTypes
    <3>2. QueueTypes'
      BY <2>1, <3>1, OneLessAwake DEF QueueTypes
    <3>3. QED
      BY <2>1, <2>2, <3>1, <3>2, AwakeFinite DEF NoBodySleptOn
  <2>5. QED
    BY <1>5, <2>3, <2>4 DEF Resume, Return, Take
<1>6. ASSUME NEW g \in Getters, NEW c \in {"timeout", "spurious"}, EndWait(g, c) PROVE QueueInv'
  <2>1. g \in Sleepers /\ getter' = [getter EXCEPT ![g] = "awake"] /\ UNCHANGED <<bodies, npush, stop_sign>>
    BY <1>6 DEF EndWait, Sleepers
  <2>2. Cardinality(Awake') = Cardinality(Awake) + 1 /\ QueueTypes'
    BY <2>1, OneMoreAwake DEF QueueTypes
  <2>3. Len(bodies) \in Nat /\ Sleepers # {}
    BY <2>1 DEF QueueTypes
  <2>4. QED
    BY <2>1, <2>2, <2>3, AwakeFinite DEF NoBodySleptOn
<1>7. CASE UNCHANGED queueVars
  BY <1>7 DEF queueVars, QueueTypes, NoBodySleptOn, Sleepers, Awake
<1>8. QED
  BY <1>1, <1>2, <1>3, <1>4, <1>5, <1>6, <1>7 DEF QueueNext

(***************************************************************************)
(* For every finite set of getters, whatever timeouts they pass, and every *)
(* number of pushes: while one of them sleeps, the bodies in the queue are *)
(* at most as many as the getters that are awake.                          *)
(***************************************************************************)
THEOREM NoBodyIsSleptOn == QueueSpec => []NoBodySleptOn
<1>1. QueueInv => NoBodySleptOn
  BY DEF QueueInv
<1>2. QED
  BY <1>1, QueueInitInv, QueueStepInv, PTL DEF QueueSpec

-----------------------------------------------------------------------------
(* The byte pool (RollbufPool) *)

PoolTypes ==
  /\ mem \in [1..PoolSize -> Nat] /\ filled \in Nat /\ filled <= PoolSize
  /\ push \in [at : {"idle", "room", "lock", "copy", "count"}, n : Nat, waits : Nat]
  /\ get \in [at : {"idle", "test", "wait", "sleep", "awake", "move"}, n : Nat]
  /\ pushed \in Nat /\ fetched \in Seq(Nat)

(* Who is in a critical section: a thread that holds the lock, or a get     *)
(* whose lock a push on the stopped pool gave away; no push comes after it. *)
PoolLocks ==
  /\ push.at \in {"copy", "count"} => owner = "push"
  /\ get.at \in {"test", "wait", "move"} => owner = "get" \/ (stop_signal /\ push.at = "idle")

(* What is in the pool, byte for byte: the bytes after those that were got, *)
(* behind a gap while a get has taken bytes and not yet moved the others,   *)
(* and behind them what a push has copied and not yet counted.              *)
Gap == IF get.at = "move" THEN get.n ELSE 0

PoolBytes ==
  /\ Len(fetched) + filled = pushed
  /\ \A i \in 1..Len(fetched) : fetched[i] = i
  /\ filled + Gap <= PoolSize
  /\ \A i \in 1..filled : mem[i + Gap] = Len(fetched) + i
  /\ push.at \in {"lock", "copy", "count"} => filled + push.n <= PoolSize
  /\ push.at = "count" => \A i \in 1..push.n : mem[filled + i] = pushed + i

(***************************************************************************)
(* The invariant BytesKept needs.                                          *)
(***************************************************************************)
PoolInv == PoolTypes /\ PoolLocks /\ PoolBytes

(* The first n bytes of the memory *)
LEMMA TakenFacts ==
  ASSUME PoolTypes, NEW n \in 0..PoolSize
  PROVE  /\ Taken(n) \in Seq(Nat) /\ Len(Taken(n)) = n
         /\ \A i \in 1..n : Taken(n)[i] = mem[i]
BY PoolAssumption DEF Taken, PoolTypes

(* Bytes that go on where the sequence ends *)
LEMMA AppendBytes ==
  ASSUME NEW s \in Seq(Nat), NEW r \in Seq(Nat),
         \A i \in 1..Len(s) : s[i] = i, \A i \in 1..Len(r) : r[i] = Len(s) + i
  PROVE  /\ s \o r \in Seq(Nat) /\ Len(s \o r) = Len(s) + Len(r)
         /\ \A i \in 1..Len(s \o r) : (s \o r)[i] = i
<1>1. s \o r \in Seq(Nat) /\ Len(s \o r) = Len(s) + Len(r)
  BY ConcatProperties
<1>2. ASSUME NEW i \in 1..Len(s \o r) PROVE (s \o r)[i] = i
  <2>1. (s \o r)[i] = IF i <= Len(s) THEN s[i] ELSE r[i - Len(s)]
    BY <1>1, ConcatProperties
  <2>2. CASE i <= Len(s)
    BY <2>1, <2>2
  <2>3. CASE i > Len(s)
    <3>1. i - Len(s) \in 1..Len(r)
      BY <1>1, <2>3
    <3>2. QED
      BY <2>1, <2>3, <3>1
  <2>4. QED
    BY <2>2, <2>3
<1>3. QED
  BY <1>1, <1>2

(* The pool is empty. *)
LEMMA PoolInitInv == RollbufInit => PoolInv
BY PoolAssumption DEF RollbufInit, PoolInv, PoolTypes, PoolLocks, PoolBytes, Gap, Free, Nobody

(* Without a gap *)
LEMMA NoGap ==
  ASSUME PoolInv, get.at # "move"
  PROVE  Len(fetched) \in Nat /\ \A i \in 1..filled : i \in 1..PoolSize /\ mem[i] = Len(fetched) + i
<1>1. Gap = 0 /\ Len(fetched) \in Nat /\ filled \in Nat /\ filled <= PoolSize
  BY DEF Gap, PoolInv, PoolTypes
<1>2. ASSUME NEW i \in 1..filled PROVE i \in 1..PoolSize /\ mem[i] = Len(fetched) + i
  <2>1. i + Gap = i /\ mem[i + Gap] = Len(fetched) + i
    BY <1>1 DEF PoolInv, PoolBytes
  <2>2. QED
    BY <1>1, <2>1, PoolAssumption
<1>3. QED
  BY <1>1, <1>2

(* The bytes a get takes are the next ones. *)
LEMMA TakeBytes ==
  ASSUME PoolInv, get.at # "move", NEW n \in 0..filled
  PROVE  /\ fetched \o Taken(n) \in Seq(Nat) /\ Len(fetched \o Taken(n)) = Len(fetched) + n
         /\ \A i \in 1..Len(fetched \o Taken(n)) : (fetched \o Taken(n))[i] = i
<1>1. n \in 0..PoolSize /\ PoolTypes /\ fetched \in Seq(Nat)
  BY PoolAssumption DEF PoolInv, PoolTypes
<1>2. Taken(n) \in Seq(Nat) /\ Len(Taken(n)) = n /\ \A i \in 1..n : Taken(n)[i] = mem[i]
  BY <1>1, TakenFacts
<1>3. \A i \in 1..n : i \in 1..filled
  BY <1>1 DEF PoolTypes
<1>4. \A i \in 1..n : Taken(n)[i] = Len(fetched) + i
  BY <1>2, <1>3, NoGap
<1>5. \A i \in 1..Len(fetched) : fetched[i] = i
  BY DEF PoolInv, PoolBytes
<1>6. QED
  BY <1>1, <1>2, <1>4, <1>5, AppendBytes

(* Every step of rollbuf_pool_push, rollbuf_pool_get and the end of the pool *)
LEMMA PoolStepInv == PoolInv /\ [RollbufNext]_rollbufVars => PoolInv'
<1> SUFFICES ASSUME PoolInv, [RollbufNext]_rollbufVars PROVE PoolInv'
  OBVIOUS
<1> USE PoolAssumption DEF PoolInv
<1>1. ASSUME NEW n \in Sizes, PushBegin(n) PROVE PoolInv'
  <2>1. push.at = "idle" /\ UNCHANGED <<mem, filled, stop_signal, get, pushed, fetched>>
    BY <1>1 DEF PushBegin
  <2>2. (stop_signal /\ push' = push) \/ (push' = [at |-> "room", n |-> n, waits |-> 0] /\ owner' = owner /\ ~stop_signal)
    BY <1>1 DEF PushBegin
  <2>3. push' \in [at : {"idle", "room"}, n : Nat, waits : Nat]
    BY <2>1, <2>2 DEF PoolTypes, Sizes
  <2>4. PoolTypes' /\ PoolLocks'
    BY <2>1, <2>2, <2>3 DEF PoolTypes, PoolLocks
  <2>5. PoolBytes'
    BY <2>1, <2>3 DEF PoolBytes, Gap
  <2>6. QED
    BY <2>4, <2>5
<1>2. ASSUME NEW n \in Sizes, GetBegin(n) PROVE PoolInv'
  <2>1. /\ get.at = "idle" /\ owner = Nobody /\ owner' = "get" /\ get' = [at |-> "test", n |-> n]
        /\ UNCHANGED <<mem, filled, stop_signal, push, pushed, fetched>>
    BY <1>2 DEF GetBegin
  <2>2. PoolTypes' /\ PoolLocks'
    BY <2>1 DEF PoolTypes, PoolLocks, Sizes, Nobody
  <2>3. Gap = 0 /\ Gap' = 0
    BY <2>1 DEF Gap
  <2>4. PoolBytes'
    BY <2>1, <2>3 DEF PoolBytes
  <2>5. QED
    BY <2>2, <2>4
<1>3. CASE PushRoom
  <2>1. push.at = "room" /\ UNCHANGED <<mem, filled, owner, stop_signal, get, pushed, fetched>>
    BY <1>3 DEF PushRoom
  <2>2. /\ push' \in [at : {"idle", "room", "lock"}, n : Nat, waits : Nat] /\ push'.n = push.n
        /\ push'.at = "lock" => filled + push.n < PoolSize
    BY <1>3, SMTT(20) DEF PushRoom, PoolTypes
  <2>3. PoolTypes' /\ PoolLocks'
    BY <2>1, <2>2 DEF PoolTypes, PoolLocks
  <2>4. PoolBytes'
    BY <2>1, <2>2 DEF PoolBytes, PoolTypes, Gap
  <2>5. QED
    BY <2>3, <2>4
<1>4. CASE PushLock
  BY <1>4 DEF PushLock, PoolTypes, PoolLocks, PoolBytes, Gap, Nobody
<1>5. CASE PushCopy
  <2>1. get.at # "move" /\ UNCHANGED <<filled, owner, get, pushed, fetched, stop_signal>> /\ push.at = "copy" /\ push' = [push EXCEPT !.at = "count"]
    BY <1>5 DEF PushCopy, PoolLocks
  <2>2. mem' \in [1..PoolSize -> Nat]
    BY <1>5 DEF PushCopy, PoolTypes
  <2>3. PoolTypes' /\ PoolLocks'
    BY <2>1, <2>2 DEF PoolTypes, PoolLocks
  <2>4. \A i \in 1..filled : mem'[i] = mem[i]
    BY <1>5 DEF PushCopy, PoolTypes
  <2>5. \A i \in 1..push.n : mem'[filled + i] = pushed + i
    BY <1>5 DEF PushCopy, PoolTypes, PoolBytes
  <2>6. push'.n = push.n /\ push'.at = "count"
    BY <2>1 DEF PoolTypes
  <2>7. PoolBytes'
    BY <2>1, <2>4, <2>5, <2>6 DEF PoolBytes, Gap, PoolTypes
  <2>8. QED
    BY <2>3, <2>7
<1>6. CASE PushCount
  <2>1. /\ push.at = "count" /\ get.at \notin {"test", "wait", "move"}
        /\ filled' = filled + push.n /\ pushed' = pushed + push.n /\ UNCHANGED <<mem, fetched, stop_signal>>
        /\ get' \in [at : {"idle", "sleep", "awake"}, n : Nat] /\ push' = [push EXCEPT !.at = "idle"] /\ owner' = Nobody
    BY <1>6 DEF PushCount, Woken, PoolLocks, PoolTypes
  <2>2. PoolTypes' /\ PoolLocks'
    <3>1. filled' \in Nat /\ filled' <= PoolSize /\ pushed' \in Nat
      BY <2>1 DEF PoolTypes, PoolBytes
    <3>2. push' \in [at : {"idle"}, n : Nat, waits : Nat]
      BY <2>1 DEF PoolTypes
    <3>3. QED
      BY <2>1, <3>1, <3>2 DEF PoolTypes, PoolLocks
  <2>3. ASSUME NEW i \in 1..filled' PROVE mem'[i] = Len(fetched) + i
    <3>1. CASE i <= filled
      <4>1. i \in 1..filled
        BY <3>1 DEF PoolTypes
      <4>2. QED
        BY <2>1, <4>1, NoGap
    <3>2. CASE i > filled
      <4>1. i - filled \in 1..push.n /\ filled + (i - filled) = i
        BY <2>1, <3>2 DEF PoolTypes
      <4>2. mem[filled + (i - filled)] = pushed + (i - filled)
        BY <2>1, <4>1 DEF PoolBytes
      <4>3. pushed = Len(fetched) + filled /\ Len(fetched) \in Nat /\ filled \in Nat
        BY DEF PoolBytes, PoolTypes
      <4>4. QED
        BY <2>1, <4>1, <4>2, <4>3
    <3>3. QED
      BY <3>1, <3>2 DEF PoolTypes
  <2>4. Gap' = 0 /\ Len(fetched) \in Nat
    BY <2>1 DEF Gap, PoolTypes
  <2>5. PoolBytes'
    BY <2>1, <2>3, <2>4 DEF PoolBytes, PoolTypes
  <2>6. QED
    BY <2>2, <2>5
<1>7. CASE GetStopped
  BY <1>7 DEF GetStopped, GetReturns, PoolTypes, PoolLocks, PoolBytes, Gap, Nobody
<1>8. CASE GetRest
  <2>1. /\ get.at = "test" /\ push.at \notin {"copy", "count"}
        /\ fetched' = fetched \o Taken(filled) /\ filled' = 0 /\ get' = [get EXCEPT !.at = "idle"]
        /\ UNCHANGED <<mem, push, pushed, stop_signal>>
    BY <1>8 DEF GetRest, GetReturns, PoolLocks
  <2>2. Gap = 0 /\ Gap' = 0
    BY <2>1 DEF Gap, PoolTypes
  <2>3. filled \in 0..filled
    BY DEF PoolTypes
  <2>4. /\ fetched' \in Seq(Nat) /\ Len(fetched') = pushed
        /\ \A i \in 1..Len(fetched') : fetched'[i] = i
    BY <2>1, <2>3, TakeBytes DEF PoolBytes
  <2>5. PoolTypes' /\ PoolLocks'
    <3>1. get' \in [at : {"idle"}, n : Nat]
      BY <2>1 DEF PoolTypes
    <3>2. QED
      BY <2>1, <2>4, <3>1 DEF PoolTypes, PoolLocks
  <2>6. PoolBytes'
    BY <2>1, <2>2, <2>4 DEF PoolBytes, PoolTypes
  <2>7. QED
    BY <2>5, <2>6
<1>9. CASE GetWait \/ GetSleep
  BY <1>9 DEF GetWait, GetSleep, PoolTypes, PoolLocks, PoolBytes, Gap, Nobody
<1>10. CASE GetWake
  BY <1>10 DEF GetWake, PoolTypes, PoolLocks, PoolBytes, Gap, Nobody
<1>11. CASE GetTake
  <2>1. /\ get.at = "test" /\ push.at \notin {"copy", "count"} /\ get.n <= filled
        /\ fetched' = fetched \o Taken(get.n) /\ filled' = filled - get.n /\ get' = [get EXCEPT !.at = "move"]
        /\ UNCHANGED <<mem, push, pushed, stop_signal, owner>>
    BY <1>11 DEF GetTake, PoolLocks
  <2>2. Gap = 0 /\ Gap' = get.n /\ get.n \in Nat
    BY <2>1 DEF Gap, PoolTypes
  <2>3. get.n \in 0..filled
    BY <2>1, <2>2 DEF PoolTypes
  <2>4. /\ fetched' \in Seq(Nat) /\ Len(fetched') = Len(fetched) + get.n /\ Len(fetched) \in Nat
        /\ \A i \in 1..Len(fetched') : fetched'[i] = i
    BY <2>1, <2>3, TakeBytes, SMTT(20) DEF PoolTypes
  <2>5. PoolTypes' /\ PoolLocks'
    <3>1. get' \in [at : {"move"}, n : Nat] /\ filled' \in Nat /\ filled' <= PoolSize
      BY <2>1, <2>2 DEF PoolTypes
    <3>2. QED
      BY <2>1, <2>4, <3>1 DEF PoolTypes, PoolLocks
  <2>6. ASSUME NEW i \in 1..filled' PROVE mem[i + get.n] = Len(fetched') + i
    <3>1. i + get.n \in 1..filled
      BY <2>1, <2>2 DEF PoolTypes
    <3>2. mem[i + get.n] = Len(fetched) + (i + get.n)
      BY <2>1, <3>1, NoGap
    <3>3. QED
      BY <2>2, <2>4, <3>2
  <2>7. filled \in Nat /\ Len(fetched) + filled = pushed /\ filled <= PoolSize
          /\ (push.at \in {"lock", "copy", "count"} => filled + push.n <= PoolSize) /\ push.n \in Nat
    BY DEF PoolBytes, PoolTypes
  <2>8. Len(fetched') + filled' = pushed' /\ filled' + Gap' <= PoolSize
    <3>1. filled' = filled - get.n /\ pushed' = pushed
      BY <2>1
    <3>2. filled \in Nat /\ Len(fetched) + filled = pushed /\ filled <= PoolSize
      BY <2>7
    <3>3. Len(fetched') = Len(fetched) + get.n /\ Len(fetched) \in Nat
      BY <2>4
    <3>4. QED
      BY <2>2, <3>1, <3>2, <3>3
  <2>9. \A i \in 1..filled' : mem'[i + Gap'] = Len(fetched') + i
    BY <2>1, <2>2, <2>6
  <2>10. push'.at \in {"lock", "copy", "count"} => filled' + push'.n <= PoolSize
    BY <2>1, <2>2, <2>7
  <2>11. push'.at # "count"
    BY <2>1
  <2>12. PoolBytes'
    BY <2>4, <2>8, <2>9, <2>10, <2>11 DEF PoolBytes
  <2>13. QED
    BY <2>5, <2>12
<1>12. CASE GetMove
  <2>1. /\ get.at = "move" /\ push.at \notin {"copy", "count"} /\ get' = [get EXCEPT !.at = "idle"]
        /\ UNCHANGED <<filled, push, pushed, fetched, stop_signal>>
    BY <1>12 DEF GetMove, GetReturns, PoolLocks
  <2>2. Gap = get.n /\ Gap' = 0 /\ get.n \in Nat
    BY <2>1 DEF Gap, PoolTypes
  <2>3. mem' = [i \in 1..PoolSize |-> IF i <= filled THEN mem[i + get.n] ELSE mem[i]]
    BY <1>12 DEF GetMove
  <2>4. mem' \in [1..PoolSize -> Nat] /\ \A i \in 1..filled : mem'[i] = Len(fetched) + i
    <3>1. filled + get.n <= PoolSize /\ filled \in Nat /\ \A i \in 1..filled : mem[i + get.n] = Len(fetched) + i
      BY <2>2 DEF PoolBytes, PoolTypes
    <3>2. \A i \in 1..filled : i \in 1..PoolSize /\ i + get.n \in 1..PoolSize
      BY <2>2, <3>1
    <3>3. \A i \in 1..PoolSize : i <= filled => i \in 1..filled
      BY <3>1
    <3>4. \A i \in 1..filled : mem'[i] = Len(fetched) + i
      <4>1. \A i \in 1..filled : mem'[i] = mem[i + get.n]
        BY <2>3, <3>1, <3>2
      <4>2. QED
        BY <3>1, <4>1
    <3>5. ASSUME NEW i \in 1..PoolSize PROVE mem'[i] \in Nat
      BY <2>3, <3>2, <3>3 DEF PoolTypes
    <3>6. mem' \in [1..PoolSize -> Nat]
      BY <2>3, <3>5
    <3>7. QED
      BY <3>4, <3>6
  <2>5. PoolTypes' /\ PoolLocks'
    BY <2>1, <2>4 DEF PoolTypes, PoolLocks
  <2>6. PoolBytes'
    BY <2>1, <2>2, <2>4 DEF PoolBytes, PoolTypes
  <2>7. QED
    BY <2>5, <2>6
<1>13. CASE RollbufFinish \/ RollbufStop
  <2>1. UNCHANGED <<mem, filled, owner, push, pushed, fetched>> /\ (stop_signal => stop_signal') /\ get' = Woken
    BY <1>13 DEF RollbufFinish, RollbufStop, RollbufSignal
  <2>2. get' \in [at : {"idle", "test", "wait", "sleep", "awake", "move"}, n : Nat] /\ get'.n = get.n
          /\ (get.at \in {"test", "wait", "move"} \/ get'.at \in {"test", "wait", "move"} => get'.at = get.at)
    BY <2>1 DEF Woken, PoolTypes
  <2>3. PoolTypes' /\ PoolLocks'
    BY <2>1, <2>2 DEF PoolTypes, PoolLocks
  <2>4. Gap' = Gap
    BY <2>2 DEF Gap
  <2>5. PoolBytes'
    BY <2>1, <2>4 DEF PoolBytes
  <2>6. QED
    BY <2>3, <2>5
<1>14. CASE RollbufDestroy \/ UNCHANGED rollbufVars
  BY <1>14 DEF RollbufDestroy, rollbufVars, PoolTypes, PoolLocks, PoolBytes, Gap
<1>15. QED
  BY <1>1, <1>2, <1>3, <1>4, <1>5, <1>6, <1>7, <1>8, <1>9, <1>10, <1>11, <1>12, <1>13, <1>14
  DEF RollbufNext, PushStep, GetStep

(***************************************************************************)
(* For every size of the pool, every number of bytes and every limit of a  *)
(* push's patience: the bytes come out as they went in, and none is ever   *)
(* written behind the pool.                                                *)
(***************************************************************************)
THEOREM BytesAreKept == RollbufSpec => []BytesKept
<1>1. ASSUME PoolInv PROVE BytesKept
  <2> USE <1>1, PoolAssumption DEF PoolInv
  <2>1. filled <= PoolSize
    BY DEF PoolTypes
  <2>2. ASSUME get.at # "move" PROVE fetched \o Taken(filled) = [i \in 1..pushed |-> i]
    <3> DEFINE all == [i \in 1..pushed |-> i]
    <3>1. filled \in 0..filled
      BY DEF PoolTypes
    <3>2. /\ fetched \o Taken(filled) \in Seq(Nat) /\ Len(fetched \o Taken(filled)) = pushed
          /\ \A i \in 1..pushed : (fetched \o Taken(filled))[i] = i
      BY <2>2, <3>1, TakeBytes DEF PoolBytes
    <3>3. all \in Seq(Nat) /\ Len(all) = pushed
      BY DEF PoolTypes
    <3>4. QED
      BY <3>2, <3>3, SeqEqual DEF PoolTypes
  <2>3. QED
    BY <2>1, <2>2 DEF BytesKept
<1>2. QED
  BY <1>1, PoolInitInv, PoolStepInv, PTL DEF RollbufSpec

-----------------------------------------------------------------------------
(* Encrypted bodies (RpcCrypt) *)

(* The length of an AES text: whole blocks, at least one byte more than was *)
(* given, and a block more when blocks were given.                          *)
LEMMA AesLength ==
  ASSUME NEW n \in Nat
  PROVE  /\ aes_len(n) \in Nat /\ n < aes_len(n) /\ aes_len(n) <= n + 16 /\ aes_len(n) % 16 = 0
         /\ n % 16 = 0 => aes_len(n) = n + 16
BY DEF aes_len, AesBlock

(* The block of a byte is in the text that has it. *)
LEMMA BlockInside ==
  ASSUME NEW n \in Nat, n % 16 = 0, NEW i \in 1..n
  PROVE  Block(i) \subseteq 1..n
<1>1. (i - 1) \div 16 \in Nat /\ ((i - 1) \div 16 + 1) * 16 <= n
  OBVIOUS
<1>2. QED
  BY <1>1 DEF Block, AesBlock

(* The length of a TEA text: a number of blocks, at least two *)
LEMMA TeaLength ==
  ASSUME NEW n \in Nat \ {0}
  PROVE  /\ tea_pad(n) \in 0..7 /\ (n + 10 + tea_pad(n)) % 8 = 0
         /\ n + 10 + tea_pad(n) >= 16
BY DEF tea_pad

Code == Int      \* a byte, by its number
Buffers == [chunk : Seq(Code), used : Nat]

(* The used bytes of a buffer *)
LEMMA UsedFacts ==
  ASSUME NEW b \in Buffers, b.used <= Len(b.chunk)
  PROVE  /\ Used(b) \in Seq(Code) /\ Len(Used(b)) = b.used
         /\ \A i \in 1..b.used : Used(b)[i] = b.chunk[i]
<1>1. b.chunk \in Seq(Code) /\ b.used \in Nat /\ Len(b.chunk) \in Nat
  BY DEF Buffers
<1>2. \A i \in 1..b.used : b.chunk[i] \in Code
  BY <1>1
<1>3. /\ Used(b) \in Seq(Code) /\ Len(Used(b)) = IF 1 <= b.used THEN b.used - 1 + 1 ELSE 0
      /\ \A i \in 1..b.used - 1 + 1 : Used(b)[i] = b.chunk[1 + i - 1]
  BY <1>1, <1>2, SubSeqProperties DEF Used
<1>4. b.used - 1 + 1 = b.used /\ \A i \in 1..b.used : 1 + i - 1 = i
  BY <1>1
<1>5. QED
  BY <1>1, <1>3, <1>4

(* n times the same byte *)
LEMMA FillFacts ==
  ASSUME NEW b \in Code, NEW n \in Nat
  PROVE  Fill(b, n) \in Seq(Code) /\ Len(Fill(b, n)) = n /\ \A i \in 1..n : Fill(b, n)[i] = b
<1>1. Fill(b, n) \in [1..n -> Code]
  BY DEF Fill
<1>2. Fill(b, n) \in Seq(Code) /\ Len(Fill(b, n)) = n
  BY <1>1, LenProperties
<1>3. QED
  BY <1>2 DEF Fill

(* What a buffer grows by *)
LEMMA JunkFacts ==
  Fill(Junk, 64) \in Seq(Code) /\ Len(Fill(Junk, 64)) = 64 /\ \A i \in 1..64 : Fill(Junk, 64)[i] = Junk
<1>1. Junk \in Code /\ 64 \in Nat
  BY DEF Junk, Code
<1>2. QED
  BY <1>1, FillFacts

(* A new buffer has room behind its bytes. *)
LEMMA NewFacts ==
  ASSUME NEW bytes \in Seq(Code)
  PROVE  LET b == rpc_buffer_new(bytes)
         IN  /\ b \in Buffers /\ b.used = Len(bytes) /\ Len(b.chunk) = Len(bytes) + 65
             /\ \A i \in 1..Len(bytes) : b.chunk[i] = bytes[i]
             /\ \A i \in 1..Len(b.chunk) : i > Len(bytes) => b.chunk[i] >= Junk
<1> DEFINE b == rpc_buffer_new(bytes)
           junk == Fill(Junk, 64)
           z == bytes \o <<0>>
           c == z \o junk
<1>0. Len(bytes) \in Nat
  OBVIOUS
<1>1. junk \in Seq(Code) /\ Len(junk) = 64 /\ \A i \in 1..64 : junk[i] = Junk
  BY JunkFacts
<1>2. b = [chunk |-> c, used |-> Len(bytes)]
  BY DEF rpc_buffer_new, GrowSize
<1> HIDE DEF junk
<1>3. /\ z \in Seq(Code) /\ Len(z) = Len(bytes) + 1 /\ z[Len(bytes) + 1] = 0
      /\ \A i \in 1..Len(bytes) : z[i] = bytes[i]
  <2>1. z = Append(bytes, 0) /\ 0 \in Code
    BY DEF Code
  <2> HIDE DEF z
  <2>2. QED
    BY <1>0, <2>1
<1> HIDE DEF z
<1>a. z \in Seq(Code) /\ junk \in Seq(Code)
  BY <1>1, <1>3
<1>b. Len(z) = Len(bytes) + 1 /\ Len(junk) = 64 /\ Len(bytes) \in Nat
  BY <1>0, <1>1, <1>3
<1>c. /\ c \in Seq(Code) /\ Len(c) = Len(z) + Len(junk)
      /\ \A i \in 1..Len(z) + Len(junk) : c[i] = IF i <= Len(z) THEN z[i] ELSE junk[i - Len(z)]
  BY <1>a, ConcatProperties
<1> HIDE DEF c
<1>4. Len(c) = Len(bytes) + 65
  BY <1>b, <1>c
<1>5. \A i \in 1..Len(bytes) + 65 : c[i] = IF i <= Len(bytes) + 1 THEN z[i] ELSE junk[i - (Len(bytes) + 1)]
  <2>1. Len(z) + Len(junk) = Len(bytes) + 65
    BY <1>b
  <2>2. QED
    BY <1>b, <1>c, <2>1
<1>6. ASSUME NEW i \in 1..Len(bytes) PROVE c[i] = bytes[i]
  <2>1. i \in 1..Len(bytes) + 65 /\ i <= Len(bytes) + 1
    BY <1>0
  <2>2. c[i] = z[i]
    BY <1>5, <2>1
  <2>3. QED
    BY <1>3, <2>2
<1>7. ASSUME NEW i \in 1..Len(c), i > Len(bytes) PROVE c[i] >= Junk
  <2>1. i \in 1..Len(bytes) + 65
    BY <1>4
  <2>2. CASE i <= Len(bytes) + 1
    <3>1. i = Len(bytes) + 1
      BY <1>0, <1>7, <2>1, <2>2
    <3>2. c[i] = 0
      BY <1>3, <1>5, <2>1, <2>2, <3>1
    <3>3. QED
      BY <3>2 DEF Junk
  <2>3. CASE ~(i <= Len(bytes) + 1)
    <3>0. \A n \in Nat : \A j \in 1..n + 65 : ~(j <= n + 1) => j - (n + 1) \in 1..64
      OBVIOUS
    <3>1. i - (Len(bytes) + 1) \in 1..64
      BY <1>0, <2>1, <2>3, <3>0
    <3>2. c[i] = junk[i - (Len(bytes) + 1)]
      BY <1>5, <2>1, <2>3
    <3>3. c[i] = Junk
      BY <1>1, <3>1, <3>2
    <3>4. QED
      BY <3>3 DEF Junk
  <2>4. QED
    BY <2>2, <2>3
<1>8. b \in Buffers /\ b.used = Len(bytes) /\ b.chunk = c
  BY <1>0, <1>2, <1>c DEF Buffers
<1> HIDE DEF b
<1>9. QED
  BY <1>4, <1>6, <1>7, <1>8 DEF b

(* memcpy into a buffer that has room *)
LEMMA PutFacts ==
  ASSUME NEW b \in Buffers, NEW bytes \in Seq(Code), NEW at \in Nat, at + Len(bytes) <= Len(b.chunk)
  PROVE  LET c == Put(b, at, bytes)
         IN  /\ c \in Buffers /\ Len(c.chunk) = Len(b.chunk) /\ c.used = b.used
             /\ \A i \in 1..Len(bytes) : c.chunk[at + i] = bytes[i]
             /\ \A i \in 1..Len(b.chunk) : i <= at => c.chunk[i] = b.chunk[i]
<1> DEFINE c == Put(b, at, bytes)
           n == Len(bytes)
           m == Len(b.chunk)
           f == [i \in 1..m |-> IF i \in at + 1..at + n THEN bytes[i - at] ELSE b.chunk[i]]
<1>1. b.chunk \in Seq(Code) /\ b.used \in Nat /\ m \in Nat /\ n \in Nat /\ at + n <= m
  BY DEF Buffers
<1>2. c = [b EXCEPT !.chunk = f]
  BY DEF Put
<1> HIDE DEF c
<1>3. ASSUME NEW i \in 1..m PROVE (IF i \in at + 1..at + n THEN bytes[i - at] ELSE b.chunk[i]) \in Code
  <2>1. i \in at + 1..at + n => i - at \in 1..n
    BY <1>1
  <2>2. QED
    BY <1>1, <2>1
<1>4. f \in [1..m -> Code]
  BY <1>3
<1>5. f \in Seq(Code) /\ Len(f) = m
  BY <1>1, <1>4, LenProperties
<1>6. ASSUME NEW i \in 1..n PROVE f[at + i] = bytes[i]
  <2>1. at + i \in 1..m /\ at + i \in at + 1..at + n /\ (at + i) - at = i
    BY <1>1
  <2>2. QED
    BY <2>1
<1>7. ASSUME NEW i \in 1..m, i <= at PROVE f[i] = b.chunk[i]
  <2>1. i \notin at + 1..at + n
    BY <1>1, <1>7
  <2>2. QED
    BY <2>1
<1> HIDE DEF f
<1>8. c \in Buffers /\ c.chunk = f /\ c.used = b.used
  BY <1>2, <1>5 DEF Buffers
<1>9. QED
  BY <1>5, <1>6, <1>7, <1>8 DEF c

(* Reading bytes that are there *)
LEMMA ReadFacts ==
  ASSUME NEW b \in Buffers, NEW at \in Nat, NEW n \in Nat, at + n <= Len(b.chunk)
  PROVE  /\ Read(b, at, n) \in Seq(Code) /\ Len(Read(b, at, n)) = n
         /\ \A i \in 1..n : Read(b, at, n)[i] = b.chunk[at + i]
<1> DEFINE f == Read(b, at, n)
<1>1. b.chunk \in Seq(Code) /\ Len(b.chunk) \in Nat
  BY DEF Buffers
<1>2. ASSUME NEW i \in 1..n PROVE at + i <= Len(b.chunk) /\ at + i \in 1..Len(b.chunk)
  BY <1>1
<1>3. f = [i \in 1..n |-> b.chunk[at + i]]
  BY <1>2 DEF Read
<1>4. \A i \in 1..n : b.chunk[at + i] \in Code
  BY <1>1, <1>2
<1>5. f \in [1..n -> Code]
  BY <1>3, <1>4
<1>6. f \in Seq(Code) /\ Len(f) = n
  BY <1>5, LenProperties
<1>7. QED
  BY <1>3, <1>6

(* A text under AES *)
LEMMA AesText ==
  ASSUME NEW in \in Seq(Code)
  PROVE  /\ aes_encrypt(in) \in Seq(Code) /\ Len(aes_encrypt(in)) = Len(in)
         /\ \A i \in 1..Len(in) : aes_encrypt(in)[i] = 1000 + in[i]
<1> DEFINE f == aes_encrypt(in)
<1>1. Len(in) \in Nat
  OBVIOUS
<1>2. f = [i \in 1..Len(in) |-> 1000 + in[i]]
  BY DEF aes_encrypt, Aes
<1>3. \A i \in 1..Len(in) : 1000 + in[i] \in Code
  BY DEF Code
<1>4. f \in [1..Len(in) -> Code]
  BY <1>2, <1>3
<1>5. f \in Seq(Code) /\ Len(f) = Len(in)
  BY <1>1, <1>4, LenProperties
<1>6. QED
  BY <1>2, <1>5

(* A text under TEA: its header byte tells the padding, the bytes that were *)
(* given stand behind it.                                                   *)
LEMMA TeaText ==
  ASSUME NEW in \in Seq(Code), NEW n \in Nat \ {0}, Len(in) = n
  PROVE  /\ qq_encrypt(in) \in Seq(Code) /\ Len(qq_encrypt(in)) = n + 10 + tea_pad(n)
         /\ qq_encrypt(in)[1] = 2500 + tea_pad(n)
         /\ \A i \in 1..n : qq_encrypt(in)[tea_pad(n) + 3 + i] = 2000 + in[i]
<1>1. PICK pad \in 0..7 : pad = tea_pad(n)
  BY TeaLength
<1> DEFINE head == <<TeaHeader(pad)>>
           junk == Fill(Junk, pad + 2)
           zeros == Fill(0, 7)
           f == head \o junk
           g == f \o in
           text == g \o zeros
           e == [i \in 1..Len(text) |-> Tea(text[i])]
<1>2. qq_encrypt(in) = e
  BY <1>1 DEF qq_encrypt
<1>3. head \in Seq(Code) /\ Len(head) = 1 /\ head[1] = 500 + pad
  BY DEF TeaHeader, Code
<1> HIDE DEF head
<1>4. junk \in Seq(Code) /\ Len(junk) = pad + 2
  <2>1. Junk \in Code /\ pad + 2 \in Nat
    BY DEF Junk, Code
  <2>2. QED
    BY <2>1, FillFacts
<1>5. zeros \in Seq(Code) /\ Len(zeros) = 7
  <2>1. 0 \in Code /\ 7 \in Nat
    BY DEF Code
  <2>2. QED
    BY <2>1, FillFacts
<1> HIDE DEF junk, zeros
<1>6. /\ f \in Seq(Code) /\ Len(f) = Len(head) + Len(junk)
      /\ \A i \in 1..Len(head) + Len(junk) : f[i] = IF i <= Len(head) THEN head[i] ELSE junk[i - Len(head)]
  <2>1. head \in Seq(Code) /\ junk \in Seq(Code)
    BY <1>3, <1>4
  <2>2. QED
    BY <2>1, ConcatProperties
<1>7. Len(f) = pad + 3 /\ f[1] = 500 + pad
  <2>1. Len(f) = pad + 3
    BY <1>3, <1>4, <1>6
  <2>2. 1 \in 1..Len(head) + Len(junk) /\ 1 <= Len(head)
    BY <1>3, <1>4
  <2>3. f[1] = head[1]
    BY <1>6, <2>2
  <2>4. QED
    BY <1>3, <2>1, <2>3
<1> HIDE DEF f
<1>8. /\ g \in Seq(Code) /\ Len(g) = Len(f) + Len(in)
      /\ \A i \in 1..Len(f) + Len(in) : g[i] = IF i <= Len(f) THEN f[i] ELSE in[i - Len(f)]
  <2>1. f \in Seq(Code) /\ in \in Seq(Code)
    BY <1>6
  <2>2. QED
    BY <2>1, ConcatProperties
<1> HIDE DEF g
<1>9. Len(g) = n + pad + 3 /\ g[1] = 500 + pad /\ \A i \in 1..n : g[pad + 3 + i] = in[i]
  <2>1. Len(g) = n + pad + 3
    BY <1>7, <1>8
  <2>2. 1 \in 1..Len(f) + Len(in) /\ 1 <= Len(f)
    BY <1>7
  <2>3. g[1] = f[1]
    BY <1>8, <2>2
  <2>4. ASSUME NEW i \in 1..n PROVE g[pad + 3 + i] = in[i]
    <3>1. pad + 3 + i \in 1..Len(f) + Len(in) /\ ~(pad + 3 + i <= Len(f)) /\ (pad + 3 + i) - Len(f) = i
      BY <1>7
    <3>2. g[pad + 3 + i] = in[(pad + 3 + i) - Len(f)]
      BY <1>8, <3>1
    <3>3. QED
      BY <3>1, <3>2
  <2>5. QED
    BY <1>7, <2>1, <2>3, <2>4
<1>10. /\ text \in Seq(Code) /\ Len(text) = Len(g) + Len(zeros)
       /\ \A i \in 1..Len(g) + Len(zeros) : text[i] = IF i <= Len(g) THEN g[i] ELSE zeros[i - Len(g)]
  <2>1. g \in Seq(Code) /\ zeros \in Seq(Code)
    BY <1>5, <1>8
  <2>2. QED
    BY <2>1, ConcatProperties
<1> HIDE DEF text
<1>11. PICK m \in Nat : m = n + pad + 3
  OBVIOUS
<1>12. Len(text) = m + 7 /\ \A i \in 1..m : text[i] = g[i]
  <2>1. Len(g) = m /\ Len(zeros) = 7
    BY <1>5, <1>9, <1>11
  <2>2. ASSUME NEW i \in 1..m PROVE i \in 1..m + 7 /\ i <= m
    OBVIOUS
  <2>3. QED
    BY <1>10, <2>1, <2>2
<1>13. e \in Seq(Code) /\ Len(e) = m + 7 /\ \A i \in 1..m : e[i] = 2000 + text[i]
  <2>1. e = [i \in 1..m + 7 |-> 2000 + text[i]]
    BY <1>12 DEF Tea
  <2>2. \A i \in 1..m + 7 : 2000 + text[i] \in Code
    BY <1>10, <1>12 DEF Code
  <2>3. e \in [1..m + 7 -> Code] /\ m + 7 \in Nat
    BY <2>1, <2>2
  <2>4. e \in Seq(Code) /\ Len(e) = m + 7
    BY <2>3, LenProperties
  <2>5. ASSUME NEW i \in 1..m PROVE e[i] = 2000 + text[i]
    <3>1. i \in 1..m + 7
      OBVIOUS
    <3>2. QED
      BY <2>1, <3>1
  <2>6. QED
    BY <2>4, <2>5
<1> HIDE DEF e
<1>14. e[1] = 2500 + pad
  <2>1. 1 \in 1..m
    BY <1>11
  <2>2. e[1] = 2000 + g[1]
    BY <1>12, <1>13, <2>1
  <2>3. QED
    BY <1>9, <2>2
<1>15. ASSUME NEW i \in 1..n PROVE e[pad + 3 + i] = 2000 + in[i]
  <2>1. pad + 3 + i \in 1..m
    BY <1>11
  <2>2. e[pad + 3 + i] = 2000 + g[pad + 3 + i]
    BY <1>12, <1>13, <2>1
  <2>3. QED
    BY <1>9, <2>2
<1>16. m + 7 = n + 10 + pad
  BY <1>11
<1>17. QED
  BY <1>1, <1>2, <1>13, <1>14, <1>15, <1>16

(* An encrypted text that the buffer has room for is put behind the size. *)
LEMMA SealedFacts ==
  ASSUME buffer \in Buffers, NEW enc \in Seq(Code), NEW n \in Nat, Len(enc) = n,
         n + 4 <= Len(buffer.chunk), NEW r, r = Sealed(enc)
  PROVE  /\ r \in Buffers /\ r.used = n + 4 /\ Len(r.chunk) = Len(buffer.chunk)
         /\ \A i \in 1..4 : r.chunk[i] = 3000 + buffer.used
         /\ \A i \in 1..n : r.chunk[4 + i] = enc[i]
<1>1. PICK m \in Nat : m = Len(buffer.chunk)
  BY DEF Buffers
<1>2. PICK u \in Nat : u = buffer.used
  BY DEF Buffers
<1>a. PICK sc \in Code : sc = 3000 + u
  BY DEF Code
<1> DEFINE code == Fill(sc, 4)
           p == Put(buffer, 0, code)
           q == Put(p, 4, enc)
<1>3. code \in Seq(Code) /\ Len(code) = 4 /\ \A i \in 1..4 : code[i] = sc
  BY FillFacts
<1>4. r = [q EXCEPT !.used = n + 4]
  <2>1. ~(m - 4 < n)
    BY <1>1
  <2>2. QED
    BY <1>1, <1>2, <1>a, <2>1 DEF Sealed, SizeBytes, SizeCode
<1> HIDE DEF code
<1>5. /\ p \in Buffers /\ Len(p.chunk) = m
      /\ \A i \in 1..4 : p.chunk[0 + i] = code[i]
  <2>1. 0 \in Nat /\ 0 + Len(code) <= Len(buffer.chunk)
    BY <1>1, <1>3
  <2>2. /\ p \in Buffers /\ Len(p.chunk) = Len(buffer.chunk)
        /\ \A i \in 1..Len(code) : p.chunk[0 + i] = code[i]
    BY <1>3, <2>1, PutFacts
  <2>3. QED
    BY <1>1, <1>3, <2>2
<1> HIDE DEF p
<1>6. /\ q \in Buffers /\ Len(q.chunk) = m
      /\ \A i \in 1..n : q.chunk[4 + i] = enc[i]
      /\ \A i \in 1..m : i <= 4 => q.chunk[i] = p.chunk[i]
  <2>1. p \in Buffers /\ 4 \in Nat /\ 4 + Len(enc) <= Len(p.chunk)
    BY <1>1, <1>5
  <2>2. /\ q \in Buffers /\ Len(q.chunk) = Len(p.chunk)
        /\ \A i \in 1..Len(enc) : q.chunk[4 + i] = enc[i]
        /\ \A i \in 1..Len(p.chunk) : i <= 4 => q.chunk[i] = p.chunk[i]
    BY <2>1, PutFacts
  <2> HIDE DEF q
  <2>3. QED
    BY <1>1, <1>5, <2>2
<1> HIDE DEF q
<1>7. r \in Buffers /\ r.used = n + 4 /\ r.chunk = q.chunk
  <2>1. n + 4 \in Nat
    OBVIOUS
  <2>2. QED
    BY <1>4, <1>6, <2>1 DEF Buffers
<1>8. ASSUME NEW i \in 1..4 PROVE r.chunk[i] = 3000 + buffer.used
  <2>1. i \in 1..m /\ i <= 4 /\ 0 + i = i
    BY <1>1
  <2>2. q.chunk[i] = p.chunk[i]
    BY <1>6, <2>1
  <2>3. p.chunk[i] = code[i]
    BY <1>5, <2>1
  <2>4. QED
    BY <1>2, <1>3, <1>7, <1>a, <2>2, <2>3
<1>9. QED
  BY <1>1, <1>6, <1>7, <1>8

(* The first n bytes of dec are the body, the buffer tells n, and has room *)
(* for d bytes.                                                            *)
Fits(dec, d, n) ==
  /\ n <= Len(dec) /\ n <= d /\ d + 4 <= Len(buffer.chunk) /\ buffer.chunk[1] = 3000 + n
  /\ \A i \in 1..n : dec[i] = i

(* A decrypted text of the size that the buffer tells is put in its place, *)
(* when no new chunk is needed.                                            *)
LEMMA OpenedFacts ==
  ASSUME buffer \in Buffers, NEW dec \in Seq(Code), NEW d \in Nat, NEW n \in Nat, Fits(dec, d, n),
         NEW r, r = Opened(dec, d)
  PROVE  r \in Buffers /\ r.used = n /\ Used(r) = [i \in 1..n |-> i]
<1>a. /\ n <= Len(dec) /\ n <= d /\ d + 4 <= Len(buffer.chunk) /\ buffer.chunk[1] = 3000 + n
      /\ \A i \in 1..n : dec[i] = i
  BY DEF Fits
<1>1. PICK m \in Nat : m = Len(buffer.chunk)
  BY DEF Buffers
<1> DEFINE text == SubSeq(dec, 1, n)
           p == Put(buffer, 0, text)
<1>2. text \in Seq(Code) /\ Len(text) = n /\ \A i \in 1..n : text[i] = i
  <2>1. Len(dec) \in Nat /\ \A i \in 1..n : dec[i] \in Code
    BY <1>a DEF Code
  <2>2. /\ text \in Seq(Code) /\ Len(text) = IF 1 <= n THEN n - 1 + 1 ELSE 0
        /\ \A i \in 1..n - 1 + 1 : text[i] = dec[1 + i - 1]
    BY <2>1, SubSeqProperties
  <2>3. n - 1 + 1 = n /\ \A i \in 1..n : 1 + i - 1 = i
    OBVIOUS
  <2>4. QED
    BY <1>a, <2>2, <2>3
<1>3. r = [p EXCEPT !.used = n]
  <2>1. ~(m - 4 < d) /\ (3000 + n) - 3000 = n
    BY <1>1, <1>a
  <2>2. QED
    BY <1>1, <1>a, <2>1, SMTT(20) DEF Opened, SizeBytes, SizeCode
<1> HIDE DEF text
<1>4. p \in Buffers /\ Len(p.chunk) = m /\ \A i \in 1..n : p.chunk[0 + i] = text[i]
  <2>1. 0 \in Nat /\ 0 + Len(text) <= Len(buffer.chunk)
    BY <1>1, <1>2, <1>a
  <2>2. QED
    BY <1>1, <1>2, <2>1, PutFacts
<1> HIDE DEF p
<1>5. r \in Buffers /\ r.used = n /\ r.chunk = p.chunk
  BY <1>3, <1>4 DEF Buffers
<1>6. r.used <= Len(r.chunk)
  BY <1>1, <1>4, <1>5, <1>a
<1>7. \A i \in 1..n : r.chunk[i] = i
  <2>1. \A i \in 1..n : 0 + i = i
    OBVIOUS
  <2>2. QED
    BY <1>2, <1>4, <1>5, <2>1
<1>8. Used(r) \in Seq(Code) /\ Len(Used(r)) = n /\ \A i \in 1..n : Used(r)[i] = i
  <2>1. /\ Used(r) \in Seq(Code) /\ Len(Used(r)) = r.used
        /\ \A i \in 1..r.used : Used(r)[i] = r.chunk[i]
    BY <1>5, <1>6, UsedFacts
  <2>2. QED
    BY <1>5, <1>7, <2>1
<1>9. Used(r) = [i \in 1..n |-> i]
  BY <1>8
<1>10. QED
  BY <1>5, <1>9

(* AES gives the bytes of whole blocks back. *)
LEMMA AesBack ==
  ASSUME NEW in \in Seq(Code), NEW g \in Nat, g % 16 = 0, g <= Len(in),
         \A j \in 1..g : in[j] >= 999
  PROVE  /\ aes_decrypt(in) \in Seq(Code) /\ Len(aes_decrypt(in)) = Len(in)
         /\ \A i \in 1..g : aes_decrypt(in)[i] = in[i] - 1000
<1> DEFINE one(i) == IF \A j \in Block(i) : in[j] >= 999 THEN in[i] - 1000 ELSE Junk
           f == aes_decrypt(in)
<1>1. Len(in) \in Nat
  OBVIOUS
<1>2. f = [i \in 1..Len(in) |-> one(i)]
  <2>1. Aes(Junk) = 999 /\ Aes(0) = 1000
    BY DEF Aes, Junk
  <2>2. QED
    BY <2>1 DEF aes_decrypt
<1> HIDE DEF f
<1>3. ASSUME NEW i \in 1..Len(in) PROVE one(i) \in Code
  <2>1. in[i] - 1000 \in Code /\ Junk \in Code
    BY DEF Code, Junk
  <2>2. QED
    BY <2>1
<1>4. ASSUME NEW i \in 1..g PROVE one(i) = in[i] - 1000
  <2>1. Block(i) \subseteq 1..g
    BY BlockInside
  <2>2. QED
    BY <2>1
<1> HIDE DEF one
<1>5. f \in [1..Len(in) -> Code]
  BY <1>2, <1>3
<1>6. f \in Seq(Code) /\ Len(f) = Len(in)
  BY <1>1, <1>5, LenProperties
<1>7. ASSUME NEW i \in 1..g PROVE f[i] = in[i] - 1000
  <2>1. i \in 1..Len(in)
    BY <1>1
  <2>2. QED
    BY <1>2, <1>4, <2>1
<1>8. QED
  BY <1>6, <1>7 DEF f

(* A TEA text of a body of n bytes with k bytes of padding *)
Padded(in, n, k) ==
  /\ Len(in) = n + 10 + k /\ Len(in) % 8 = 0 /\ Len(in) >= 16 /\ in[1] = 2500 + k
  /\ \A j \in k + 4..k + 3 + n : in[j] = 2000 + (j - (k + 3))

(* TEA gives the bytes behind the header and the padding back. *)
LEMMA TeaBack ==
  ASSUME NEW in \in Seq(Code), NEW n \in Nat \ {0}, NEW k \in 0..7, NEW room \in Nat,
         Padded(in, n, k), n <= room
  PROVE  /\ qq_decrypt(in, room) \in Seq(Code) /\ Len(qq_decrypt(in, room)) = n
         /\ \A i \in 1..n : qq_decrypt(in, room)[i] = i
<1> DEFINE p == in[1] - Tea(TeaHeader(0))
           count == Len(in) - p - 10
           byte(q, i) == in[q + 3 + i] - Tea(0)
           bad == Len(in) % 8 # 0 \/ Len(in) < 16 \/ p \notin 0..7 \/ room < count \/ count < 0
           f == [i \in 1..n |-> byte(k, i)]
<1>b. Len(in) = n + 10 + k /\ Len(in) % 8 = 0 /\ Len(in) >= 16 /\ in[1] = 2500 + k
  BY DEF Padded
<1>1. p = k /\ count = n
  BY <1>b DEF Tea, TeaHeader
<1>2. ~bad
  BY <1>1, <1>b
<1>a. qq_decrypt(in, room) = IF bad THEN <<>> ELSE [i \in 1..count |-> byte(p, i)]
  BY DEF qq_decrypt
<1> HIDE DEF bad
<1>3. qq_decrypt(in, room) = [i \in 1..count |-> byte(p, i)]
  BY <1>2, <1>a
<1>4. ASSUME NEW i \in 1..n PROVE byte(k, i) \in Code /\ byte(k, i) = in[k + 3 + i] - 2000
  <2>1. k + 3 + i \in 1..Len(in)
    BY <1>b
  <2>2. QED
    BY <2>1 DEF Code, Tea
<1> HIDE DEF p, count, byte
<1>5. qq_decrypt(in, room) = f
  BY <1>1, <1>3
<1>6. f \in [1..n -> Code]
  BY <1>4
<1>7. f \in Seq(Code) /\ Len(f) = n
  BY <1>6, LenProperties
<1>8. \A i \in 1..n : f[i] = in[k + 3 + i] - 2000
  BY <1>4
<1>9. ASSUME NEW i \in 1..n PROVE f[i] = i
  <2>1. f[i] = in[k + 3 + i] - 2000
    BY <1>8
  <2>2. in[k + 3 + i] = 2000 + i
    <3>1. PICK j \in k + 4..k + 3 + n : j = k + 3 + i /\ j - (k + 3) = i
      OBVIOUS
    <3>2. in[j] = 2000 + (j - (k + 3))
      BY DEF Padded
    <3>3. QED
      BY <3>1, <3>2
  <2>3. QED
    BY <2>1, <2>2
<1>10. QED
  BY <1>5, <1>7, <1>9

(* What the first u bytes of c carry for a body of n bytes under cipher k *)
Carries(k, n, c, u) ==
  /\ k = "none" => u = n /\ \A i \in 1..n : c[i] = i
  /\ k = "aes" => /\ u = aes_len(n) + 4 /\ c[1] = 3000 + n
                  /\ \A i \in 1..aes_len(n) : c[4 + i] >= 999
                  /\ \A i \in 1..n : c[4 + i] = 1000 + i
  /\ k = "tea" => /\ u = n + 14 + tea_pad(n) /\ c[1] = 3000 + n
                  /\ c[5] = 2500 + tea_pad(n)
                  /\ \A i \in 1..n : c[tea_pad(n) + 7 + i] = 2000 + i

CryptInv ==
  /\ crypt \in {"none", "aes", "tea"} /\ size \in Nat \ {0}
  /\ buffer \in Buffers /\ packet \in Seq(Code)
  /\ step \in {"clone", "encrypt", "send", "receive", "decrypt", "done"}
  /\ step # "done" => legal
  /\ step \in {"clone", "encrypt"} =>
       /\ buffer.used = size /\ size <= Len(buffer.chunk)
       /\ \A i \in 1..size : buffer.chunk[i] = i
  /\ step = "encrypt" => /\ Len(buffer.chunk) = size + 65
                         /\ \A i \in 1..Len(buffer.chunk) : i > size => buffer.chunk[i] >= Junk
  /\ step \in {"send", "decrypt"} => /\ Carries(crypt, size, buffer.chunk, buffer.used)
                                     /\ buffer.used <= Len(buffer.chunk)
  /\ step = "receive" => Carries(crypt, size, packet, Len(packet))
  /\ step = "decrypt" => Len(buffer.chunk) = buffer.used + 65
  /\ CryptRoundTrip

(* What is carried does not change when the bytes are copied. *)
LEMMA CarriesCopy ==
  ASSUME NEW k \in {"none", "aes", "tea"}, NEW n \in Nat \ {0}, NEW c, NEW d, NEW u \in Nat,
         Carries(k, n, c, u), \A i \in 1..u : d[i] = c[i]
  PROVE  Carries(k, n, d, u)
<1>1. CASE k = "none"
  BY <1>1 DEF Carries
<1>2. CASE k = "aes"
  <2>1. PICK l \in Nat : l = aes_len(n) /\ n < l
    BY AesLength
  <2>2. /\ u = l + 4 /\ c[1] = 3000 + n
        /\ \A i \in 1..l : c[4 + i] >= 999
        /\ \A i \in 1..n : c[4 + i] = 1000 + i
    BY <1>2, <2>1 DEF Carries
  <2>3. /\ 1 \in 1..u
        /\ \A i \in 1..l : 4 + i \in 1..u
        /\ \A i \in 1..n : 4 + i \in 1..u
    BY <2>1, <2>2
  <2>4. /\ d[1] = 3000 + n
        /\ \A i \in 1..l : d[4 + i] >= 999
        /\ \A i \in 1..n : d[4 + i] = 1000 + i
    BY <2>2, <2>3
  <2>5. QED
    BY <1>2, <2>1, <2>2, <2>4 DEF Carries
<1>3. CASE k = "tea"
  <2>1. PICK pad \in 0..7 : pad = tea_pad(n)
    BY TeaLength
  <2>2. /\ u = n + 14 + pad /\ c[1] = 3000 + n /\ c[5] = 2500 + pad
        /\ \A i \in 1..n : c[pad + 7 + i] = 2000 + i
    BY <1>3, <2>1 DEF Carries
  <2>3. /\ 1 \in 1..u /\ 5 \in 1..u
        /\ \A i \in 1..n : pad + 7 + i \in 1..u
    BY <2>1, <2>2
  <2>4. /\ d[1] = 3000 + n /\ d[5] = 2500 + pad
        /\ \A i \in 1..n : d[pad + 7 + i] = 2000 + i
    BY <2>2, <2>3
  <2>5. QED
    BY <1>3, <2>1, <2>2, <2>4 DEF Carries
<1>4. QED
  BY <1>1, <1>2, <1>3

(* A body as the handlers append it *)
LEMMA CryptInitInv == CryptInit => CryptInv
<1> SUFFICES ASSUME CryptInit PROVE CryptInv
  OBVIOUS
<1> DEFINE plain == [i \in 1..size |-> i]
           junk == Fill(Junk, 64)
           c == plain \o junk
<1>1. size \in Nat \ {0}
  BY MaxSizeAssumption DEF CryptInit
<1>2. plain \in Seq(Code) /\ Len(plain) = size /\ \A i \in 1..size : plain[i] = i
  <2>1. plain \in [1..size -> Code]
    BY <1>1 DEF Code
  <2>2. QED
    BY <1>1, <2>1, LenProperties
<1>3. junk \in Seq(Code) /\ Len(junk) = 64
  BY JunkFacts
<1>4. buffer = [chunk |-> c, used |-> size]
  BY DEF CryptInit, GrowSize
<1> HIDE DEF plain, junk
<1>5. /\ c \in Seq(Code) /\ Len(c) = Len(plain) + Len(junk)
      /\ \A i \in 1..Len(plain) + Len(junk) : c[i] = IF i <= Len(plain) THEN plain[i] ELSE junk[i - Len(plain)]
  <2>1. plain \in Seq(Code) /\ junk \in Seq(Code)
    BY <1>2, <1>3
  <2>2. QED
    BY <2>1, ConcatProperties
<1> HIDE DEF c
<1>6. ASSUME NEW i \in 1..size PROVE c[i] = i
  <2>1. i \in 1..Len(plain) + Len(junk) /\ i <= Len(plain)
    BY <1>1, <1>2, <1>3
  <2>2. QED
    BY <1>2, <1>5, <2>1
<1>7. size <= Len(c)
  BY <1>1, <1>2, <1>3, <1>5
<1>8. buffer \in Buffers /\ buffer.used = size /\ buffer.chunk = c
  BY <1>1, <1>4, <1>5 DEF Buffers
<1>9. crypt \in {"none", "aes", "tea"} /\ packet \in Seq(Code) /\ step = "clone" /\ legal
  BY DEF CryptInit
<1>10. QED
  BY <1>1, <1>6, <1>7, <1>8, <1>9 DEF CryptInv, CryptRoundTrip

(* The clone has the bytes, and room for a block. *)
LEMMA CryptClone == CryptInv /\ rpc_buffer_clone => CryptInv'
<1> SUFFICES ASSUME CryptInv, rpc_buffer_clone PROVE CryptInv'
  OBVIOUS
<1>1. /\ crypt' = crypt /\ size' = size /\ packet' = packet /\ legal' = legal
      /\ step = "clone" /\ step' = "encrypt" /\ buffer' = rpc_buffer_new(Used(buffer))
  BY DEF rpc_buffer_clone
<1>2. /\ crypt \in {"none", "aes", "tea"} /\ packet \in Seq(Code) /\ legal
  BY <1>1 DEF CryptInv
<1>3. /\ size \in Nat \ {0} /\ buffer \in Buffers /\ buffer.used = size
      /\ size <= Len(buffer.chunk) /\ \A i \in 1..size : buffer.chunk[i] = i
  BY <1>1 DEF CryptInv
<1>4. PICK bytes \in Seq(Code) : bytes = Used(buffer) /\ Len(bytes) = size /\ \A i \in 1..size : bytes[i] = i
  BY <1>3, UsedFacts
<1>5. PICK b \in Buffers : b = rpc_buffer_new(bytes)
  BY NewFacts
<1>6. /\ b.used = Len(bytes) /\ Len(b.chunk) = Len(bytes) + 65
      /\ \A i \in 1..Len(bytes) : b.chunk[i] = bytes[i]
      /\ \A i \in 1..Len(b.chunk) : i > Len(bytes) => b.chunk[i] >= Junk
  BY <1>5, NewFacts
<1>7. buffer' = b
  BY <1>1, <1>4, <1>5
<1>8. /\ b.used = size /\ Len(b.chunk) = size + 65
      /\ \A i \in 1..size : b.chunk[i] = i
      /\ \A i \in 1..Len(b.chunk) : i > size => b.chunk[i] >= Junk
  BY <1>4, <1>6
<1>9. size <= Len(b.chunk)
  BY <1>3, <1>8
<1>10. QED
  BY <1>1, <1>2, <1>3, <1>7, <1>8, <1>9 DEF CryptInv, CryptRoundTrip

(* What rpc_buffer_encrypt makes carries the body, and was made from bytes *)
(* that are there.                                                         *)
LEMMA CryptEncrypt == CryptInv /\ rpc_buffer_encrypt => CryptInv'
<1> SUFFICES ASSUME CryptInv, rpc_buffer_encrypt PROVE CryptInv'
  OBVIOUS
<1>1. /\ crypt' = crypt /\ size' = size /\ packet' = packet
      /\ step = "encrypt" /\ step' = "send"
  BY DEF rpc_buffer_encrypt
<1>2. /\ crypt \in {"none", "aes", "tea"} /\ packet \in Seq(Code) /\ legal
  BY <1>1 DEF CryptInv
<1>3. /\ size \in Nat \ {0} /\ buffer \in Buffers /\ buffer.used = size
      /\ size <= Len(buffer.chunk) /\ \A i \in 1..size : buffer.chunk[i] = i
      /\ Len(buffer.chunk) = size + 65
      /\ \A i \in 1..Len(buffer.chunk) : i > size => buffer.chunk[i] >= Junk
  BY <1>1 DEF CryptInv
<1>4. SUFFICES /\ legal' /\ buffer' \in Buffers
               /\ Carries(crypt, size, buffer'.chunk, buffer'.used)
               /\ buffer'.used <= Len(buffer'.chunk)
  BY <1>1, <1>2, <1>3 DEF CryptInv, CryptRoundTrip
<1>5. CASE crypt = "none"
  <2>1. buffer' = buffer /\ legal' = legal
    BY <1>5 DEF rpc_buffer_encrypt
  <2>2. Carries(crypt, size, buffer.chunk, buffer.used)
    BY <1>3, <1>5 DEF Carries
  <2>3. QED
    BY <1>2, <1>3, <2>1, <2>2
<1>6. CASE crypt = "aes"
  <2>1. PICK n \in Nat : n = aes_len(size) /\ size < n /\ n <= size + 16
    BY <1>3, AesLength
  <2>2. buffer' = Sealed(aes_encrypt(Read(buffer, 0, n))) /\ legal' = Inside(buffer, 0, n)
    BY <1>3, <1>6, <2>1 DEF rpc_buffer_encrypt
  <2>3. 0 + n <= Len(buffer.chunk) /\ 0 \in Nat
    BY <1>3, <2>1
  <2>4. legal'
    BY <2>2, <2>3 DEF Inside
  <2>5. PICK in \in Seq(Code) : /\ in = Read(buffer, 0, n) /\ Len(in) = n
                                /\ \A i \in 1..n : in[i] = buffer.chunk[0 + i]
    BY <1>3, <2>3, ReadFacts
  <2>6. ASSUME NEW i \in 1..n PROVE in[i] >= -1 /\ in[i] \in Int
    <3>1. i \in 1..Len(buffer.chunk) /\ 0 + i = i
      BY <1>3, <2>1
    <3>2. in[i] = buffer.chunk[i]
      BY <2>5, <3>1
    <3>3. CASE i > size
      <4>1. buffer.chunk[i] >= Junk
        BY <1>3, <3>1, <3>3
      <4>2. QED
        BY <2>5, <3>2, <4>1 DEF Junk, Code
    <3>4. CASE ~(i > size)
      <4>1. i \in 1..size
        BY <1>3, <3>4
      <4>2. in[i] = i
        BY <1>3, <3>2, <4>1
      <4>3. QED
        BY <4>2
    <3>5. QED
      BY <3>3, <3>4
  <2>7. ASSUME NEW i \in 1..size PROVE i \in 1..n /\ in[i] = i
    <3>1. i \in 1..n /\ 0 + i = i
      BY <1>3, <2>1
    <3>2. QED
      BY <1>3, <2>5, <3>1
  <2>8. PICK enc \in Seq(Code) : /\ enc = aes_encrypt(in) /\ Len(enc) = n
                                 /\ \A i \in 1..n : enc[i] = 1000 + in[i]
    BY <2>5, AesText
  <2>9. n + 4 <= Len(buffer.chunk)
    BY <1>3, <2>1
  <2>a. PICK r : r = Sealed(enc)
    OBVIOUS
  <2>10. /\ r \in Buffers /\ r.used = n + 4 /\ Len(r.chunk) = Len(buffer.chunk)
         /\ \A i \in 1..4 : r.chunk[i] = 3000 + buffer.used
         /\ \A i \in 1..n : r.chunk[4 + i] = enc[i]
    <3>1. buffer \in Buffers
      BY <1>3
    <3>2. QED
      BY <2>8, <2>9, <2>a, <3>1, SealedFacts
  <2>11. ASSUME NEW i \in 1..n PROVE r.chunk[4 + i] >= 999
    <3>1. r.chunk[4 + i] = 1000 + in[i]
      BY <2>8, <2>10, SMTT(20)
    <3>2. QED
      BY <2>6, <3>1
  <2>12. ASSUME NEW i \in 1..size PROVE r.chunk[4 + i] = 1000 + i
    <3>1. i \in 1..n /\ in[i] = i
      BY <2>7
    <3>2. r.chunk[4 + i] = 1000 + in[i]
      BY <2>8, <2>10, <3>1, SMTT(20)
    <3>3. QED
      BY <3>1, <3>2
  <2>13. r.chunk[1] = 3000 + size
    BY <1>3, <2>10
  <2>14. Carries(crypt, size, r.chunk, r.used)
    BY <1>6, <2>1, <2>10, <2>11, <2>12, <2>13 DEF Carries
  <2>15. buffer' = r
    BY <2>2, <2>5, <2>8, <2>a
  <2>16. r.used <= Len(r.chunk)
    BY <2>9, <2>10
  <2>17. QED
    BY <2>4, <2>10, <2>14, <2>15, <2>16
<1>7. CASE crypt = "tea"
  <2>1. PICK pad \in 0..7 : pad = tea_pad(size)
    BY <1>3, TeaLength
  <2>2. /\ buffer' = Sealed(qq_encrypt(Used(buffer)))
        /\ legal' = (Len(qq_encrypt(Used(buffer))) <= tea_room(size))
    BY <1>3, <1>7 DEF rpc_buffer_encrypt
  <2>3. PICK in \in Seq(Code) : /\ in = Used(buffer) /\ Len(in) = size
                                /\ \A i \in 1..size : in[i] = i
    BY <1>3, UsedFacts
  <2>a. PICK enc : enc = qq_encrypt(in)
    OBVIOUS
  <2>4. /\ enc \in Seq(Code) /\ Len(enc) = size + 10 + pad
        /\ enc[1] = 2500 + pad
        /\ \A i \in 1..size : enc[pad + 3 + i] = 2000 + in[i]
    BY <1>3, <2>1, <2>3, <2>a, TeaText
  <2>5. legal'
    <3>1. size + 10 + pad <= size + 32
      BY <1>3
    <3>2. legal' = (Len(enc) <= tea_room(size))
      BY <2>2, <2>3, <2>a
    <3>3. Len(enc) <= tea_room(size)
      BY <2>4, <3>1 DEF tea_room
    <3>4. QED
      BY <3>2, <3>3
  <2>6. PICK n \in Nat : n = size + 10 + pad
    BY <1>3
  <2>7. n + 4 <= Len(buffer.chunk)
    BY <1>3, <2>6
  <2>b. PICK r : r = Sealed(enc)
    OBVIOUS
  <2>8. /\ r \in Buffers /\ r.used = n + 4 /\ Len(r.chunk) = Len(buffer.chunk)
        /\ \A i \in 1..4 : r.chunk[i] = 3000 + buffer.used
        /\ \A i \in 1..n : r.chunk[4 + i] = enc[i]
    <3>1. buffer \in Buffers /\ enc \in Seq(Code) /\ Len(enc) = n
      BY <1>3, <2>4, <2>6
    <3>2. QED
      BY <2>7, <2>b, <3>1, SealedFacts, SMTT(20)
  <2>9. r.chunk[1] = 3000 + size
    BY <1>3, <2>8
  <2>10. r.chunk[5] = 2500 + pad
    <3>1. 1 \in 1..n /\ 4 + 1 = 5
      BY <1>3, <2>6
    <3>2. r.chunk[4 + 1] = enc[1]
      BY <2>8, <3>1
    <3>3. QED
      BY <2>4, <3>1, <3>2
  <2>11. ASSUME NEW i \in 1..size PROVE r.chunk[pad + 7 + i] = 2000 + i
    <3>1. pad + 3 + i \in 1..n /\ 4 + (pad + 3 + i) = pad + 7 + i
      BY <1>3, <2>6
    <3>2. r.chunk[4 + (pad + 3 + i)] = enc[pad + 3 + i]
      BY <2>8, <3>1
    <3>3. enc[pad + 3 + i] = 2000 + i
      BY <2>3, <2>4
    <3>4. QED
      BY <3>1, <3>2, <3>3
  <2>12. r.used = size + 14 + pad
    BY <1>3, <2>6, <2>8
  <2>13. Carries(crypt, size, r.chunk, r.used)
    BY <1>7, <2>1, <2>9, <2>10, <2>11, <2>12 DEF Carries
  <2>14. buffer' = r
    BY <2>2, <2>3, <2>a, <2>b
  <2>15. r.used <= Len(r.chunk)
    BY <2>7, <2>8
  <2>16. QED
    BY <2>5, <2>8, <2>13, <2>14, <2>15
<1>8. QED
  BY <1>2, <1>5, <1>6, <1>7

(* The packet has the used bytes. *)
LEMMA CryptSendStep == CryptInv /\ CryptSend => CryptInv'
<1> SUFFICES ASSUME CryptInv, CryptSend PROVE CryptInv'
  OBVIOUS
<1>1. /\ crypt' = crypt /\ size' = size /\ buffer' = buffer /\ legal' = legal
      /\ step = "send" /\ step' = "receive" /\ packet' = Used(buffer)
  BY DEF CryptSend
<1>2. /\ crypt \in {"none", "aes", "tea"} /\ legal /\ size \in Nat \ {0}
  BY <1>1 DEF CryptInv
<1>3. /\ buffer \in Buffers /\ Carries(crypt, size, buffer.chunk, buffer.used)
      /\ buffer.used <= Len(buffer.chunk)
  BY <1>1 DEF CryptInv
<1>4. PICK bytes \in Seq(Code) : /\ bytes = Used(buffer) /\ Len(bytes) = buffer.used
                                 /\ \A i \in 1..buffer.used : bytes[i] = buffer.chunk[i]
  BY <1>3, UsedFacts
<1>5. buffer.used \in Nat
  BY <1>3 DEF Buffers
<1>6. Carries(crypt, size, bytes, Len(bytes))
  BY <1>2, <1>3, <1>4, <1>5, CarriesCopy
<1>7. packet' = bytes
  BY <1>1, <1>4
<1>8. QED
  BY <1>1, <1>2, <1>3, <1>6, <1>7 DEF CryptInv, CryptRoundTrip

(* The buffer of the receiver has the bytes of the packet. *)
LEMMA CryptReceiveStep == CryptInv /\ CryptReceive => CryptInv'
<1> SUFFICES ASSUME CryptInv, CryptReceive PROVE CryptInv'
  OBVIOUS
<1>1. /\ crypt' = crypt /\ size' = size /\ packet' = packet /\ legal' = legal
      /\ step = "receive" /\ step' = "decrypt" /\ buffer' = rpc_buffer_new(packet)
  BY DEF CryptReceive
<1>2. /\ crypt \in {"none", "aes", "tea"} /\ legal /\ size \in Nat \ {0}
      /\ packet \in Seq(Code) /\ Carries(crypt, size, packet, Len(packet))
  BY <1>1 DEF CryptInv
<1>3. PICK b \in Buffers : b = rpc_buffer_new(packet)
  BY <1>2, NewFacts
<1>4. /\ b.used = Len(packet) /\ Len(b.chunk) = Len(packet) + 65
      /\ \A i \in 1..Len(packet) : b.chunk[i] = packet[i]
  BY <1>2, <1>3, NewFacts
<1>5. Len(packet) \in Nat
  BY <1>2
<1>6. Carries(crypt, size, b.chunk, b.used)
  BY <1>2, <1>4, <1>5, CarriesCopy
<1>7. buffer' = b
  BY <1>1, <1>3
<1>8. b.used <= Len(b.chunk) /\ Len(b.chunk) = b.used + 65
  BY <1>4, <1>5
<1>9. QED
  BY <1>1, <1>2, <1>6, <1>7, <1>8 DEF CryptInv, CryptRoundTrip

(* The body comes out of rpc_buffer_decrypt. *)
LEMMA CryptDecrypt == CryptInv /\ rpc_buffer_decrypt => CryptInv'
<1> SUFFICES ASSUME CryptInv, rpc_buffer_decrypt PROVE CryptInv'
  OBVIOUS
<1>1. /\ crypt' = crypt /\ size' = size /\ packet' = packet
      /\ step = "decrypt" /\ step' = "done"
  BY DEF rpc_buffer_decrypt
<1>2. /\ crypt \in {"none", "aes", "tea"} /\ legal /\ packet \in Seq(Code)
  BY <1>1 DEF CryptInv
<1>3. /\ size \in Nat \ {0} /\ buffer \in Buffers
      /\ Carries(crypt, size, buffer.chunk, buffer.used)
      /\ Len(buffer.chunk) = buffer.used + 65
  BY <1>1 DEF CryptInv
<1>4. SUFFICES legal' /\ buffer' \in Buffers /\ Used(buffer') = [i \in 1..size |-> i]
  BY <1>1, <1>2, <1>3 DEF CryptInv, CryptRoundTrip, Used
<1>5. CASE crypt = "none"
  <2>1. buffer' = buffer /\ legal' = legal
    BY <1>5 DEF rpc_buffer_decrypt
  <2>2. buffer.used = size /\ \A i \in 1..size : buffer.chunk[i] = i
    BY <1>3, <1>5 DEF Carries
  <2>3. buffer.used <= Len(buffer.chunk)
    BY <1>3, <2>2
  <2>4. Used(buffer) \in Seq(Code) /\ Len(Used(buffer)) = size /\ \A i \in 1..size : Used(buffer)[i] = i
    BY <1>3, <2>2, <2>3, UsedFacts
  <2>5. Used(buffer) = [i \in 1..size |-> i]
    BY <2>4
  <2>6. QED
    BY <1>2, <1>3, <2>1, <2>5
<1>6. CASE crypt = "aes"
  <2>1. PICK g \in Nat : g = aes_len(size) /\ size < g /\ g % 16 = 0
    BY <1>3, AesLength
  <2>2. /\ buffer.used = g + 4 /\ buffer.chunk[1] = 3000 + size
        /\ \A i \in 1..g : buffer.chunk[4 + i] >= 999
        /\ \A i \in 1..size : buffer.chunk[4 + i] = 1000 + i
    <3>1. Carries("aes", size, buffer.chunk, buffer.used)
      BY <1>3, <1>6
    <3>2. /\ buffer.used = aes_len(size) + 4 /\ buffer.chunk[1] = 3000 + size
          /\ \A i \in 1..aes_len(size) : buffer.chunk[4 + i] >= 999
          /\ \A i \in 1..size : buffer.chunk[4 + i] = 1000 + i
      BY <3>1 DEF Carries
    <3>3. QED
      BY <2>1, <3>2
  <2>3. PICK n \in Nat : n = aes_len(g) /\ n = g + 16
    BY <2>1, AesLength
  <2>4. aes_len(buffer.used - SizeBytes) = n
    <3>1. buffer.used - SizeBytes = g
      BY <2>2 DEF SizeBytes
    <3>2. QED
      BY <2>3, <3>1
  <2>a. /\ buffer' = Opened(aes_decrypt(Read(buffer, SizeBytes, n)), n)
        /\ legal' = (legal /\ Inside(buffer, SizeBytes, n) /\ buffer'.used <= n)
    BY <1>6, <2>4 DEF rpc_buffer_decrypt
  <2>5. /\ buffer' = Opened(aes_decrypt(Read(buffer, 4, n)), n)
        /\ legal' = (legal /\ Inside(buffer, 4, n) /\ buffer'.used <= n)
    BY <2>a DEF SizeBytes
  <2>6. 4 + n <= Len(buffer.chunk) /\ 4 \in Nat
    BY <1>3, <2>2, <2>3
  <2>7. PICK in \in Seq(Code) : /\ in = Read(buffer, 4, n) /\ Len(in) = n
                                /\ \A i \in 1..n : in[i] = buffer.chunk[4 + i]
    <3>1. buffer \in Buffers
      BY <1>3
    <3>2. QED
      BY <2>6, <3>1, ReadFacts
  <2>8. ASSUME NEW i \in 1..g PROVE in[i] >= 999
    <3>1. i \in 1..n
      BY <2>3
    <3>2. in[i] = buffer.chunk[4 + i]
      BY <2>7, <3>1
    <3>3. buffer.chunk[4 + i] >= 999
      BY <2>2
    <3>4. QED
      BY <3>2, <3>3
  <2>9. g <= Len(in)
    BY <2>3, <2>7
  <2>10. PICK dec \in Seq(Code) : /\ dec = aes_decrypt(in) /\ Len(dec) = Len(in)
                                  /\ \A i \in 1..g : dec[i] = in[i] - 1000
    BY <2>1, <2>8, <2>9, AesBack
  <2>11. ASSUME NEW i \in 1..size PROVE dec[i] = i
    <3>1. i \in 1..g /\ i \in 1..n
      BY <1>3, <2>1, <2>3
    <3>2. in[i] = 1000 + i
      BY <2>2, <2>7, <3>1
    <3>3. dec[i] = in[i] - 1000
      BY <2>10, <3>1
    <3>4. QED
      BY <3>2, <3>3
  <2>12. size <= Len(dec) /\ size <= n /\ n + 4 <= Len(buffer.chunk)
    BY <1>3, <2>1, <2>3, <2>6, <2>7, <2>10
  <2>13. PICK r : r = Opened(dec, n)
    OBVIOUS
  <2>14. r \in Buffers /\ r.used = size /\ Used(r) = [i \in 1..size |-> i]
    <3>1. buffer \in Buffers /\ size \in Nat
      BY <1>3
    <3>2. Fits(dec, n, size)
      BY <2>2, <2>11, <2>12 DEF Fits
    <3>3. QED
      BY <2>13, <3>1, <3>2, OpenedFacts
  <2>15. buffer' = r
    BY <2>5, <2>7, <2>10, <2>13
  <2>16. Inside(buffer, 4, n)
    BY <2>6 DEF Inside
  <2>17. buffer'.used <= n
    BY <2>12, <2>14, <2>15
  <2>18. legal'
    BY <1>2, <2>5, <2>16, <2>17
  <2>19. QED
    BY <2>14, <2>15, <2>18
<1>7. CASE crypt = "tea"
  <2>1. PICK pad \in 0..7 : pad = tea_pad(size) /\ (size + 10 + pad) % 8 = 0 /\ size + 10 + pad >= 16
    BY <1>3, TeaLength
  <2>2. /\ buffer.used = size + 14 + pad /\ buffer.chunk[1] = 3000 + size
        /\ buffer.chunk[5] = 2500 + pad
        /\ \A i \in 1..size : buffer.chunk[pad + 7 + i] = 2000 + i
    BY <1>3, <1>7, <2>1 DEF Carries
  <2>3. PICK g \in Nat : g = size + 10 + pad
    BY <1>3
  <2>4. buffer.used - 4 = g
    BY <1>3, <2>2, <2>3
  <2> DEFINE d(dec) == IF dec = <<>> THEN tea_room(g) ELSE Len(dec)
  <2>5. PICK dec : dec = qq_decrypt(Read(buffer, 4, g), tea_room(g))
    OBVIOUS
  <2>6. /\ buffer' = Opened(dec, d(dec))
        /\ legal' = (legal /\ buffer'.used <= tea_room(g))
    BY <1>7, <2>4, <2>5 DEF rpc_buffer_decrypt, SizeBytes
  <2>7. 4 + g <= Len(buffer.chunk) /\ 4 \in Nat
    BY <1>3, <2>2, <2>3
  <2>8. PICK in \in Seq(Code) : /\ in = Read(buffer, 4, g) /\ Len(in) = g
                                /\ \A i \in 1..g : in[i] = buffer.chunk[4 + i]
    BY <1>3, <2>7, ReadFacts
  <2>9. in[1] = 2500 + pad
    <3>1. 1 \in 1..g /\ 4 + 1 = 5
      BY <1>3, <2>3
    <3>2. in[1] = buffer.chunk[4 + 1]
      BY <2>8, <3>1
    <3>3. QED
      BY <2>2, <3>1, <3>2
  <2>10. PICK room \in Nat : room = tea_room(g) /\ size <= room
    BY <1>3, <2>3 DEF tea_room
  <2>11. ASSUME NEW j \in pad + 4..pad + 3 + size PROVE in[j] = 2000 + (j - (pad + 3))
    <3>1. PICK i \in 1..size : i = j - (pad + 3)
      BY <1>3
    <3>2. j \in 1..g /\ 4 + j = pad + 7 + i
      BY <1>3, <2>3, <3>1
    <3>3. in[j] = buffer.chunk[4 + j]
      BY <2>8, <3>2
    <3>4. QED
      BY <2>2, <3>1, <3>2, <3>3
  <2>12. /\ dec \in Seq(Code) /\ Len(dec) = size
         /\ \A i \in 1..size : dec[i] = i
    <3>1. dec = qq_decrypt(in, room)
      BY <2>5, <2>8, <2>10
    <3>2. in \in Seq(Code) /\ Len(in) = size + 10 + pad /\ size \in Nat \ {0}
      BY <1>3, <2>3, <2>8
    <3>3. Padded(in, size, pad) /\ size <= room
      BY <2>1, <2>9, <2>10, <2>11, <3>2 DEF Padded
    <3>4. qq_decrypt(in, room) \in Seq(Code) /\ Len(qq_decrypt(in, room)) = size
      BY <3>2, <3>3, TeaBack
    <3>5. ASSUME NEW i \in 1..size PROVE qq_decrypt(in, room)[i] = i
      BY <3>2, <3>3, TeaBack
    <3>6. QED
      BY <3>1, <3>4, <3>5
  <2>13. dec # <<>>
    BY <1>3, <2>12
  <2>14. d(dec) = size
    BY <2>12, <2>13
  <2> HIDE DEF d
  <2>15. size <= Len(dec) /\ size <= size /\ size + 4 <= Len(buffer.chunk)
    BY <1>3, <2>3, <2>7, <2>12
  <2>16. PICK r : r = Opened(dec, size)
    OBVIOUS
  <2>17. r \in Buffers /\ r.used = size /\ Used(r) = [i \in 1..size |-> i]
    <3>1. buffer \in Buffers /\ size \in Nat /\ dec \in Seq(Code)
      BY <1>3, <2>12
    <3>2. Fits(dec, size, size)
      BY <2>2, <2>12, <2>15 DEF Fits
    <3>3. QED
      BY <2>16, <3>1, <3>2, OpenedFacts
  <2>18. buffer' = r
    BY <2>6, <2>14, <2>16
  <2>19. buffer'.used <= tea_room(g)
    BY <2>10, <2>17, <2>18
  <2>20. legal'
    BY <1>2, <2>6, <2>19
  <2>21. QED
    BY <2>17, <2>18, <2>20
<1>8. QED
  BY <1>2, <1>5, <1>6, <1>7

(***************************************************************************)
(* A body of any size comes out of rpc_buffer_decrypt as it went into      *)
(* rpc_buffer_encrypt, under every cipher, and no copy leaves its memory.  *)
(***************************************************************************)
THEOREM CryptIsRoundTrip == CryptSpec => []CryptRoundTrip
<1>1. CryptInv /\ [CryptNext]_cryptVars => CryptInv'
  <2> SUFFICES ASSUME CryptInv, [CryptNext]_cryptVars PROVE CryptInv'
    OBVIOUS
  <2>1. CASE UNCHANGED cryptVars
    BY <2>1 DEF cryptVars, CryptInv, CryptRoundTrip, Used
  <2>2. QED
    BY <2>1, CryptClone, CryptEncrypt, CryptSendStep, CryptReceiveStep, CryptDecrypt DEF CryptNext
<1>2. CryptInv => CryptRoundTrip
  BY DEF CryptInv
<1>3. QED
  BY <1>1, <1>2, CryptInitInv, PTL DEF CryptSpec

-----------------------------------------------------------------------------
(* The ring buffer (RpcWire) *)

(* y places on from place x, in a ring of c *)
Around(c, x, y) == IF x + y < c THEN x + y ELSE x + y - c

(* A sum modulo the capacity, without a modulo *)
LEMMA SumAround ==
  ASSUME NEW c \in Nat \ {0}, NEW x \in 0..(c - 1), NEW y \in 0..c
  PROVE  (x + y) % c = Around(c, x, y) /\ Around(c, x, y) \in 0..(c - 1)
BY DEF Around

(* The same for the place of a byte of the ring *)
LEMMA PlaceAround ==
  ASSUME NEW c \in Nat \ {0}, NEW x \in 0..(c - 1), NEW y \in 1..c
  PROVE  (x + y - 1) % c = Around(c, x, y - 1) /\ Around(c, x, y - 1) \in 0..(c - 1)
BY DEF Around

(* Going on twice, and places that differ *)
LEMMA AroundTwice ==
  ASSUME NEW c \in Nat \ {0}, NEW x \in 0..(c - 1), NEW m \in Nat, NEW n \in Nat, m + n < c
  PROVE  Around(c, Around(c, x, m), n) = Around(c, x, m + n)
BY DEF Around

(* Bytes of the ring lie at different places. *)
LEMMA AroundDiffers ==
  ASSUME NEW c \in Nat \ {0}, NEW x \in 0..(c - 1), NEW m \in 0..(c - 1), NEW n \in 0..(c - 1),
         Around(c, x, m) = Around(c, x, n)
  PROVE  m = n
BY DEF Around

OneByte == Nat \X Nat

Rings(c) == [cell : [0..(c - 1) -> OneByte], head : 0..(c - 1), tail : 0..(c - 1), capacity : {c}]

(* The place of the i-th byte that can be read *)
Place(b, i) == (b.head + i - 1) % b.capacity

(* Where the i-th byte of a ring lies *)
LEMMA PlaceIs ==
  ASSUME NEW c \in Nat \ {0}, NEW b \in Rings(c), NEW i \in 1..c
  PROVE  Place(b, i) = Around(c, b.head, i - 1) /\ Place(b, i) \in 0..(c - 1)
<1>1. b.head \in 0..(c - 1) /\ b.capacity = c
  BY DEF Rings
<1>2. QED
  BY <1>1, PlaceAround DEF Place

(* How much can be read, and where the next byte goes *)
LEMMA RingRead ==
  ASSUME NEW c \in Nat \ {0}, NEW b \in Rings(c)
  PROVE  /\ rpc_rb_can_read(b) \in 0..(c - 1)
         /\ b.tail = Around(c, b.head, rpc_rb_can_read(b))
         /\ rpc_rb_can_write(b) = c - rpc_rb_can_read(b)
<1>1. b.head \in 0..(c - 1) /\ b.tail \in 0..(c - 1) /\ b.capacity = c
  BY DEF Rings
<1>2. rpc_rb_can_read(b) \in 0..(c - 1)
  BY <1>1 DEF rpc_rb_can_read
<1>3. b.tail = Around(c, b.head, rpc_rb_can_read(b))
  BY <1>1 DEF rpc_rb_can_read, Around
<1>4. QED
  BY <1>1, <1>2, <1>3 DEF rpc_rb_can_write

(* The other way round *)
LEMMA RingUsed ==
  ASSUME NEW c \in Nat \ {0}, NEW b \in Rings(c), NEW n \in 0..(c - 1), b.tail = Around(c, b.head, n)
  PROVE  rpc_rb_can_read(b) = n
<1>1. b.head \in 0..(c - 1) /\ b.tail \in 0..(c - 1) /\ b.capacity = c
  BY DEF Rings
<1>2. QED
  BY <1>1 DEF rpc_rb_can_read, Around

(* A read of n bytes *)
LEMMA RingAdvance ==
  ASSUME NEW c \in Nat \ {0}, NEW b \in Rings(c), NEW n \in 0..rpc_rb_can_read(b)
  PROVE  /\ Advanced(b, n) \in Rings(c)
         /\ rpc_rb_can_read(Advanced(b, n)) = rpc_rb_can_read(b) - n
         /\ Advanced(b, n).cell = b.cell
         /\ \A i \in 1..(rpc_rb_can_read(b) - n) : Place(Advanced(b, n), i) = Place(b, n + i)
<1> DEFINE used == rpc_rb_can_read(b)
           a == Advanced(b, n)
<1>1. b.head \in 0..(c - 1) /\ b.tail \in 0..(c - 1) /\ b.capacity = c
  BY DEF Rings
<1>2. used \in 0..(c - 1) /\ b.tail = Around(c, b.head, used)
  BY RingRead
<1>3. n \in 0..used
  OBVIOUS
<1>4. a = [b EXCEPT !.head = (b.head + n) % c]
  BY <1>1 DEF Advanced
<1> HIDE DEF used, a
<1>5. n \in 0..c /\ n \in 0..(c - 1)
  BY <1>2, <1>3
<1>6. (b.head + n) % c = Around(c, b.head, n) /\ Around(c, b.head, n) \in 0..(c - 1)
  BY <1>1, <1>5, SumAround
<1>7. a \in Rings(c) /\ a.head = Around(c, b.head, n) /\ a.tail = b.tail /\ a.cell = b.cell
  BY <1>1, <1>4, <1>6 DEF Rings
<1>8. rpc_rb_can_read(a) = used - n
  <2>1. used - n \in 0..(c - 1) /\ used - n \in Nat /\ n \in Nat /\ n + (used - n) = used /\ used < c
    BY <1>2, <1>3
  <2>2. a.tail = Around(c, a.head, used - n)
    BY <1>1, <1>2, <1>7, <2>1, AroundTwice
  <2>3. QED
    BY <1>7, <2>1, <2>2, RingUsed
<1>9. ASSUME NEW i \in 1..(used - n) PROVE Place(a, i) = Place(b, n + i)
  <2>1. i \in 1..c /\ n + i \in 1..c /\ i - 1 \in Nat /\ n \in Nat /\ n + (i - 1) < c /\ n + (i - 1) = (n + i) - 1
    BY <1>2, <1>3
  <2>2. Place(a, i) = Around(c, a.head, i - 1) /\ Place(b, n + i) = Around(c, b.head, (n + i) - 1)
    BY <1>7, <2>1, PlaceIs
  <2>3. Around(c, Around(c, b.head, n), i - 1) = Around(c, b.head, n + (i - 1))
    BY <1>1, <2>1, AroundTwice
  <2>4. QED
    BY <1>7, <2>1, <2>2, <2>3
<1>10. QED
  BY <1>7, <1>8, <1>9 DEF used, a

(* A write of data for which there is room *)
LEMMA RingWrite ==
  ASSUME NEW c \in Nat \ {0}, NEW b \in Rings(c), NEW data \in Seq(OneByte),
         Len(data) < c - rpc_rb_can_read(b)
  PROVE  LET used == rpc_rb_can_read(b) w == Written(b, data)
         IN  /\ w \in Rings(c) /\ rpc_rb_can_read(w) = used + Len(data)
             /\ \A i \in 1..used : w.cell[Place(w, i)] = b.cell[Place(b, i)]
             /\ \A i \in 1..Len(data) : w.cell[Place(w, used + i)] = data[i]
<1> DEFINE used == rpc_rb_can_read(b)
           w == Written(b, data)
           n == Len(data)
           at(i) == (b.tail + i - 1) % c
<1>1. b.head \in 0..(c - 1) /\ b.tail \in 0..(c - 1) /\ b.capacity = c /\ b.cell \in [0..(c - 1) -> OneByte]
  BY DEF Rings
<1>2. used \in 0..(c - 1) /\ b.tail = Around(c, b.head, used)
  BY RingRead
<1>3. n \in Nat /\ used + n < c
  BY <1>2
<1>4. w = [b EXCEPT !.cell = [x \in DOMAIN b.cell |->
                            IF \E i \in 1..n : at(i) = x THEN data[CHOOSE i \in 1..n : at(i) = x] ELSE b.cell[x]],
                    !.tail = at(n + 1)]
  BY <1>1 DEF Written
<1>5. \A i \in 1..n : data[i] \in OneByte
  OBVIOUS
<1> HIDE DEF used, w, n
<1>6. ASSUME NEW i \in 1..n + 1
      PROVE  at(i) = Around(c, b.head, used + (i - 1)) /\ at(i) \in 0..(c - 1) /\ used + (i - 1) \in 0..(c - 1)
  <2>1. i \in 1..c /\ i - 1 \in Nat /\ used \in Nat /\ used + (i - 1) < c
    BY <1>2, <1>3
  <2>2. at(i) = Around(c, b.tail, i - 1) /\ at(i) \in 0..(c - 1)
    <3>1. b.tail \in 0..(c - 1) /\ i \in 1..c
      BY <1>1, <2>1
    <3>2. \A y \in 0..(c - 1) : (y + i - 1) % c = Around(c, y, i - 1) /\ Around(c, y, i - 1) \in 0..(c - 1)
      BY <3>1, PlaceAround
    <3>3. QED
      BY <3>1, <3>2
  <2>3. Around(c, Around(c, b.head, used), i - 1) = Around(c, b.head, used + (i - 1))
    BY <1>1, <2>1, AroundTwice
  <2>4. QED
    BY <1>2, <2>1, <2>2, <2>3
<1> HIDE DEF at
<1>7. 1..n \subseteq 1..n + 1 /\ n + 1 \in 1..n + 1
  BY <1>3
<1>8. ASSUME NEW i \in 1..n, NEW j \in 1..n, at(i) = at(j) PROVE i = j
  <2>1. used + (i - 1) = used + (j - 1)
    BY <1>1, <1>6, <1>7, <1>8, AroundDiffers
  <2>2. QED
    BY <1>2, <1>3, <2>1
<1> DEFINE cells == [x \in 0..(c - 1) |->
                       IF \E i \in 1..n : at(i) = x THEN data[CHOOSE i \in 1..n : at(i) = x] ELSE b.cell[x]]
<1>9. cells \in [0..(c - 1) -> OneByte]
  <2>1. ASSUME NEW x \in 0..(c - 1), \E i \in 1..n : at(i) = x
        PROVE  data[CHOOSE i \in 1..n : at(i) = x] \in OneByte
    BY <1>5, <2>1
  <2>2. QED
    BY <1>1, <2>1
<1>10. ASSUME NEW i \in 1..n PROVE cells[at(i)] = data[i]
  <2>1. at(i) \in 0..(c - 1)
    BY <1>6, <1>7
  <2>2. (CHOOSE k \in 1..n : at(k) = at(i)) = i
    BY <1>8
  <2>3. QED
    BY <2>1, <2>2
<1>11. \A x \in 0..(c - 1) : (\A i \in 1..n : at(i) # x) => cells[x] = b.cell[x]
  OBVIOUS
<1>12. w = [b EXCEPT !.cell = cells, !.tail = at(n + 1)]
  BY <1>1, <1>4
<1> HIDE DEF cells
<1>13. /\ w.cell = cells /\ w.tail = at(n + 1) /\ w.head = b.head /\ w \in Rings(c)
  <2>1. at(n + 1) \in 0..(c - 1)
    BY <1>6, <1>7
  <2>2. QED
    BY <1>1, <1>9, <1>12, <2>1 DEF Rings
<1>14. rpc_rb_can_read(w) = used + n
  <2>1. used + ((n + 1) - 1) = used + n /\ used + n \in 0..(c - 1)
    BY <1>2, <1>3
  <2>2. w.tail = Around(c, w.head, used + n)
    BY <1>6, <1>7, <1>13, <2>1
  <2>3. QED
    BY <1>13, <2>1, <2>2, RingUsed
<1>15. ASSUME NEW i \in 1..used PROVE w.cell[Place(w, i)] = b.cell[Place(b, i)]
  <2>1. i \in 1..c /\ i - 1 \in 0..(c - 1)
    BY <1>2
  <2>2. Place(w, i) = Around(c, b.head, i - 1) /\ Place(b, i) = Around(c, b.head, i - 1) /\ Place(b, i) \in 0..(c - 1)
    BY <1>13, <2>1, PlaceIs
  <2>3. ASSUME NEW j \in 1..n PROVE at(j) # Place(b, i)
    <3>1. at(j) = Around(c, b.head, used + (j - 1)) /\ used + (j - 1) \in 0..(c - 1)
      BY <1>6, <1>7
    <3>2. used + (j - 1) # i - 1
      BY <1>2, <1>3
    <3>3. QED
      BY <1>1, <2>1, <2>2, <3>1, <3>2, AroundDiffers
  <2>4. QED
    BY <1>11, <1>13, <2>2, <2>3
<1>16. ASSUME NEW i \in 1..n PROVE w.cell[Place(w, used + i)] = data[i]
  <2>1. used + i \in 1..c /\ (used + i) - 1 = used + (i - 1)
    BY <1>2, <1>3
  <2>2. Place(w, used + i) = at(i)
    BY <1>6, <1>7, <1>13, <2>1, PlaceIs
  <2>3. QED
    BY <1>10, <1>13, <2>2
<1>17. QED
  BY <1>13, <1>14, <1>15, <1>16 DEF used, w, n

(* The larger buffer has the same bytes, and room for n more. *)
LEMMA RingGrown ==
  ASSUME NEW c \in Nat \ {0}, NEW b \in Rings(c), NEW n \in Nat
  PROVE  LET used == rpc_rb_can_read(b) g == Grown(b, n)
         IN  /\ used + n + Grow \in Nat \ {0} /\ g \in Rings(used + n + Grow)
             /\ rpc_rb_can_read(g) = used
             /\ \A i \in 1..used : g.cell[Place(g, i)] = b.cell[Place(b, i)]
<1> DEFINE used == rpc_rb_can_read(b)
           g == Grown(b, n)
           d == used + n + Grow
<1>1. used \in 0..(c - 1) /\ b.capacity = c /\ b.cell \in [0..(c - 1) -> OneByte]
  BY RingRead DEF Rings
<1>2. g = [cell |-> [i \in 0..(d - 1) |-> IF i < used THEN Bytes(b, used)[i + 1] ELSE Old],
           head |-> 0, tail |-> used, capacity |-> d]
  BY DEF Grown
<1> HIDE DEF used, g
<1>3. d \in Nat \ {0} /\ used \in 0..(d - 1) /\ 0 \in 0..(d - 1) /\ used < d
  BY <1>1, SizesAssumption
<1>4. ASSUME NEW i \in 1..used PROVE Bytes(b, used)[i] = b.cell[Place(b, i)] /\ Bytes(b, used)[i] \in OneByte
  <2>1. i \in 1..c
    BY <1>1
  <2>2. Bytes(b, used)[i] = b.cell[Place(b, i)]
    BY <1>1 DEF Bytes, Place
  <2>3. QED
    BY <1>1, <2>1, <2>2, PlaceIs
<1> HIDE DEF d
<1> DEFINE cells == [i \in 0..(d - 1) |-> IF i < used THEN Bytes(b, used)[i + 1] ELSE Old]
<1>5. cells \in [0..(d - 1) -> OneByte]
  <2>1. ASSUME NEW i \in 0..(d - 1), i < used PROVE Bytes(b, used)[i + 1] \in OneByte
    <3>1. i + 1 \in 1..used
      BY <1>1, <1>3, <2>1
    <3>2. QED
      BY <1>4, <3>1
  <2>2. Old \in OneByte
    BY DEF Old, OneByte
  <2>3. QED
    BY <2>1, <2>2
<1>6. g \in Rings(d) /\ g.head = 0 /\ g.tail = used /\ g.cell = cells
  <2>1. g = [cell |-> cells, head |-> 0, tail |-> used, capacity |-> d]
    BY <1>2
  <2> HIDE DEF cells
  <2>2. QED
    BY <1>3, <1>5, <2>1 DEF Rings
<1>7. rpc_rb_can_read(g) = used
  <2>1. Around(d, 0, used) = used
    BY <1>1, <1>3 DEF Around
  <2>2. QED
    BY <1>3, <1>6, <2>1, RingUsed
<1>8. ASSUME NEW i \in 1..used PROVE g.cell[Place(g, i)] = b.cell[Place(b, i)]
  <2>1. i \in 1..d /\ i - 1 \in 0..(d - 1) /\ i - 1 < used /\ (i - 1) + 1 = i
    BY <1>1, <1>3
  <2>2. Around(d, 0, i - 1) = i - 1
    BY <1>3, <2>1 DEF Around
  <2>3. Place(g, i) = i - 1
    BY <1>3, <1>6, <2>1, <2>2, PlaceIs
  <2>4. cells[i - 1] = Bytes(b, used)[i]
    BY <2>1
  <2>5. QED
    BY <1>4, <1>6, <2>3, <2>4
<1>9. QED
  BY <1>3, <1>6, <1>7, <1>8 DEF used, g, d

-----------------------------------------------------------------------------
(* The stream of packets (RpcWire) *)

Readable == rpc_rb_can_read(rb)
Unread == Readable + Len(wire)

(* The i-th byte that was not taken out: in the ring buffer or on the wire *)
ByteAt(i) == IF i <= Readable THEN rb.cell[Place(rb, i)] ELSE wire[i - Readable]

Waiting == Len(got) + 1..Len(sizes)     \* packets that were not given to a processor

(***************************************************************************)
(* off[p] bytes come before packet p: the bytes that were not taken out    *)
(* are those of the waiting packets, one packet behind the other.          *)
(***************************************************************************)
Stream(off) ==
  /\ off[Len(got) + 1] = 0 /\ off[Len(sizes) + 1] = Unread
  /\ \A p \in Waiting : /\ 0 <= off[p] /\ off[p] + Header + sizes[p] <= Unread
                        /\ off[p + 1] = off[p] + Header + sizes[p]
                        /\ \A k \in 1..Header + sizes[p] : ByteAt(off[p] + k) = <<p, k>>
  /\ \A p, q \in Waiting : p < q => off[p] + Header + sizes[p] <= off[q]

Gotten == [shell : Nat, body : Seq(OneByte)]

WireTypes ==
  /\ sizes \in Seq(Bodies) /\ wire \in Seq(OneByte) /\ got \in Seq(Gotten)
  /\ \E c \in Nat \ {0} : rb \in Rings(c)
  /\ Len(got) <= Len(sizes)

(***************************************************************************)
(* The invariant PacketsIntact needs: until the behaviour of the code is   *)
(* undefined or a shell was kept without its body, the ring buffer and the *)
(* wire hold the packets that were not delivered.                          *)
(***************************************************************************)
WireInv ==
  /\ WireTypes
  /\ pc \in {"recv", "loop"} /\ ~cached => \E off \in [1..Len(sizes) + 1 -> Int] : Stream(off)

(* The numbers of a state *)
LEMMA WireNumbers ==
  ASSUME WireTypes
  PROVE  /\ Len(sizes) \in Nat /\ Len(got) \in Nat /\ Len(wire) \in Nat /\ Readable \in Nat
         /\ Unread \in Nat /\ Unread = Readable + Len(wire)
         /\ \A p \in Waiting : p \in 1..Len(sizes) /\ p \in Nat /\ p + 1 \in 1..Len(sizes) + 1 /\ sizes[p] \in Nat
<1>1. Len(sizes) \in Nat /\ Len(got) \in Nat /\ Len(wire) \in Nat
  BY DEF WireTypes
<1>2. PICK c \in Nat \ {0} : rb \in Rings(c)
  BY DEF WireTypes
<1>3. Readable \in Nat
  <2>1. Readable \in 0..(c - 1)
    BY <1>2, RingRead DEF Readable
  <2>2. QED
    BY <2>1
<1>4. ASSUME NEW p \in Waiting PROVE p \in 1..Len(sizes) /\ p \in Nat /\ p + 1 \in 1..Len(sizes) + 1 /\ sizes[p] \in Nat
  <2>1. p \in 1..Len(sizes)
    BY <1>1 DEF Waiting
  <2>2. sizes[p] \in Bodies
    BY <2>1 DEF WireTypes
  <2>3. sizes[p] \in Nat
    BY <2>2, SizesAssumption
  <2>4. p + 1 \in 1..Len(sizes) + 1
    BY <1>1, <2>1
  <2>5. QED
    BY <2>1, <2>3, <2>4
<1>5. QED
  BY <1>1, <1>3, <1>4 DEF Unread

(* Nothing was sent. *)
LEMMA WireInitInv == Init => WireInv
<1> SUFFICES ASSUME Init PROVE WireInv
  OBVIOUS
<1>1. sizes = <<>> /\ wire = <<>> /\ got = <<>> /\ Len(sizes) = 0 /\ Len(wire) = 0 /\ Len(got) = 0
  BY DEF Init
<1>2. rb = [cell |-> [i \in 0..(Grow - 1) |-> Old], head |-> 0, tail |-> 0, capacity |-> Grow]
  BY DEF Init, rpc_rb_new
<1>3. rb \in Rings(Grow)
  <2>1. Old \in OneByte /\ 0 \in 0..(Grow - 1)
    BY SizesAssumption DEF Old, OneByte
  <2>2. QED
    BY <1>2, <2>1 DEF Rings
<1>4. WireTypes
  BY <1>1, <1>3, SizesAssumption DEF WireTypes
<1>5. Readable = 0
  BY <1>2 DEF Readable, rpc_rb_can_read
<1>6. Unread = 0 /\ Waiting = {}
  BY <1>1, <1>5 DEF Unread, Waiting
<1> DEFINE off == [p \in 1..1 |-> 0]
<1>7. off \in [1..Len(sizes) + 1 -> Int] /\ off[1] = 0
  BY <1>1
<1>8. Stream(off)
  BY <1>1, <1>6, <1>7 DEF Stream
<1>9. QED
  BY <1>4, <1>7, <1>8 DEF WireInv

(* A step that leaves the stream alone *)
LEMMA StreamStays ==
  ASSUME WireInv, WireTypes', UNCHANGED <<sizes, got, cached>>,
         pc' \in {"recv", "loop"} => pc \in {"recv", "loop"},
         pc' \in {"recv", "loop"} => Unread' = Unread /\ \A i \in 1..Unread : ByteAt(i)' = ByteAt(i)
  PROVE  WireInv'
<1> SUFFICES ASSUME pc' \in {"recv", "loop"}, ~cached
             PROVE  \E off \in [1..Len(sizes') + 1 -> Int] : Stream(off)'
  BY DEF WireInv
<1>1. PICK off \in [1..Len(sizes) + 1 -> Int] : Stream(off)
  BY DEF WireInv
<1>N. /\ Len(sizes) \in Nat /\ Len(got) \in Nat /\ Unread \in Nat
      /\ \A p \in Waiting : p \in 1..Len(sizes) /\ p + 1 \in 1..Len(sizes) + 1 /\ sizes[p] \in Nat
  BY WireNumbers DEF WireInv
<1>2. Unread' = Unread /\ Waiting' = Waiting /\ \A i \in 1..Unread : ByteAt(i)' = ByteAt(i)
  BY DEF Waiting
<1>3. ASSUME NEW p \in Waiting, NEW k \in 1..Header + sizes[p] PROVE ByteAt(off[p] + k)' = <<p, k>>
  <2>1. off[p] \in Int /\ 0 <= off[p] /\ off[p] + Header + sizes[p] <= Unread /\ ByteAt(off[p] + k) = <<p, k>>
    BY <1>1, <1>N DEF Stream
  <2>2. off[p] + k \in 1..Unread
    <3>1. Header \in Nat /\ sizes[p] \in Nat /\ Unread \in Nat
      BY <1>N, SizesAssumption
    <3>2. QED
      BY <2>1, <3>1
  <2>3. QED
    BY <1>2, <2>1, <2>2
<1>4. Stream(off)'
  <2>1. off[Len(got') + 1] = 0 /\ off[Len(sizes') + 1] = Unread'
    BY <1>1, <1>2 DEF Stream
  <2>2. ASSUME NEW p \in Waiting
        PROVE  /\ 0 <= off[p] /\ off[p] + Header + sizes'[p] <= Unread'
               /\ off[p + 1] = off[p] + Header + sizes'[p]
    BY <1>1, <1>2 DEF Stream
  <2>3. \A p, q \in Waiting : p < q => off[p] + Header + sizes'[p] <= off[q]
    BY <1>1 DEF Stream
  <2>4. QED
    BY <1>2, <1>3, <2>1, <2>2, <2>3 DEF Stream
<1>5. QED
  BY <1>4

(* The ring buffer has a type after every write. *)
LEMMA WriteFacts ==
  ASSUME NEW c \in Nat \ {0}, NEW b \in Rings(c), NEW data \in Seq(OneByte)
  PROVE  LET used == rpc_rb_can_read(b) w == rpc_rb_write(b, data)
         IN  /\ \E d \in Nat \ {0} : w \in Rings(d)
             /\ rpc_rb_can_read(w) = used + Len(data)
             /\ \A i \in 1..used : w.cell[Place(w, i)] = b.cell[Place(b, i)]
             /\ \A i \in 1..Len(data) : w.cell[Place(w, used + i)] = data[i]
<1> DEFINE used == rpc_rb_can_read(b)
           w == rpc_rb_write(b, data)
           g == Grown(b, Len(data))
           d == used + Len(data) + Grow
<1>1. used \in 0..(c - 1) /\ rpc_rb_can_write(b) = c - used /\ Len(data) \in Nat
  BY RingRead
<1>2. CASE MustGrow(b, Len(data))
  <2>1. w = Written(g, data)
    BY <1>2 DEF rpc_rb_write
  <2>2. /\ d \in Nat \ {0} /\ g \in Rings(d) /\ rpc_rb_can_read(g) = used
        /\ \A i \in 1..used : g.cell[Place(g, i)] = b.cell[Place(b, i)]
    BY <1>1, RingGrown
  <2> HIDE DEF w, g
  <2>3. Len(data) < d - rpc_rb_can_read(g)
    BY <1>1, <2>2, SizesAssumption
  <2> HIDE DEF used, d
  <2>4. /\ w \in Rings(d) /\ rpc_rb_can_read(w) = used + Len(data)
        /\ \A i \in 1..used : w.cell[Place(w, i)] = g.cell[Place(g, i)]
        /\ \A i \in 1..Len(data) : w.cell[Place(w, used + i)] = data[i]
    BY <2>1, <2>2, <2>3, RingWrite
  <2>5. QED
    BY <2>2, <2>4 DEF used, w
<1>3. CASE ~MustGrow(b, Len(data))
  <2>1. w = Written(b, data)
    BY <1>3 DEF rpc_rb_write
  <2>2. Len(data) < c - used
    BY <1>1, <1>3 DEF MustGrow
  <2> HIDE DEF w
  <2>3. /\ w \in Rings(c) /\ rpc_rb_can_read(w) = used + Len(data)
        /\ \A i \in 1..used : w.cell[Place(w, i)] = b.cell[Place(b, i)]
        /\ \A i \in 1..Len(data) : w.cell[Place(w, used + i)] = data[i]
    BY <2>1, <2>2, RingWrite
  <2> HIDE DEF used
  <2>4. QED
    BY <2>3 DEF used, w
<1>4. QED
  BY <1>2, <1>3

(* A piece arrives: its bytes come behind those in the buffer. *)
LEMMA ReceiveKeeps ==
  ASSUME WireInv, NEW n \in Nat, Receive(n)
  PROVE  WireInv'
<1> DEFINE data == SubSeq(wire, 1, n)
<1>1. /\ Len(wire) \in Nat /\ Readable \in Nat /\ Unread \in Nat /\ Unread = Readable + Len(wire)
  BY WireNumbers DEF WireInv
<1>2. wire \in Seq(OneByte) /\ n \in Nat /\ n <= Len(wire)
  BY DEF WireInv, WireTypes, Receive
<1>3. /\ wire' \in Seq(OneByte) /\ Len(wire') = Len(wire) - n
      /\ \A i \in 1..Len(wire) - n : wire'[i] = wire[n + i]
  <2>1. wire' = SubSeq(wire, n + 1, Len(wire))
    BY DEF Receive
  <2>2. n + 1 \in 1..Len(wire) + 1 /\ Len(wire) \in n..Len(wire)
    BY <1>1, <1>2
  <2>3. QED
    BY <1>1, <1>2, <2>1, <2>2
<1>4. data \in Seq(OneByte) /\ Len(data) = n /\ \A i \in 1..n : data[i] = wire[i]
  BY <1>1, <1>2
<1> HIDE DEF data
<1>5. PICK c \in Nat \ {0} : rb \in Rings(c)
  BY DEF WireInv, WireTypes
<1>6. CASE MustGrow(rb, n) /\ Crosses(rb, rpc_rb_can_read(rb))
  <2>1. pc' = "undefined" /\ rb' = rb /\ UNCHANGED <<sizes, cached, got>>
    BY <1>6 DEF Receive
  <2>2. WireTypes'
    BY <1>3, <2>1 DEF WireInv, WireTypes
  <2>3. QED
    BY <2>1, <2>2 DEF WireInv
<1>7. CASE ~(MustGrow(rb, n) /\ Crosses(rb, rpc_rb_can_read(rb)))
  <2>1. rb' = rpc_rb_write(rb, data) /\ UNCHANGED <<sizes, cached, got>>
    BY <1>7 DEF Receive, data
  <2>2. /\ \E d \in Nat \ {0} : rb' \in Rings(d)
        /\ rpc_rb_can_read(rb') = rpc_rb_can_read(rb) + Len(data)
        /\ \A i \in 1..rpc_rb_can_read(rb) : rb'.cell[Place(rb', i)] = rb.cell[Place(rb, i)]
        /\ \A i \in 1..Len(data) : rb'.cell[Place(rb', rpc_rb_can_read(rb) + i)] = data[i]
    BY <1>4, <1>5, <2>1, WriteFacts
  <2>3. /\ Readable' = Readable + n
        /\ \A i \in 1..Readable : rb'.cell[Place(rb', i)] = rb.cell[Place(rb, i)]
        /\ \A i \in 1..n : rb'.cell[Place(rb', Readable + i)] = wire[i]
    BY <1>4, <2>2 DEF Readable
  <2>4. WireTypes'
    BY <1>3, <2>1, <2>2 DEF WireInv, WireTypes
  <2>5. Unread' = Unread
    BY <1>1, <1>2, <1>3, <2>3 DEF Unread
  <2>6. ASSUME NEW i \in 1..Unread PROVE ByteAt(i)' = ByteAt(i)
    <3>1. CASE i <= Readable
      BY <1>1, <1>2, <2>3, <3>1 DEF ByteAt
    <3>2. CASE i > Readable /\ i <= Readable + n
      <4>1. i - Readable \in 1..n /\ Readable + (i - Readable) = i /\ ~(i <= Readable)
        BY <1>1, <1>2, <3>2
      <4>2. rb'.cell[Place(rb', i)] = wire[i - Readable]
        BY <2>3, <4>1
      <4>3. QED
        BY <2>3, <3>2, <4>1, <4>2 DEF ByteAt
    <3>3. CASE i > Readable + n
      <4>1. /\ i - (Readable + n) \in 1..Len(wire) - n /\ n + (i - (Readable + n)) = i - Readable
            /\ ~(i <= Readable) /\ ~(i <= Readable + n)
        BY <1>1, <1>2, <3>3
      <4>2. wire'[i - (Readable + n)] = wire[i - Readable]
        BY <1>3, <4>1
      <4>3. QED
        BY <2>3, <4>1, <4>2 DEF ByteAt
    <3>4. QED
      BY <1>1, <1>2, <3>1, <3>2, <3>3
  <2>7. pc \in {"recv", "loop"}
    BY DEF Receive
  <2>8. QED
    BY <2>1, <2>4, <2>5, <2>6, <2>7, StreamStays
<1>8. QED
  BY <1>6, <1>7

(* A packet is sent: its bytes come behind all others. *)
LEMMA SendKeeps ==
  ASSUME WireInv, NEW sz \in Bodies, Send(sz)
  PROVE  WireInv'
<1> DEFINE m == Len(sizes) + 1
           pkt == Packet(m, sz)
<1>1. /\ Len(sizes) \in Nat /\ Len(got) \in Nat /\ Len(wire) \in Nat /\ Readable \in Nat
      /\ Unread \in Nat /\ Unread = Readable + Len(wire)
  BY WireNumbers DEF WireInv
<1>2. sz \in Nat /\ Header \in Nat /\ Header + sz \in Nat
  BY SizesAssumption
<1>3. pkt \in Seq(OneByte) /\ Len(pkt) = Header + sz /\ \A k \in 1..Header + sz : pkt[k] = <<m, k>>
  <2>1. \A k \in 1..(Header + sz) : <<m, k>> \in OneByte
    BY <1>1, <1>2 DEF OneByte
  <2>2. pkt = [i \in 1..(Header + sz) |-> <<m, i>>]
    BY DEF Packet
  <2> HIDE DEF pkt
  <2>3. pkt \in [1..(Header + sz) -> OneByte]
    BY <2>1, <2>2
  <2>4. pkt \in Seq(OneByte) /\ Len(pkt) = Header + sz
    BY <1>2, <2>3, LenProperties
  <2>5. QED
    BY <2>2, <2>4
<1> HIDE DEF pkt
<1>4. sizes \in Seq(Bodies) /\ wire \in Seq(OneByte)
  BY DEF WireInv, WireTypes
<1>5. /\ sizes' \in Seq(Bodies) /\ Len(sizes') = m /\ sizes'[m] = sz
      /\ \A p \in 1..Len(sizes) : sizes'[p] = sizes[p]
  <2>1. sizes' = Append(sizes, sz)
    BY DEF Send
  <2>2. QED
    BY <1>1, <1>4, <2>1
<1>6. /\ wire' \in Seq(OneByte) /\ Len(wire') = Len(wire) + (Header + sz)
      /\ \A i \in 1..Len(wire) : wire'[i] = wire[i]
      /\ \A k \in 1..Header + sz : wire'[Len(wire) + k] = <<m, k>>
  <2>1. wire' = wire \o pkt
    BY DEF Send, pkt
  <2>2. wire' \in Seq(OneByte) /\ Len(wire') = Len(wire) + Len(pkt)
    BY <1>3, <1>4, <2>1, ConcatProperties
  <2>3. \A i \in 1..Len(wire) + Len(pkt) : wire'[i] = IF i <= Len(wire) THEN wire[i] ELSE pkt[i - Len(wire)]
    BY <1>3, <1>4, <2>1, ConcatProperties
  <2>4. ASSUME NEW i \in 1..Len(wire) PROVE wire'[i] = wire[i]
    BY <1>1, <1>2, <1>3, <2>3
  <2>5. ASSUME NEW k \in 1..Header + sz PROVE wire'[Len(wire) + k] = <<m, k>>
    <3>1. /\ Len(wire) + k \in 1..Len(wire) + Len(pkt) /\ ~(Len(wire) + k <= Len(wire))
          /\ (Len(wire) + k) - Len(wire) = k
      BY <1>1, <1>2, <1>3
    <3>2. QED
      BY <1>3, <2>3, <3>1
  <2>6. QED
    BY <1>3, <2>2, <2>4, <2>5
<1>7. UNCHANGED <<rb, cached, got, pc>>
  BY DEF Send
<1>8. WireTypes'
  <2>1. Len(got') <= Len(sizes')
    BY <1>1, <1>5, <1>7 DEF WireInv, WireTypes
  <2>2. QED
    BY <1>5, <1>6, <1>7, <2>1 DEF WireInv, WireTypes
<1> SUFFICES ASSUME pc' \in {"recv", "loop"}, ~cached'
             PROVE  \E off \in [1..Len(sizes') + 1 -> Int] : Stream(off)'
  BY <1>8 DEF WireInv
<1>9. PICK off \in [1..Len(sizes) + 1 -> Int] : Stream(off)
  BY <1>7 DEF WireInv
<1> DEFINE next == [p \in 1..m + 1 |-> IF p = m + 1 THEN Unread + (Header + sz) ELSE off[p]]
<1>a. /\ next \in [1..Len(sizes') + 1 -> Int] /\ next[m + 1] = Unread + (Header + sz)
       /\ \A p \in 1..m : next[p] = off[p] /\ off[p] \in Int
  <2>1. 1..m = 1..Len(sizes) + 1 /\ m \in Nat /\ Unread + (Header + sz) \in Int
    BY <1>1, <1>2
  <2>2. \A p \in 1..m : off[p] \in Int
    BY <2>1
  <2>3. \A p \in 1..m + 1 : p # m + 1 => p \in 1..m
    BY <2>1
  <2>4. m + 1 \in 1..m + 1 /\ \A p \in 1..m : p \in 1..m + 1 /\ p # m + 1
    BY <2>1
  <2> HIDE DEF m
  <2>5. next \in [1..m + 1 -> Int]
    BY <2>1, <2>2, <2>3
  <2>6. QED
    BY <1>5, <2>2, <2>4, <2>5
<1> HIDE DEF next
<1>10. PICK new \in [1..Len(sizes') + 1 -> Int] :
         /\ new[m + 1] = Unread + (Header + sz)
         /\ \A p \in 1..m : new[p] = off[p] /\ off[p] \in Int
  BY <1>a
<1>b. PICK u \in Nat : u = Unread
  BY <1>1
<1>11. Readable' = Readable /\ Unread' = Unread + (Header + sz)
  BY <1>1, <1>2, <1>6, <1>7 DEF Readable, Unread
<1>12. ASSUME NEW i \in 1..Unread PROVE ByteAt(i)' = ByteAt(i)
  <2>1. ~(i <= Readable) => i - Readable \in 1..Len(wire)
    BY <1>1
  <2>2. QED
    BY <1>6, <1>7, <1>11, <2>1 DEF ByteAt
<1>13. ASSUME NEW k \in 1..Header + sz PROVE ByteAt(u + k)' = <<Len(sizes) + 1, k>>
  <2>1. ~(u + k <= Readable) /\ (u + k) - Readable = Len(wire) + k
    BY <1>1, <1>2, <1>b
  <2>2. QED
    BY <1>6, <1>7, <1>11, <2>1 DEF ByteAt
<1>14. /\ m \in Nat /\ m \in 1..m /\ Len(got) <= Len(sizes) /\ Len(got) + 1 \in 1..m
       /\ \A p \in Waiting' : p \in 1..m /\ (p = m \/ p \in Waiting)
       /\ \A p \in Waiting : p \in 1..Len(sizes) /\ p \in 1..m /\ p + 1 \in 1..m /\ p # m
  <2>1. Len(got) <= Len(sizes)
    BY DEF WireInv, WireTypes
  <2>2. Waiting' = Len(got) + 1..m /\ Waiting = Len(got) + 1..Len(sizes)
    BY <1>5, <1>7 DEF Waiting
  <2>3. QED
    BY <1>1, <2>1, <2>2
<1>15. off[m] = Unread /\ off[Len(got) + 1] = 0
  BY <1>9 DEF Stream
<1>16. ASSUME NEW p \in Waiting
       PROVE  /\ sizes[p] \in Nat /\ sizes'[p] = sizes[p] /\ new[p] = off[p] /\ new[p + 1] = off[p + 1]
              /\ off[p] \in Int /\ 0 <= off[p] /\ off[p] + Header + sizes[p] <= Unread
              /\ off[p + 1] = off[p] + Header + sizes[p]
              /\ \A k \in 1..Header + sizes[p] : ByteAt(off[p] + k) = <<p, k>>
  <2>1. sizes[p] \in Nat
    BY WireNumbers DEF WireInv
  <2>2. sizes'[p] = sizes[p] /\ new[p] = off[p] /\ new[p + 1] = off[p + 1] /\ off[p] \in Int
    BY <1>5, <1>10, <1>14
  <2>3. QED
    BY <1>9, <2>1, <2>2 DEF Stream
<1>17. ASSUME NEW p \in Waiting'
       PROVE  /\ 0 <= new[p] /\ new[p] + Header + sizes'[p] <= Unread'
              /\ new[p + 1] = new[p] + Header + sizes'[p]
              /\ \A k \in 1..Header + sizes'[p] : ByteAt(new[p] + k)' = <<p, k>>
  <2>1. CASE p = m
    <3>1. new[p] = u /\ sizes'[p] = sz /\ new[p + 1] = u + (Header + sz)
      BY <1>5, <1>b, <1>10, <1>14, <1>15, <2>1
    <3>2. u + (Header + sz) = u + Header + sz /\ 0 <= u /\ Unread' = u + Header + sz
      BY <1>2, <1>b, <1>11
    <3>3. \A k \in 1..Header + sz : ByteAt(new[p] + k)' = <<p, k>>
      BY <1>13, <2>1, <3>1
    <3>4. 0 <= new[p] /\ new[p] + Header + sizes'[p] <= Unread' /\ new[p + 1] = new[p] + Header + sizes'[p]
      BY <1>2, <3>1, <3>2
    <3>5. QED
      BY <3>1, <3>3, <3>4
  <2>2. CASE p \in Waiting
    <3>1. /\ sizes'[p] = sizes[p] /\ new[p] = off[p] /\ new[p + 1] = off[p + 1]
          /\ sizes[p] \in Nat /\ off[p] \in Int /\ 0 <= off[p] /\ off[p] + Header + sizes[p] <= Unread
          /\ off[p + 1] = off[p] + Header + sizes[p]
          /\ \A k \in 1..Header + sizes[p] : ByteAt(off[p] + k) = <<p, k>>
      BY <1>16, <2>2
    <3>2. ASSUME NEW k \in 1..Header + sizes[p] PROVE off[p] + k \in 1..Unread
      <4>1. /\ off[p] \in Int /\ 0 <= off[p] /\ sizes[p] \in Nat /\ Header \in Nat /\ Unread \in Nat
            /\ off[p] + Header + sizes[p] <= Unread
        BY <1>1, <1>2, <3>1
      <4>2. QED
        BY <4>1, SMTT(20)
    <3>3. \A k \in 1..Header + sizes[p] : ByteAt(new[p] + k)' = <<p, k>>
      BY <1>12, <3>1, <3>2
    <3>4. off[p] + Header + sizes[p] <= Unread'
      <4>1. off[p] \in Int /\ Header \in Nat /\ sizes[p] \in Nat /\ Unread \in Nat /\ Header + sz \in Nat
        BY <1>1, <1>2, <3>1
      <4>2. off[p] + Header + sizes[p] <= Unread /\ Unread' = Unread + (Header + sz)
        BY <1>11, <3>1
      <4>3. QED
        BY <4>1, <4>2
    <3>5. QED
      BY <3>1, <3>3, <3>4
  <2>3. QED
    BY <1>14, <2>1, <2>2
<1>18. ASSUME NEW p \in Waiting', NEW q \in Waiting', p < q
       PROVE  new[p] + Header + sizes'[p] <= new[q]
  <2>1. p \in Waiting /\ p \in 1..m /\ q \in 1..m
    BY <1>14, <1>18
  <2>2. CASE q = m
    <3>1. new[q] = Unread
      BY <1>10, <1>14, <1>15, <2>2
    <3>2. QED
      BY <1>16, <2>1, <3>1
  <2>3. CASE q \in Waiting
    <3>1. off[p] + Header + sizes[p] <= off[q]
      BY <1>9, <1>18, <2>1, <2>3 DEF Stream
    <3>2. QED
      BY <1>16, <2>1, <2>3, <3>1
  <2>4. QED
    BY <1>14, <2>2, <2>3
<1>19. new[Len(got') + 1] = 0 /\ new[Len(sizes') + 1] = Unread'
  BY <1>5, <1>7, <1>10, <1>11, <1>14, <1>15
<1>20. Stream(new)'
  BY <1>17, <1>18, <1>19 DEF Stream
<1>21. QED
  BY <1>10, <1>20

(* The bytes of a read are the first of the stream. *)
LEMMA ReadBytes ==
  ASSUME NEW c \in Nat \ {0}, NEW b \in Rings(c), NEW n \in 0..rpc_rb_can_read(b)
  PROVE  /\ Bytes(b, n) \in Seq(OneByte) /\ Len(Bytes(b, n)) = n
         /\ Bytes(b, n) = [i \in 1..n |-> b.cell[Place(b, i)]]
<1>1. rpc_rb_can_read(b) \in 0..(c - 1) /\ b.cell \in [0..(c - 1) -> OneByte]
  BY RingRead DEF Rings
<1>2. n \in Nat /\ \A i \in 1..n : i \in 1..c
  BY <1>1
<1>3. Bytes(b, n) = [i \in 1..n |-> b.cell[Place(b, i)]]
  BY DEF Bytes, Place
<1>4. \A i \in 1..n : b.cell[Place(b, i)] \in OneByte
  BY <1>1, <1>2, PlaceIs
<1>5. Bytes(b, n) \in [1..n -> OneByte]
  BY <1>3, <1>4
<1>6. QED
  BY <1>2, <1>3, <1>5, LenProperties

(***************************************************************************)
(* What a turn of the loop finds: the shell is that of the next packet,    *)
(* and when its body is there, the processor gets the whole packet.        *)
(***************************************************************************)
LEMMA LoopFinds ==
  ASSUME WireInv, Loop
  PROVE  /\ Len(got) + 1 \in Waiting
         /\ Shell(Bytes(rb, Header)) = Len(got) + 1
         /\ LET rest == Advanced(rb, Header) sz == sizes[Len(got) + 1]
            IN  rpc_rb_can_read(rest) >= sz
                => Bytes(rest, sz) = Whole(Len(got) + 1, sz).body
<1> DEFINE m == Len(got) + 1
           rest == Advanced(rb, Header)
           sz == sizes[m]
<1>0. pc = "loop" /\ ~cached /\ Readable >= Header
  BY DEF Loop, Readable
<1>1. /\ Len(sizes) \in Nat /\ Len(got) \in Nat /\ Len(wire) \in Nat /\ Readable \in Nat
      /\ Unread \in Nat /\ Unread = Readable + Len(wire)
  BY WireNumbers DEF WireInv
<1>2. Header \in Nat /\ Header >= 1 /\ Len(got) <= Len(sizes)
  BY SizesAssumption DEF WireInv, WireTypes
<1>3. PICK off \in [1..Len(sizes) + 1 -> Int] : Stream(off)
  BY <1>0 DEF WireInv
<1>4. PICK c \in Nat \ {0} : rb \in Rings(c)
  BY DEF WireInv, WireTypes
<1>5. m \in Waiting
  <2>1. off[m] = 0 /\ off[Len(sizes) + 1] = Unread
    BY <1>3 DEF Stream
  <2>2. m # Len(sizes) + 1
    BY <1>0, <1>1, <1>2, <2>1
  <2>3. QED
    BY <1>1, <1>2, <2>2 DEF Waiting
<1>6. m \in 1..Len(sizes) /\ m \in Nat /\ m # 0 /\ sz \in Nat
  BY <1>1, <1>5, WireNumbers DEF WireInv
<1>7. \A k \in 1..Header + sz : ByteAt(k) = <<m, k>>
  <2>1. off[m] = 0 /\ \A k \in 1..Header + sizes[m] : ByteAt(off[m] + k) = <<m, k>>
    BY <1>3, <1>5 DEF Stream
  <2>2. \A k \in 1..Header + sz : 0 + k = k
    BY <1>2, <1>6
  <2>3. QED
    BY <2>1, <2>2
<1> HIDE DEF sz
<1>8. \A k \in 1..Header + sz : k <= Readable => rb.cell[Place(rb, k)] = <<m, k>>
  BY <1>7 DEF ByteAt
<1> HIDE DEF m
<1>9. Header \in 0..rpc_rb_can_read(rb) /\ rpc_rb_can_read(rb) \in Nat
  BY <1>0, <1>1, <1>2 DEF Readable
<1>10. Bytes(rb, Header) = [i \in 1..Header |-> <<m, i>>]
  <2>1. Bytes(rb, Header) = [i \in 1..Header |-> rb.cell[Place(rb, i)]]
    BY <1>4, <1>9, ReadBytes
  <2>2. \A i \in 1..Header : i \in 1..Header + sz /\ i <= Readable
    BY <1>0, <1>1, <1>2, <1>6
  <2>3. QED
    BY <1>8, <2>1, <2>2
<1>11. Shell(Bytes(rb, Header)) = m
  <2>1. 1 \in 1..Header
    BY <1>2
  <2>2. \E p \in 1..Len(sizes) : Bytes(rb, Header) = [i \in 1..Header |-> <<p, i>>]
    BY <1>6, <1>10
  <2>3. Bytes(rb, Header)[1][1] = m
    BY <1>10, <2>1
  <2>4. QED
    BY <2>2, <2>3 DEF Shell
<1>12. ASSUME rpc_rb_can_read(rest) >= sz
       PROVE  Bytes(rest, sz) = Whole(m, sz).body
  <2>1. /\ rest \in Rings(c) /\ rpc_rb_can_read(rest) = rpc_rb_can_read(rb) - Header
        /\ rest.cell = rb.cell
        /\ \A i \in 1..(rpc_rb_can_read(rb) - Header) : Place(rest, i) = Place(rb, Header + i)
    BY <1>4, <1>9, RingAdvance
  <2> HIDE DEF rest
  <2>2. sz \in 0..rpc_rb_can_read(rest) /\ Header + sz <= Readable
    BY <1>2, <1>6, <1>9, <1>12, <2>1 DEF Readable
  <2>3. Bytes(rest, sz) = [i \in 1..sz |-> rest.cell[Place(rest, i)]]
    BY <2>1, <2>2, ReadBytes
  <2>4. ASSUME NEW i \in 1..sz PROVE rest.cell[Place(rest, i)] = <<m, Header + i>>
    <3>1. /\ i \in 1..(rpc_rb_can_read(rb) - Header) /\ Header + i \in 1..Header + sz
          /\ Header + i <= Readable
      BY <1>1, <1>2, <1>6, <1>9, <2>2 DEF Readable
    <3>2. QED
      BY <1>8, <2>1, <3>1
  <2>5. Whole(m, sz).body = [i \in 1..sz |-> <<m, Header + i>>]
    <3> DEFINE pkt == Packet(m, sz)
    <3>1. pkt = [i \in 1..(Header + sz) |-> <<m, i>>]
      BY DEF Packet
    <3>2. \A k \in 1..(Header + sz) : <<m, k>> \in OneByte
      BY <1>2, <1>6 DEF OneByte
    <3>3. Whole(m, sz).body = SubSeq(pkt, Header + 1, Header + sz)
      BY DEF Whole
    <3> HIDE DEF pkt
    <3>4. Header + sz \in Nat
      BY <1>2, <1>6
    <3>5. pkt \in [1..(Header + sz) -> OneByte]
      BY <3>1, <3>2
    <3>6. pkt \in Seq(OneByte) /\ Len(pkt) = Header + sz
      BY <3>4, <3>5, LenProperties
    <3>7. Header + 1 \in 1..Len(pkt) + 1 /\ Header + sz \in Header..Len(pkt)
      BY <1>2, <1>6, <3>6
    <3>8. SubSeq(pkt, Header + 1, Header + sz)
          = [i \in 1..sz |-> pkt[Header + i]]
      <4>1. /\ (Header + sz) - (Header + 1) + 1 = sz /\ Header + 1 \in Nat
            /\ \A i \in 1..sz : (Header + 1) + i - 1 = Header + i
        BY <1>2, <1>6
      <4> DEFINE sub == SubSeq(pkt, Header + 1, Header + sz)
      <4>a. \A i \in Header + 1..Header + sz : pkt[i] \in OneByte
        BY <1>2, <1>6, <3>6
      <4>b. /\ sub \in Seq(OneByte) /\ Len(sub) = IF Header + 1 <= Header + sz THEN (Header + sz) - (Header + 1) + 1 ELSE 0
            /\ \A i \in 1..((Header + sz) - (Header + 1) + 1) : sub[i] = pkt[(Header + 1) + i - 1]
        BY <3>4, <4>1, <4>a, SubSeqProperties
      <4> HIDE DEF sub
      <4>2. sub \in Seq(OneByte) /\ Len(sub) = sz
        BY <1>2, <1>6, <4>b
      <4>3. \A i \in 1..sz : sub[i] = pkt[Header + i]
        BY <4>1, <4>b
      <4>4. sub = [i \in 1..sz |-> sub[i]]
        BY <4>2
      <4>5. QED
        BY <4>3, <4>4 DEF sub
    <3>9. \A i \in 1..sz : Header + i \in 1..(Header + sz)
      BY <1>2, <1>6
    <3>10. QED
      BY <3>1, <3>3, <3>8, <3>9
  <2>6. QED
    BY <2>3, <2>4, <2>5
<1>13. QED
  BY <1>5, <1>11, <1>12 DEF m, rest, sz

(* A turn of the loop delivers the next packet, or nothing. *)
LEMMA LoopDelivers ==
  ASSUME WireInv, Loop
  PROVE  LET m == Len(got) + 1
         IN  \/ /\ got' = Append(got, Whole(m, sizes[m]))
                /\ rb' = Advanced(Advanced(rb, Header), sizes[m])
                /\ rpc_rb_can_read(Advanced(rb, Header)) >= sizes[m]
                /\ UNCHANGED <<pc, cached, sizes, wire>>
             \/ /\ cached' \/ pc' = "undefined"
                /\ rb' = Advanced(rb, Header)
                /\ UNCHANGED <<got, sizes, wire>>
<1> DEFINE m == Len(got) + 1
           p == Shell(Bytes(rb, Header))
           rest == Advanced(rb, Header)
           sz == sizes[p]
<1>1. m \in Waiting /\ p = m
  BY LoopFinds
<1>2. p # 0
  <2>1. m # 0
    BY <1>1, WireNumbers DEF WireInv
  <2>2. QED
    BY <1>1, <2>1
<1>3. rpc_rb_can_read(rest) >= sz => Bytes(rest, sz) = Whole(m, sz).body
  BY <1>1, LoopFinds
<1>4. Whole(m, sz) = [shell |-> p, body |-> Whole(m, sz).body]
  BY <1>1 DEF Whole
<1>5. UNCHANGED <<sizes, wire>>
  BY DEF Loop
<1>6. \/ /\ p = 0 /\ pc' = "refused"
         /\ rb' = rest /\ UNCHANGED <<cached, got>>
      \/ /\ p # 0 /\ rpc_rb_can_read(rest) < sz
         /\ cached' = TRUE /\ pc' = "recv"
         /\ rb' = rest /\ UNCHANGED got
      \/ /\ p # 0 /\ rpc_rb_can_read(rest) >= sz /\ sz # 0 /\ Crosses(rest, sz)
         /\ pc' = "undefined"
         /\ rb' = rest /\ UNCHANGED <<cached, got>>
      \/ /\ p # 0 /\ rpc_rb_can_read(rest) >= sz /\ ~(sz # 0 /\ Crosses(rest, sz))
         /\ got' = Append(got, [shell |-> p, body |-> Bytes(rest, sz)])
         /\ rb' = Advanced(rest, sz) /\ UNCHANGED <<pc, cached>>
  BY DEF Loop
<1> HIDE DEF p, rest
<1>7. CASE rpc_rb_can_read(rest) >= sz /\ got' = Append(got, [shell |-> p, body |-> Bytes(rest, sz)])
           /\ rb' = Advanced(rest, sz) /\ UNCHANGED <<pc, cached>>
  BY <1>1, <1>3, <1>4, <1>5, <1>7 DEF rest
<1>8. CASE (cached' \/ pc' = "undefined") /\ rb' = rest /\ UNCHANGED got
  BY <1>5, <1>8 DEF rest
<1>9. QED
  BY <1>2, <1>6, <1>7, <1>8

(* A packet of h + s bytes at a, when the n bytes before it are gone *)
LEMMA Shifted ==
  ASSUME NEW a \in Int, NEW b \in Int, NEW h \in Nat, NEW s \in Nat, NEW n \in Nat, a + h + s <= b
  PROVE  /\ (a - n) + h + s <= b - n /\ (a + h + s) - n = (a - n) + h + s
         /\ n <= a => 0 <= a - n
OBVIOUS

(* A place of the stream after the first n bytes of it were taken *)
LEMMA ShiftedPlace ==
  ASSUME NEW a \in Int, NEW b \in Int, NEW h \in Nat, NEW s \in Nat, NEW n \in Nat, a + h + s <= b,
         n <= a, NEW k \in 1..h + s
  PROVE  (a - n) + k \in Nat /\ (a - n) + k >= 1 /\ n + ((a - n) + k) = a + k /\ a + k <= b
OBVIOUS

(* The bytes of a packet leave the stream. *)
LEMMA LoopKeeps ==
  ASSUME WireInv, Loop
  PROVE  WireInv'
<1> DEFINE m == Len(got) + 1
           n == Header + sizes[m]
           rest == Advanced(rb, Header)
<1>1. /\ Len(sizes) \in Nat /\ Len(got) \in Nat /\ Len(wire) \in Nat /\ Readable \in Nat
      /\ Unread \in Nat /\ Unread = Readable + Len(wire)
  BY WireNumbers DEF WireInv
<1>2. m \in Waiting /\ m \in 1..Len(sizes) /\ sizes[m] \in Nat /\ Header \in Nat
  BY LoopFinds, WireNumbers, SizesAssumption DEF WireInv
<1>3. pc = "loop" /\ ~cached /\ Header \in 0..rpc_rb_can_read(rb)
  <2>1. pc = "loop" /\ ~cached /\ rpc_rb_can_read(rb) >= Header
    BY DEF Loop
  <2>2. QED
    BY <1>1, <1>2, <2>1 DEF Readable
<1>4. PICK c \in Nat \ {0} : rb \in Rings(c)
  BY DEF WireInv, WireTypes
<1>5. /\ rest \in Rings(c) /\ rpc_rb_can_read(rest) = Readable - Header
      /\ rest.cell = rb.cell
      /\ \A i \in 1..(Readable - Header) : Place(rest, i) = Place(rb, Header + i)
  BY <1>3, <1>4, RingAdvance DEF Readable
<1> HIDE DEF rest
<1>6. CASE (cached' \/ pc' = "undefined") /\ rb' = rest /\ UNCHANGED <<got, sizes, wire>>
  <2>1. WireTypes'
    BY <1>5, <1>6 DEF WireInv, WireTypes
  <2>2. QED
    BY <1>6, <2>1 DEF WireInv
<1>7. CASE /\ got' = Append(got, Whole(m, sizes[m]))
           /\ rb' = Advanced(rest, sizes[m])
           /\ rpc_rb_can_read(rest) >= sizes[m]
           /\ UNCHANGED <<pc, cached, sizes, wire>>
  <2>0. /\ got' = Append(got, Whole(m, sizes[m]))
        /\ rb' = Advanced(rest, sizes[m])
        /\ rpc_rb_can_read(rest) >= sizes[m]
        /\ UNCHANGED <<pc, cached, sizes, wire>>
    BY <1>7
  <2>1. sizes[m] \in 0..rpc_rb_can_read(rest) /\ n \in Nat /\ Readable - n \in Nat /\ n <= Readable
    BY <1>1, <1>2, <1>5, <2>0, SMTT(20)
  <2>2. /\ rb' \in Rings(c) /\ rpc_rb_can_read(rb') = rpc_rb_can_read(rest) - sizes[m]
        /\ rb'.cell = rest.cell
        /\ \A i \in 1..(rpc_rb_can_read(rest) - sizes[m]) : Place(rb', i) = Place(rest, sizes[m] + i)
    BY <1>5, <2>0, <2>1, RingAdvance
  <2>3. /\ Readable' = Readable - n /\ rb'.cell = rb.cell
        /\ \A i \in 1..(Readable - n) : Place(rb', i) = Place(rb, n + i)
    <3>1. rpc_rb_can_read(rest) - sizes[m] = Readable - n
      BY <1>1, <1>2, <1>5
    <3>2. Readable' = Readable - n
      BY <2>2, <3>1 DEF Readable
    <3>3. ASSUME NEW i \in 1..(Readable - n)
          PROVE  Place(rb', i) = Place(rb, n + i)
      <4>1. i \in 1..(rpc_rb_can_read(rest) - sizes[m])
        BY <3>1
      <4>2. Place(rb', i) = Place(rest, sizes[m] + i)
        BY <2>2, <4>1
      <4>3. sizes[m] + i \in 1..(Readable - Header) /\ Header + (sizes[m] + i) = n + i
        <5>1. sizes[m] \in Nat /\ Header \in Nat /\ Readable \in Nat
          BY <1>1, <1>2
        <5>2. QED
          BY <5>1
      <4>4. QED
        BY <1>5, <4>2, <4>3
    <3>4. QED
      BY <1>5, <2>2, <3>2, <3>3
  <2>4. Unread' = Unread - n /\ Len(wire') = Len(wire)
    BY <1>1, <2>0, <2>1, <2>3 DEF Unread
  <2>5. ASSUME NEW i \in Nat, i >= 1, n + i <= Unread PROVE ByteAt(i)' = ByteAt(n + i)
    <3>1. CASE i <= Readable - n
      <4>1. i \in 1..(Readable - n) /\ n + i <= Readable
        BY <1>1, <2>1, <2>5, <3>1, SMTT(20)
      <4>2. QED
        BY <2>3, <3>1, <4>1 DEF ByteAt
    <3>2. CASE ~(i <= Readable - n)
      <4>1. ~(n + i <= Readable) /\ (n + i) - Readable = i - (Readable - n)
        BY <1>1, <2>1, <3>2
      <4>2. ByteAt(n + i) = wire[(n + i) - Readable]
        BY <4>1 DEF ByteAt
      <4>3. ByteAt(i)' = wire'[i - Readable']
        BY <2>3, <3>2 DEF ByteAt
      <4>4. QED
        BY <2>0, <2>3, <4>1, <4>2, <4>3
    <3>3. QED
      BY <3>1, <3>2
  <2>6. got' \in Seq(Gotten) /\ Len(got') = m
    <3>1. Whole(m, sizes[m]) \in Gotten
      <4>1. m \in Nat
        BY <1>1
      <4>2. Whole(m, sizes[m]) = [shell |-> m, body |-> Whole(m, sizes[m]).body]
        BY DEF Whole
      <4>3. Whole(m, sizes[m]).body \in Seq(OneByte)
        <5>1. Whole(m, sizes[m]).body = Bytes(rest, sizes[m])
          BY <2>0, LoopFinds DEF rest
        <5>2. Bytes(rest, sizes[m]) \in Seq(OneByte)
          BY <1>5, <2>1, ReadBytes
        <5>3. QED
          BY <5>1, <5>2
      <4>4. QED
        BY <4>1, <4>2, <4>3 DEF Gotten
    <3>2. got \in Seq(Gotten)
      BY DEF WireInv, WireTypes
    <3> HIDE DEF m
    <3>3. got' \in Seq(Gotten) /\ Len(got') = Len(got) + 1
      BY <2>0, <3>1, <3>2
    <3>4. QED
      BY <3>3 DEF m
  <2>7. WireTypes'
    <3>1. Len(got') <= Len(sizes')
      BY <1>1, <1>2, <2>0, <2>6
    <3>2. QED
      BY <2>0, <2>2, <2>6, <3>1 DEF WireInv, WireTypes
  <2>8. PICK off \in [1..Len(sizes) + 1 -> Int] : Stream(off)
    BY <1>3 DEF WireInv
  <2>9. \A p \in 1..Len(sizes) + 1 : off[p] \in Int /\ off[p] - n \in Int
    BY <2>1
  <2>10. PICK new \in [1..Len(sizes) + 1 -> Int] : \A p \in 1..Len(sizes) + 1 : new[p] = off[p] - n
    <3> DEFINE next == [p \in 1..Len(sizes) + 1 |-> off[p] - n]
    <3>1. next \in [1..Len(sizes) + 1 -> Int] /\ \A p \in 1..Len(sizes) + 1 : next[p] = off[p] - n
      BY <2>9
    <3>2. QED
      BY <3>1
  <2>11. /\ off[m] = 0 /\ off[m + 1] = n /\ off[Len(sizes) + 1] = Unread
         /\ \A q \in Waiting : m < q => n <= off[q]
    <3>1. off[m + 1] = 0 + Header + sizes[m] /\ off[m] = 0 /\ off[Len(sizes) + 1] = Unread
      BY <1>2, <2>8 DEF Stream
    <3>2. \A q \in Waiting : m < q => 0 + Header + sizes[m] <= off[q]
      BY <1>2, <2>8, <3>1 DEF Stream
    <3>3. 0 + Header + sizes[m] = n
      BY <1>2
    <3>4. QED
      BY <3>1, <3>2, <3>3
  <2>12. \A p \in Waiting' : /\ p \in Waiting /\ m < p /\ sizes[p] \in Nat
                             /\ p \in 1..Len(sizes) + 1 /\ p + 1 \in 1..Len(sizes) + 1
    <3>1. Waiting' = m + 1..Len(sizes) /\ Waiting = m..Len(sizes)
      BY <2>0, <2>6 DEF Waiting
    <3>2. \A p \in Waiting' : p \in Waiting /\ m < p
      BY <1>1, <3>1
    <3>3. \A p \in Waiting : sizes[p] \in Nat /\ p \in 1..Len(sizes) /\ p + 1 \in 1..Len(sizes) + 1
      BY WireNumbers DEF WireInv
    <3>4. \A p \in 1..Len(sizes) : p \in 1..Len(sizes) + 1
      BY <1>1
    <3>5. QED
      BY <3>2, <3>3, <3>4
  <2>13. ASSUME NEW p \in Waiting'
         PROVE  /\ 0 <= new[p] /\ new[p] + Header + sizes'[p] <= Unread'
                /\ new[p + 1] = new[p] + Header + sizes'[p]
                /\ \A k \in 1..Header + sizes'[p] : ByteAt(new[p] + k)' = <<p, k>>
    <3>1. /\ p \in Waiting /\ off[p] \in Int /\ sizes[p] \in Nat /\ n <= off[p] /\ n \in Nat
          /\ new[p] = off[p] - n /\ new[p + 1] = off[p + 1] - n /\ sizes'[p] = sizes[p]
      BY <2>0, <2>1, <2>9, <2>10, <2>11, <2>12
    <3>2. /\ off[p] + Header + sizes[p] <= Unread
          /\ off[p + 1] = off[p] + Header + sizes[p]
          /\ \A k \in 1..Header + sizes[p] : ByteAt(off[p] + k) = <<p, k>>
      BY <2>8, <3>1 DEF Stream
    <3>3. ASSUME NEW k \in 1..Header + sizes[p] PROVE ByteAt(new[p] + k)' = <<p, k>>
      <4>1. Header \in Nat /\ sizes[p] \in Nat /\ off[p] \in Int /\ n \in Nat /\ Unread \in Int
        BY <1>1, <1>2, <3>1
      <4> HIDE DEF n
      <4>2. new[p] + k \in Nat /\ new[p] + k >= 1 /\ n + (new[p] + k) = off[p] + k /\ off[p] + k <= Unread
        <5>1. n <= off[p] /\ off[p] + Header + sizes[p] <= Unread
          BY <3>1, <3>2
        <5>k. PICK h \in Nat, z \in Nat, a \in Int, b \in Int, x \in Nat :
                 h = Header /\ z = sizes[p] /\ a = off[p] /\ b = Unread /\ x = n
          BY <4>1
        <5>l. a + h + z <= b /\ x <= a /\ k \in 1..h + z
          BY <5>1, <5>k
        <5>m. (a - x) + k \in Nat /\ (a - x) + k >= 1 /\ x + ((a - x) + k) = a + k /\ a + k <= b
          BY <5>l, ShiftedPlace
        <5>2. /\ (off[p] - n) + k \in Nat /\ (off[p] - n) + k >= 1
              /\ n + ((off[p] - n) + k) = off[p] + k /\ off[p] + k <= Unread
          BY <5>k, <5>m
        <5>3. QED
          BY <3>1, <5>2
      <4>3. ByteAt(new[p] + k)' = ByteAt(n + (new[p] + k))
        BY <2>5, <4>2
      <4>4. QED
        BY <3>2, <4>2, <4>3
    <3>4. 0 <= new[p] /\ new[p] + Header + sizes[p] <= Unread' /\ new[p + 1] = new[p] + Header + sizes[p]
      <4>1. Header \in Nat /\ sizes[p] \in Nat /\ off[p] \in Int /\ n \in Nat /\ Unread \in Int
        BY <1>1, <1>2, <3>1
      <4> HIDE DEF n
      <4>2. n <= off[p] /\ off[p] + Header + sizes[p] <= Unread
        BY <3>1, <3>2
      <4>3. /\ (off[p] - n) + Header + sizes[p] <= Unread - n /\ 0 <= off[p] - n
            /\ (off[p] + Header + sizes[p]) - n = (off[p] - n) + Header + sizes[p]
        BY <4>1, <4>2, Shifted, SMTT(20)
      <4>4. new[p + 1] = (off[p] + Header + sizes[p]) - n
        BY <3>1, <3>2
      <4>5. QED
        BY <2>4, <3>1, <4>3, <4>4
    <3>5. QED
      BY <3>1, <3>3, <3>4
  <2>14. ASSUME NEW p \in Waiting', NEW q \in Waiting', p < q
         PROVE  new[p] + Header + sizes'[p] <= new[q]
    <3>1. off[p] + Header + sizes[p] <= off[q]
      BY <2>8, <2>12, <2>14 DEF Stream
    <3>2. /\ off[p] \in Int /\ off[q] \in Int /\ sizes[p] \in Nat /\ n \in Nat
          /\ new[p] = off[p] - n /\ new[q] = off[q] - n /\ sizes'[p] = sizes[p]
      BY <2>0, <2>1, <2>9, <2>10, <2>12
    <3>3. Header \in Nat
      BY <1>2
    <3> HIDE DEF n
    <3>4. (off[p] - n) + Header + sizes[p] <= off[q] - n
      BY <3>1, <3>2, <3>3, Shifted
    <3>5. QED
      BY <3>2, <3>4
  <2>15. new[Len(got') + 1] = 0 /\ new[Len(sizes') + 1] = Unread'
    <3>1. m + 1 \in 1..Len(sizes) + 1 /\ Len(sizes) + 1 \in 1..Len(sizes) + 1 /\ n - n = 0
      BY <1>1, <1>2, <2>1, SMTT(20)
    <3>2. QED
      BY <2>0, <2>4, <2>6, <2>10, <2>11, <3>1
  <2>16. Stream(new)'
    BY <2>13, <2>14, <2>15 DEF Stream
  <2>17. new \in [1..Len(sizes') + 1 -> Int]
    BY <2>0
  <2>18. QED
    BY <2>7, <2>16, <2>17 DEF WireInv
<1>8. QED
  BY <1>6, <1>7, LoopDelivers DEF rest

(* Every step of the senders, the stream and the receiver *)
LEMMA WireStepInv == WireInv /\ [Next]_vars => WireInv'
<1> SUFFICES ASSUME WireInv, [Next]_vars PROVE WireInv'
  OBVIOUS
<1>1. CASE \E sz \in Bodies : Send(sz)
  BY <1>1, SendKeeps
<1>2. CASE \E n \in 1..MaxPiece : Receive(n)
  <2>1. PICK n \in 1..MaxPiece : Receive(n)
    BY <1>2
  <2>2. n \in Nat
    BY SizesAssumption
  <2>3. QED
    BY <2>1, <2>2, ReceiveKeeps
<1>3. CASE LoopEnd \/ LoopUndefined \/ UNCHANGED vars
  <2>1. UNCHANGED <<sizes, wire, rb, cached, got>> /\ (pc' \in {"recv", "loop"} => pc \in {"recv", "loop"})
    BY <1>3 DEF LoopEnd, LoopUndefined, vars
  <2>2. WireTypes'
    BY <2>1 DEF WireInv, WireTypes
  <2>3. Unread' = Unread /\ \A i \in 1..Unread : ByteAt(i)' = ByteAt(i)
    BY <2>1 DEF Unread, Readable, ByteAt
  <2>4. QED
    BY <2>1, <2>2, <2>3, StreamStays
<1>4. CASE Loop
  BY <1>4, LoopKeeps
<1>5. QED
  BY <1>1, <1>2, <1>3, <1>4 DEF Next, Receiver

(* The packets that carry the bodies z *)
LEMMA SentFacts ==
  ASSUME NEW z \in Seq(Bodies)
  PROVE  LET s == [p \in 1..Len(z) |-> Whole(p, z[p])]
         IN  s \in Seq({Whole(p, sz) : p \in Nat, sz \in Bodies}) /\ Len(s) = Len(z)
<1> DEFINE S == {Whole(p, sz) : p \in Nat, sz \in Bodies}
           s == [p \in 1..Len(z) |-> Whole(p, z[p])]
<1>1. Len(z) \in Nat /\ \A p \in 1..Len(z) : p \in Nat /\ z[p] \in Bodies
  OBVIOUS
<1>2. \A p \in 1..Len(z) : Whole(p, z[p]) \in S
  BY <1>1
<1> HIDE DEF S
<1>3. s \in [1..Len(z) -> S]
  BY <1>2
<1> HIDE DEF s
<1>4. s \in Seq(S) /\ Len(s) = Len(z)
  BY <1>1, <1>3, LenProperties
<1>5. QED
  BY <1>4 DEF S, s

(* A packet that is sent is a message that is sent. *)
LEMMA SendIsSend ==
  ASSUME WireInv, WireInv', NEW sz \in Bodies, Send(sz)
  PROVE  SentPackets' = Append(SentPackets, Whole(Len(sizes) + 1, sz)) /\ Len(sizes) + 1 \in 1..MaxPackets /\ got' = got
<1> DEFINE S == {Whole(p, z) : p \in Nat, z \in Bodies}
           m == Len(sizes) + 1
           new == Append(SentPackets, Whole(m, sz))
<1>1. /\ sizes \in Seq(Bodies) /\ Len(sizes) \in Nat /\ Len(sizes) < MaxPackets
      /\ sizes' = Append(sizes, sz) /\ got' = got
  BY DEF WireInv, WireTypes, Send
<1>2. m \in 1..MaxPackets /\ m \in Nat
  BY <1>1, SizesAssumption
<1>3. Len(sizes') = m /\ sizes'[m] = sz /\ \A p \in 1..Len(sizes) : sizes'[p] = sizes[p]
  BY <1>1
<1>4. Whole(m, sz) \in S
  BY <1>2
<1>5. SentPackets \in Seq(S) /\ Len(SentPackets) = Len(sizes)
  BY SentFacts DEF WireInv, WireTypes, SentPackets
<1>6. SentPackets' \in Seq(S) /\ Len(SentPackets') = Len(sizes')
  <2>1. sizes' \in Seq(Bodies)
    BY DEF WireInv, WireTypes
  <2>2. QED
    BY <2>1, SentFacts DEF SentPackets
<1>7. \A p \in 1..Len(sizes) : SentPackets[p] = Whole(p, sizes[p])
  BY DEF SentPackets
<1>8. \A p \in 1..m : SentPackets'[p] = Whole(p, sizes'[p])
  BY <1>3 DEF SentPackets
<1> HIDE DEF S
<1>9. /\ new \in Seq(S) /\ Len(new) = m /\ new[m] = Whole(m, sz)
      /\ \A p \in 1..Len(sizes) : new[p] = SentPackets[p]
  BY <1>1, <1>4, <1>5
<1>10. ASSUME NEW p \in 1..m PROVE SentPackets'[p] = new[p]
  <2>1. p = m \/ p \in 1..Len(sizes)
    BY <1>1
  <2>2. QED
    BY <1>3, <1>7, <1>8, <1>9, <2>1
<1> HIDE DEF new
<1>11. SentPackets' = new
  BY <1>3, <1>6, <1>9, <1>10, SeqEqual
<1>12. QED
  BY <1>1, <1>2, <1>11 DEF new

(***************************************************************************)
(* The connection implements a channel without loss, whatever the sizes of *)
(* packets, pieces and buffer.                                             *)
(***************************************************************************)
THEOREM PacketsAreIntact == Spec => PacketsIntact
<1>1. Init => Channel!Init
  <2> SUFFICES ASSUME Init PROVE Channel!Init
    OBVIOUS
  <2>1. sizes = <<>> /\ got = <<>>
    BY DEF Init
  <2>2. SentPackets = <<>>
    <3>1. WireTypes
      BY WireInitInv DEF WireInv
    <3>2. Len(SentPackets) = 0 /\ SentPackets \in Seq({Whole(p, sz) : p \in Nat, sz \in Bodies})
      BY <2>1, <3>1, SentFacts DEF WireTypes, SentPackets
    <3>3. QED
      BY <3>2
  <2>3. QED
    BY <2>1, <2>2 DEF Channel!Init
<1>2. WireInv /\ WireInv' /\ [Next]_vars
      => [Channel!Send \/ Channel!Deliver]_<<SentPackets, got>>
  <2> SUFFICES ASSUME WireInv, WireInv', [Next]_vars
               PROVE  Channel!Send \/ Channel!Deliver \/ (SentPackets' = SentPackets /\ got' = got)
    OBVIOUS
  <2>1. CASE \E sz \in Bodies : Send(sz)
    <3>1. PICK sz \in Bodies : Send(sz)
      BY <2>1
    <3>2. SentPackets' = Append(SentPackets, Whole(Len(sizes) + 1, sz)) /\ got' = got
          /\ Len(sizes) + 1 \in 1..MaxPackets
      BY <3>1, SendIsSend
    <3>3. Whole(Len(sizes) + 1, sz) \in Wholes
      BY <3>2 DEF Wholes
    <3>4. Channel!Send
      BY <3>2, <3>3 DEF Channel!Send
    <3>5. QED
      BY <3>4
  <2>2. CASE Loop
    <3>1. Len(got) + 1 \in 1..Len(sizes)
      BY <2>2, LoopFinds, WireNumbers DEF WireInv
    <3>2. \/ got' = Append(got, Whole(Len(got) + 1, sizes[Len(got) + 1])) /\ sizes' = sizes
          \/ got' = got /\ sizes' = sizes
      BY <2>2, LoopDelivers
    <3>3. CASE got' = Append(got, Whole(Len(got) + 1, sizes[Len(got) + 1])) /\ sizes' = sizes
      <4>1. SentPackets[Len(got) + 1] = Whole(Len(got) + 1, sizes[Len(got) + 1])
        BY <3>1 DEF SentPackets
      <4>2. Len(SentPackets) = Len(sizes) /\ Len(got) < Len(sizes)
        <5>1. Len(SentPackets) = Len(sizes)
          BY SentFacts DEF WireInv, WireTypes, SentPackets
        <5>2. QED
          BY <3>1, <5>1, WireNumbers DEF WireInv
      <4>3. SentPackets' = SentPackets
        BY <3>3 DEF SentPackets
      <4>4. Channel!Deliver
        BY <3>3, <4>1, <4>2, <4>3 DEF Channel!Deliver
      <4>5. QED
        BY <4>4
    <3>4. CASE got' = got /\ sizes' = sizes
      BY <3>4 DEF SentPackets
    <3>5. QED
      BY <3>2, <3>3, <3>4
  <2>3. CASE (\E n \in 1..MaxPiece : Receive(n)) \/ LoopEnd \/ LoopUndefined \/ UNCHANGED vars
    <3>1. sizes' = sizes /\ got' = got
      BY <2>3 DEF Receive, LoopEnd, LoopUndefined, vars
    <3>2. QED
      BY <3>1 DEF SentPackets
  <2>4. QED
    BY <2>1, <2>2, <2>3 DEF Next, Receiver
<1>3. QED
  BY <1>1, <1>2, WireInitInv, WireStepInv, PTL DEF Spec, PacketsIntact, Channel!Spec
=============================================================================
