--------------------------- MODULE DeviceSession ---------------------------
(***************************************************************************)
(* The devices that are being played: service/service_device.c, as the     *)
(* play requests of service/service_req_play.c use it.  A list holds one   *)
(* block for each device, with the number of plays that were not stopped   *)
(* (a pref_t, see module Pref).                                            *)
(*                                                                         *)
(* Processors run the requests at the same time and nothing guards the     *)
(* list: a walk of it is one step here, a change another one, and so is    *)
(* each call of pref.c.  Whoever uses a block that was freed, or takes it  *)
(* out of the list a second time, ends the behaviour (faulted).            *)
(*                                                                         *)
(* A request that has no session, or that is for a device of another       *)
(* admin, is answered before it gets here.  What the answers say is left   *)
(* out.                                                                    *)
(***************************************************************************)
EXTENDS Integers, Sequences, FiniteSets

CONSTANTS
  Players,     \* threads that run requests
  Devices,     \* uuids of devices
  MaxBlocks,   \* bound: blocks allocated at the same time
  MaxPlays     \* bound: plays of a device that were not stopped

Blocks == 1..MaxBlocks    \* device_list_t
NoBlock == 0              \* none, or one that was freed
NoDevice == "none"

ASSUME DevicesAssumption == MaxBlocks \in Nat /\ NoDevice \notin Devices

VARIABLES
  list,        \* device_list
  uuidOf,      \* uuidOf[b]: device_uuid
  count,       \* count[b]: refcount
  live,        \* blocks that are allocated
  player,      \* player[p]: what processor p does next, for which device and block
  serving,     \* requests are taken; afterwards session_device_destroy runs
  faulted,     \* undefined behaviour happened
  plays,       \* plays[u]: plays of u less the stops of it, until two overlap (history)
  overlapped   \* devices that two requests were for at the same time (history)

deviceVars == <<list, uuidOf, count, live, player, serving, faulted, plays, overlapped>>

NoPlay == [pc |-> "idle", uuid |-> NoDevice, at |-> NoBlock]

(* session_device_init *)
DeviceInit ==
  /\ list = <<>> /\ live = {}
  /\ uuidOf = [b \in Blocks |-> NoDevice]
  /\ count = [b \in Blocks |-> 0]
  /\ player = [p \in Players |-> NoPlay]
  /\ serving = TRUE /\ faulted = FALSE
  /\ plays = [u \in Devices |-> 0]
  /\ overlapped = {}

-----------------------------------------------------------------------------

At(p, pc) == ~faulted /\ player[p].pc = pc

Goto(p, pc) == player' = [player EXCEPT ![p].pc = pc]

Answer(p) == player' = [player EXCEPT ![p] = NoPlay]

(* The first block of the list for device u *)
Found(u) ==
  LET places == {i \in 1..Len(list) : uuidOf[list[i]] = u}
  IN  IF places = {} THEN NoBlock ELSE list[CHOOSE i \in places : \A j \in places : i <= j]

(* Processor p uses its block, which may be gone. *)
Alive(p) == player[p].at \in live

DeviceBreak == faulted' = TRUE /\ UNCHANGED <<list, uuidOf, count, live, player, serving, plays, overlapped>>

Freed(p) ==
  /\ ~faulted /\ ~Alive(p)
  /\ player[p].pc \in {"get", "counted", "put", "left", "remove", "release", "touched"}
  /\ DeviceBreak

(* Blocks that are allocated, or may be by requests that were taken *)
Needed == Cardinality(live) + Cardinality({p \in Players : player[p].pc \in {"play", "new"}})

(* A request for device u: "play", "stop" or "touch" *)
Begin(p, op, u) ==
  /\ At(p, "idle") /\ serving
  /\ op = "play" => Needed < MaxBlocks /\ \A b \in live : uuidOf[b] = u => count[b] < MaxPlays
  /\ op = "stop" => \A b \in live : uuidOf[b] = u => count[b] >= 0   \* bound
  /\ player' = [player EXCEPT ![p] = [pc |-> op, uuid |-> u, at |-> NoBlock]]
  /\ IF \E q \in Players : player[q].uuid = u
     THEN overlapped' = overlapped \cup {u} /\ plays' = [plays EXCEPT ![u] = 0]
     ELSE UNCHANGED <<overlapped, plays>>
  /\ UNCHANGED <<list, uuidOf, count, live, serving, faulted>>

(* The history of a device that requests did not overlap for *)
Played(u, n) == plays' = IF u \in overlapped THEN plays ELSE [plays EXCEPT ![u] = @ + n]

(* The walk along the list; each request goes on differently. *)
Walk(p, op, found, notFound) ==
  /\ At(p, op)
  /\ LET b == Found(player[p].uuid)
     IN  player' = [player EXCEPT ![p].at = b, ![p].pc = IF b = NoBlock THEN notFound ELSE found]
  /\ UNCHANGED <<list, uuidOf, count, live, serving, faulted, plays, overlapped>>

-----------------------------------------------------------------------------
(* req_play_device: session_device_ref_work *)

PlayFind(p) == Walk(p, "play", "get", "new")

PlayGet(p) ==
  /\ At(p, "get") /\ Alive(p)
  /\ count' = [count EXCEPT ![player[p].at] = @ + 1]
  /\ Played(player[p].uuid, 1)
  /\ Goto(p, "counted")
  /\ UNCHANGED <<list, uuidOf, live, serving, faulted, overlapped>>

(* pref_count *)
PlayCount(p) ==
  /\ At(p, "counted") /\ Alive(p)
  /\ Answer(p)
  /\ UNCHANGED <<list, uuidOf, count, live, serving, faulted, plays, overlapped>>

(* Mutant of PlayNew: pref_get is forgotten. *)
PlayNewUncounted(p) ==
  /\ At(p, "new") /\ live # Blocks
  /\ LET b == CHOOSE x \in Blocks \ live : \A y \in Blocks \ live : x <= y
     IN  /\ live' = live \cup {b}
         /\ uuidOf' = [uuidOf EXCEPT ![b] = player[p].uuid]
         /\ count' = [count EXCEPT ![b] = 0]
         /\ list' = Append(list, b)
  /\ Played(player[p].uuid, 1)
  /\ Answer(p)
  /\ UNCHANGED <<serving, faulted, overlapped>>

(* A new block with a count of one *)
PlayNew(p) ==
  /\ At(p, "new") /\ live # Blocks
  /\ LET b == CHOOSE x \in Blocks \ live : \A y \in Blocks \ live : x <= y
     IN  /\ live' = live \cup {b}
         /\ uuidOf' = [uuidOf EXCEPT ![b] = player[p].uuid]
         /\ count' = [count EXCEPT ![b] = 1]
         /\ list' = Append(list, b)
  /\ Played(player[p].uuid, 1)
  /\ Answer(p)
  /\ UNCHANGED <<serving, faulted, overlapped>>

-----------------------------------------------------------------------------
(* req_play_stop: session_device_dref *)

StopFind(p) == Walk(p, "stop", "put", "missing")

StopMissing(p) ==
  /\ At(p, "missing")
  /\ Answer(p)
  /\ UNCHANGED <<list, uuidOf, count, live, serving, faulted, plays, overlapped>>

(* pref_put up to its unlock, ... *)
StopPut(p) ==
  /\ At(p, "put") /\ Alive(p)
  /\ count' = [count EXCEPT ![player[p].at] = @ - 1]
  /\ Played(player[p].uuid, -1)
  /\ Goto(p, "left")
  /\ UNCHANGED <<list, uuidOf, live, serving, faulted, overlapped>>

(* ... and the count it reads after it *)
StopLeft(p) ==
  /\ At(p, "left") /\ Alive(p)
  /\ IF count[player[p].at] = 0 THEN Goto(p, "remove")
                              ELSE Answer(p)
  /\ UNCHANGED <<list, uuidOf, count, live, serving, faulted, plays, overlapped>>

(* list_del of the block at place i *)
Without(i) == SubSeq(list, 1, i - 1) \o SubSeq(list, i + 1, Len(list))

Listed(b) == \E i \in 1..Len(list) : list[i] = b

StopRemove(p) ==
  /\ At(p, "remove") /\ Alive(p)
  /\ \/ /\ \E i \in 1..Len(list) : list[i] = player[p].at /\ list' = Without(i)
        /\ Goto(p, "release")
        /\ UNCHANGED <<uuidOf, count, live, serving, faulted, plays, overlapped>>
     \/ ~Listed(player[p].at) /\ DeviceBreak

(* Block b is freed; whoever points to it points to nothing now, even if    *)
(* malloc gives the address out again.                                      *)
Free(p, b) ==
  /\ live' = live \ {b}
  /\ uuidOf' = [uuidOf EXCEPT ![b] = NoDevice]
  /\ player' = [q \in Players |-> IF q = p THEN NoPlay
                                  ELSE IF player[q].at = b THEN [player[q] EXCEPT !.at = NoBlock]
                                  ELSE player[q]]

(* Mutant of StopRelease: pref_release waits for a reference of its own. *)
StopReleaseLate(p) ==
  /\ At(p, "release") /\ Alive(p) /\ count[player[p].at] = 1
  /\ Free(p, player[p].at)
  /\ UNCHANGED <<list, count, serving, faulted, plays, overlapped>>

(* pref_release waits until the count is zero, then the block is freed. *)
StopRelease(p) ==
  /\ At(p, "release") /\ Alive(p) /\ count[player[p].at] = 0
  /\ Free(p, player[p].at)
  /\ UNCHANGED <<list, count, serving, faulted, plays, overlapped>>

-----------------------------------------------------------------------------
(* req_play_touch: session_device_touch *)

TouchFind(p) == Walk(p, "touch", "touched", "idleDevice")

TouchCount(p) ==
  /\ At(p, "touched") /\ Alive(p)
  /\ Answer(p)
  /\ UNCHANGED <<list, uuidOf, count, live, serving, faulted, plays, overlapped>>

(* Not in the list: the database is asked whether there is such a device. *)
TouchIdle(p) ==
  /\ At(p, "idleDevice")
  /\ Answer(p)
  /\ UNCHANGED <<list, uuidOf, count, live, serving, faulted, plays, overlapped>>

-----------------------------------------------------------------------------
(* service_stop: rpc_service_stop waits for the processors *)

Stop ==
  /\ ~faulted /\ serving
  /\ serving' = FALSE
  /\ UNCHANGED <<list, uuidOf, count, live, player, faulted, plays, overlapped>>

(* session_device_destroy at the first block; pref_release as above *)
session_device_destroy ==
  /\ ~faulted /\ ~serving /\ \A p \in Players : player[p].pc = "idle"
  /\ list # <<>> /\ count[Head(list)] = 0
  /\ list' = Tail(list) /\ live' = live \ {Head(list)}
  /\ uuidOf' = [uuidOf EXCEPT ![Head(list)] = NoDevice]
  /\ UNCHANGED <<count, player, serving, faulted, plays, overlapped>>

-----------------------------------------------------------------------------

Step(p) ==
  \/ PlayFind(p) \/ PlayGet(p) \/ PlayCount(p) \/ PlayNew(p)
  \/ StopFind(p) \/ StopMissing(p) \/ StopPut(p) \/ StopLeft(p) \/ StopRemove(p) \/ StopRelease(p)
  \/ TouchFind(p) \/ TouchCount(p) \/ TouchIdle(p)
  \/ Freed(p)

DeviceNext ==
  \/ \E p \in Players : Step(p)
  \/ \E p \in Players, op \in {"play", "stop", "touch"}, u \in Devices : Begin(p, op, u)
  \/ Stop \/ session_device_destroy

DeviceSpec == DeviceInit /\ [][DeviceNext]_deviceVars

(* Processors run; nobody has to make a request. *)
DeviceFairness == \A p \in Players : WF_deviceVars(Step(p))

-----------------------------------------------------------------------------

Quiet(u) == \A p \in Players : player[p].uuid # u

(***************************************************************************)
(* As long as no two requests for a device ran at the same time, it is     *)
(* listed exactly once while it has plays that were not stopped, with      *)
(* their number, and not at all otherwise, whatever requests for other     *)
(* devices did ("device will be stop when no ref longer",                  *)
(* service_device.c:127).                                                  *)
(***************************************************************************)
DeviceKept ==
  ~faulted => \A u \in Devices \ overlapped : Quiet(u) =>
    LET mine == {i \in 1..Len(list) : uuidOf[list[i]] = u}
    IN  /\ Cardinality(mine) = IF plays[u] = 0 THEN 0 ELSE 1
        /\ \A i \in mine : count[list[i]] = plays[u] /\ list[i] \in live

(***************************************************************************)
(* A request for such a device is answered: pref_release inside of it does *)
(* not wait for a stop that can no longer find the device.                 *)
(***************************************************************************)
PlaysAnswered ==
  \A p \in Players :
    (player[p].pc # "idle") ~> (player[p].pc = "idle" \/ player[p].uuid \in overlapped \/ faulted)
============================================================================
