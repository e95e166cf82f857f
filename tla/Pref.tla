-------------------------------- MODULE Pref --------------------------------
(***************************************************************************)
(* The reference counter of common/pref.c, on which the online sessions    *)
(* and the device sessions of the service hang.  Users take references     *)
(* (pref_get) while the object can be found; its owner first takes it out  *)
(* of the list the users search, then calls pref_release, which waits for  *)
(* the count to reach zero and frees it, or pref_try_release.              *)
(*                                                                         *)
(* pref_release reads the count without the mutex and takes the mutex only *)
(* to wait, so the steps inside of pref_put and pref_release are actions   *)
(* of their own.                                                           *)
(***************************************************************************)
EXTENDS Integers, FiniteSets

CONSTANTS
  Users,      \* threads that use the object
  NoUser      \* the mutex is free

ASSUME UsersAssumption == IsFiniteSet(Users) /\ NoUser \notin Users

VARIABLES
  refcount,   \* ref->refcount
  mutex,      \* the user inside pref_put's critical section, or NoUser
  published,  \* the object can still be found
  upc,        \* upc[u]: "out" | "in" (holds a reference) | inside pref_put
  rpc,        \* where the owner is
  freed       \* the object's memory is gone

vars == <<refcount, mutex, published, upc, rpc, freed>>

Init ==
  /\ refcount = 0
  /\ mutex = NoUser
  /\ published = TRUE
  /\ upc = [u \in Users |-> "out"]
  /\ rpc = "idle"
  /\ freed = FALSE

Get(u) ==
  /\ published /\ upc[u] = "out" /\ mutex = NoUser
  /\ refcount' = refcount + 1
  /\ upc' = [upc EXCEPT ![u] = "in"]
  /\ UNCHANGED <<mutex, published, rpc, freed>>

(* pref_put: the lock and the decrement, ... *)
PutDecrement(u) ==
  /\ upc[u] = "in" /\ mutex = NoUser
  /\ mutex' = u
  /\ refcount' = refcount - 1
  /\ upc' = [upc EXCEPT ![u] = "decremented"]
  /\ UNCHANGED <<published, rpc, freed>>

(* ... the signal and the unlock, ... *)
PutSignal(u) ==
  /\ upc[u] = "decremented"
  /\ mutex' = NoUser
  /\ rpc' = IF rpc = "asleep" THEN "awake" ELSE rpc
  /\ upc' = [upc EXCEPT ![u] = "unlocked"]
  /\ UNCHANGED <<refcount, published, freed>>

(* ... and the count it reads again, outside of the lock, to return it. *)
PutReturn(u) ==
  /\ upc[u] = "unlocked"
  /\ upc' = [upc EXCEPT ![u] = "out"]
  /\ UNCHANGED <<refcount, mutex, published, rpc, freed>>

(* The owner takes the object out of its list (list_del). *)
Withdraw ==
  /\ published
  /\ published' = FALSE
  /\ UNCHANGED <<refcount, mutex, upc, rpc, freed>>

ReleaseCall ==
  /\ ~published /\ rpc = "idle"
  /\ rpc' = "check"
  /\ UNCHANGED <<refcount, mutex, published, upc, freed>>

(* while (ref->refcount != 0), without the mutex *)
ReleaseCheck ==
  /\ rpc = "check"
  /\ rpc' = IF refcount # 0 THEN "wait" ELSE "free"
  /\ UNCHANGED <<refcount, mutex, published, upc, freed>>

(* The mutex is taken and given up again by pthread_cond_wait. *)
ReleaseSleep ==
  /\ rpc = "wait" /\ mutex = NoUser
  /\ rpc' = "asleep"
  /\ UNCHANGED <<refcount, mutex, published, upc, freed>>

ReleaseWake ==
  /\ rpc = "awake" /\ mutex = NoUser
  /\ rpc' = "check"
  /\ UNCHANGED <<refcount, mutex, published, upc, freed>>

ReleaseFree ==
  /\ rpc = "free"
  /\ rpc' = "done"
  /\ freed' = TRUE
  /\ UNCHANGED <<refcount, mutex, published, upc>>

(* Mutant of TryRelease: the count is not looked at. *)
TryReleaseBlind ==
  /\ ~published /\ rpc = "idle" /\ mutex = NoUser
  /\ rpc' = "free"
  /\ UNCHANGED <<refcount, mutex, published, upc, freed>>

(* pref_try_release: the test under the mutex; 0 leaves the object alone. *)
TryRelease ==
  /\ ~published /\ rpc = "idle" /\ mutex = NoUser
  /\ rpc' = IF refcount = 0 THEN "free" ELSE "idle"
  /\ UNCHANGED <<refcount, mutex, published, upc, freed>>

Put(u) == PutDecrement(u) \/ PutSignal(u) \/ PutReturn(u)

Release == ReleaseCheck \/ ReleaseSleep \/ ReleaseWake \/ ReleaseFree

Next ==
  \/ \E u \in Users : Get(u) \/ Put(u)
  \/ Withdraw
  \/ ReleaseCall
  \/ Release
  \/ TryRelease

(***************************************************************************)
(* Fairness: users give their references back and the thread inside        *)
(* pref_release runs.  A wakeup without a signal is not guaranteed.        *)
(***************************************************************************)
Fairness ==
  /\ \A u \in Users : WF_vars(Put(u))
  /\ WF_vars(Release)

Spec == Init /\ [][Next]_vars

FairSpec == Spec /\ Fairness

-----------------------------------------------------------------------------

(* refcount \in Nat is assert(ref->refcount >= 0) of pref_put (pref.c:45). *)
TypeOK ==
  /\ refcount \in Nat
  /\ mutex \in Users \cup {NoUser}
  /\ published \in BOOLEAN
  /\ upc \in [Users -> {"out", "in", "decremented", "unlocked"}]
  /\ rpc \in {"idle", "check", "wait", "asleep", "awake", "free", "done"}
  /\ freed \in BOOLEAN

Holders == {u \in Users : upc[u] = "in"}

(***************************************************************************)
(* The count is the number of references out.                              *)
(***************************************************************************)
RefcountExact == refcount = Cardinality(Holders)

(***************************************************************************)
(* Neither pref_release nor pref_try_release frees an object that somebody *)
(* holds a reference to.                                                   *)
(***************************************************************************)
NoHolderAfterFree ==
  rpc \in {"free", "done"} => Holders = {} /\ ~published

(* Only a withdrawn object is released. *)
Withdrawn == rpc # "idle" => ~published

(* The inductive invariant. *)
PrefInv == TypeOK /\ RefcountExact /\ Withdrawn /\ NoHolderAfterFree

(***************************************************************************)
(* pref.h:53-57: release "hangs" until nobody uses the object, so it       *)
(* returns once every reference has been given back.                       *)
(***************************************************************************)
ReleaseReturns == rpc = "check" ~> freed
=============================================================================
