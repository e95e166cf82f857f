----------------------------- MODULE PrefProofs -----------------------------
(***************************************************************************)
(* Machine-checked proofs about Pref, for any finite set of users.         *)
(***************************************************************************)
EXTENDS Pref, FiniteSetTheorems, TLAPS

(* The size of a set of users when one comes or goes. *)
LEMMA HolderCount ==
  ASSUME NEW H \in SUBSET Users
  PROVE  /\ Cardinality(H) \in Nat
         /\ Cardinality(H) = 0 => H = {}
         /\ \A u \in Users : u \notin H => Cardinality(H \cup {u}) = Cardinality(H) + 1
         /\ \A u \in H : Cardinality(H \ {u}) = Cardinality(H) - 1
                         /\ Cardinality(H) > 0
<1>1. IsFiniteSet(H)
  BY UsersAssumption, FS_Subset
<1>2. Cardinality(H) \in Nat
  BY <1>1, FS_CardinalityType
<1>3. Cardinality(H) = 0 => H = {}
  BY <1>1, FS_EmptySet
<1>4. ASSUME NEW u \in Users, u \notin H
      PROVE  Cardinality(H \cup {u}) = Cardinality(H) + 1
  BY <1>1, <1>4, FS_AddElement
<1>5. ASSUME NEW u \in H
      PROVE  Cardinality(H \ {u}) = Cardinality(H) - 1
  BY <1>1, FS_RemoveElement
<1>6. ASSUME NEW u \in H PROVE Cardinality(H) > 0
  BY <1>2, <1>3
<1>7. QED
  BY <1>2, <1>3, <1>4, <1>5, <1>6

(* The invariant holds of a new counter. *)
LEMMA PrefInit == Init => PrefInv
<1> SUFFICES ASSUME Init PROVE PrefInv
  OBVIOUS
<1>1. TypeOK
  BY DEF Init, TypeOK
<1>2. Holders = {}
  BY DEF Init, Holders
<1>3. Cardinality(Holders) = 0
  BY <1>2, FS_EmptySet
<1>4. QED
  BY <1>1, <1>2, <1>3 DEF Init, PrefInv, RefcountExact, Withdrawn, NoHolderAfterFree

(* The invariant is kept by every step. *)
LEMMA PrefStep == PrefInv /\ [Next]_vars => PrefInv'
<1> SUFFICES ASSUME PrefInv, [Next]_vars PROVE PrefInv'
  OBVIOUS
<1> USE DEF PrefInv
<1>0. Holders \in SUBSET Users /\ refcount = Cardinality(Holders)
  BY DEF Holders, RefcountExact
<1>1. ASSUME NEW u \in Users, Get(u) PROVE PrefInv'
  <2>1. TypeOK'
    BY <1>1 DEF Get, TypeOK
  <2>2. Holders' = Holders \cup {u} /\ u \notin Holders
    BY <1>1 DEF Get, Holders, TypeOK
  <2>3. RefcountExact'
    BY <1>0, <1>1, <2>2, HolderCount DEF Get, RefcountExact
  <2>4. Withdrawn' /\ NoHolderAfterFree'
    BY <1>1 DEF Get, Withdrawn, NoHolderAfterFree
  <2>5. QED
    BY <2>1, <2>3, <2>4
<1>2. ASSUME NEW u \in Users, PutDecrement(u) PROVE PrefInv'
  <2>1. Holders' = Holders \ {u} /\ u \in Holders
    BY <1>2 DEF PutDecrement, Holders, TypeOK
  <2>2. Cardinality(Holders) > 0 /\ Cardinality(Holders') = Cardinality(Holders) - 1
    BY <1>0, <2>1, HolderCount
  <2>3. refcount' = refcount - 1 /\ refcount' \in Nat
    BY <1>0, <1>2, <2>2, HolderCount DEF PutDecrement, TypeOK
  <2>4. TypeOK'
    BY <1>2, <2>3 DEF PutDecrement, TypeOK
  <2>5. RefcountExact'
    BY <1>0, <2>2, <2>3 DEF RefcountExact
  <2>6. Withdrawn' /\ NoHolderAfterFree'
    BY <1>2, <2>1 DEF PutDecrement, Withdrawn, NoHolderAfterFree
  <2>7. QED
    BY <2>4, <2>5, <2>6
<1>3. ASSUME NEW u \in Users, PutSignal(u) \/ PutReturn(u) PROVE PrefInv'
  <2>1. TypeOK'
    BY <1>3 DEF PutSignal, PutReturn, TypeOK
  <2>2. Holders' = Holders /\ refcount' = refcount /\ published' = published
    BY <1>3 DEF PutSignal, PutReturn, Holders, TypeOK
  <2>3. rpc' = rpc \/ (rpc = "asleep" /\ rpc' = "awake")
    BY <1>3 DEF PutSignal, PutReturn
  <2>4. QED
    BY <2>1, <2>2, <2>3 DEF RefcountExact, Withdrawn, NoHolderAfterFree
<1>4. CASE Withdraw \/ ReleaseCall \/ ReleaseCheck \/ ReleaseSleep \/ ReleaseWake
           \/ ReleaseFree \/ TryRelease
  <2>1. TypeOK'
    BY <1>4 DEF Withdraw, ReleaseCall, ReleaseCheck, ReleaseSleep, ReleaseWake,
                ReleaseFree, TryRelease, TypeOK
  <2>2. Holders' = Holders /\ refcount' = refcount
    BY <1>4 DEF Withdraw, ReleaseCall, ReleaseCheck, ReleaseSleep, ReleaseWake,
                ReleaseFree, TryRelease, Holders
  <2>3. RefcountExact'
    BY <2>2 DEF RefcountExact
  <2>4. Withdrawn'
    BY <1>4 DEF Withdraw, ReleaseCall, ReleaseCheck, ReleaseSleep, ReleaseWake,
                ReleaseFree, TryRelease, Withdrawn
  <2>5. refcount = 0 => Holders = {}
    BY <1>0, HolderCount
  <2>6. NoHolderAfterFree'
    BY <1>4, <2>2, <2>5 DEF Withdraw, ReleaseCall, ReleaseCheck, ReleaseSleep,
                ReleaseWake, ReleaseFree, TryRelease, Withdrawn, NoHolderAfterFree
  <2>7. QED
    BY <2>1, <2>3, <2>4, <2>6
<1>5. CASE UNCHANGED vars
  BY <1>5 DEF vars, TypeOK, RefcountExact, Holders, Withdrawn, NoHolderAfterFree
<1>6. QED
  BY <1>1, <1>2, <1>3, <1>4, <1>5 DEF Next, Put, Release

(***************************************************************************)
(* The reference count always equals the number of references out, so it   *)
(* never becomes negative (the assertion of pref_put).                     *)
(***************************************************************************)
THEOREM CountExact == Spec => [](TypeOK /\ RefcountExact)
<1>1. PrefInv => TypeOK /\ RefcountExact
  BY DEF PrefInv
<1>2. QED
  BY <1>1, PrefInit, PrefStep, PTL DEF Spec

(***************************************************************************)
(* pref_release and pref_try_release never free an object that somebody    *)
(* holds a reference to, although pref_release reads the count unlocked.   *)
(***************************************************************************)
THEOREM FreeSafe == Spec => []NoHolderAfterFree
<1>1. PrefInv => NoHolderAfterFree
  BY DEF PrefInv
<1>2. QED
  BY <1>1, PrefInit, PrefStep, PTL DEF Spec
=============================================================================
