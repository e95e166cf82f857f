------------------------ MODULE OnlineSessionProofs ------------------------
(***************************************************************************)
(* Machine-checked proofs about OnlineSession, for any finite set of       *)
(* processors, any connections and accounts, and any mix of requests.      *)
(***************************************************************************)
EXTENDS OnlineSession, FiniteSetTheorems, TLAPS

(* What is left of a sequence when the element at i is taken out. *)
LEMMA RemoveAtFacts ==
  ASSUME NEW S, NEW q \in Seq(S), NEW i \in 1..Len(q), NEW r,
         r = [j \in 1..(Len(q) - 1) |-> IF j < i THEN q[j] ELSE q[j + 1]]
  PROVE  /\ r \in Seq(S)
         /\ Len(r) = Len(q) - 1
         /\ q[i] \in S
         /\ \A j \in 1..Len(r) :
              \/ (j < i /\ j \in 1..Len(q) /\ r[j] = q[j])
              \/ (j >= i /\ j + 1 \in 1..Len(q) /\ r[j] = q[j + 1])
<1>1. Len(q) \in Nat /\ Len(q) - 1 \in Nat
  OBVIOUS
<1>2. \A j \in 1..(Len(q) - 1) : j \in 1..Len(q) /\ j + 1 \in 1..Len(q)
  BY <1>1
<1>3. \A j \in 1..Len(q) : q[j] \in S
  OBVIOUS
<1>4. r \in [1..(Len(q) - 1) -> S]
  BY <1>2, <1>3
<1>5. r \in Seq(S) /\ Len(r) = Len(q) - 1
  BY <1>1, <1>4
<1>6. QED
  BY <1>2, <1>3, <1>5

(* What Append does to a sequence, element by element. *)
LEMMA AppendFacts ==
  ASSUME NEW S, NEW q \in Seq(S), NEW e \in S
  PROVE  /\ Append(q, e) \in Seq(S)
         /\ Len(Append(q, e)) = Len(q) + 1
         /\ Append(q, e)[Len(q) + 1] = e
         /\ \A i \in 1..Len(q) : Append(q, e)[i] = q[i]
         /\ \A i \in 1..Len(Append(q, e)) : i \in 1..Len(q) \/ i = Len(q) + 1
OBVIOUS

(* The size of a set of processors when one comes or goes. *)
LEMMA HolderCount ==
  ASSUME NEW H \in SUBSET Processors
  PROVE  /\ Cardinality(H) \in Nat
         /\ Cardinality(H) = 0 => H = {}
         /\ \A p \in Processors : p \notin H => Cardinality(H \cup {p}) = Cardinality(H) + 1
         /\ \A p \in H : Cardinality(H \ {p}) = Cardinality(H) - 1
                         /\ Cardinality(H) > 0
<1>1. IsFiniteSet(H)
  BY ProcessorsAssumption, FS_Subset
<1>2. Cardinality(H) \in Nat
  BY <1>1, FS_CardinalityType
<1>3. Cardinality(H) = 0 => H = {}
  BY <1>1, FS_EmptySet
<1>4. ASSUME NEW p \in Processors, p \notin H
      PROVE  Cardinality(H \cup {p}) = Cardinality(H) + 1
  BY <1>1, <1>4, FS_AddElement
<1>5. ASSUME NEW p \in H PROVE Cardinality(H \ {p}) = Cardinality(H) - 1
  BY <1>1, FS_RemoveElement
<1>6. ASSUME NEW p \in H PROVE Cardinality(H) > 0
  BY <1>2, <1>3
<1>7. QED
  BY <1>2, <1>3, <1>4, <1>5, <1>6

(* A bound n of the number of holders when one comes or goes. *)
LEMMA HolderBound ==
  ASSUME NEW H \in SUBSET Processors, NEW n \in Nat, Cardinality(H) <= n,
         NEW p \in Processors
  PROVE  /\ Cardinality(H \ {p}) <= n
         /\ p \in H => n > 0 /\ Cardinality(H \ {p}) <= n - 1
         /\ p \notin H => Cardinality(H \cup {p}) <= n + 1
<1>1. Cardinality(H) \in Nat
  BY HolderCount
<1>2. p \notin H => Cardinality(H \cup {p}) = Cardinality(H) + 1
  BY HolderCount
<1>3. CASE p \in H
  <2>1. Cardinality(H \ {p}) = Cardinality(H) - 1 /\ Cardinality(H) > 0
    BY <1>3, HolderCount
  <2>2. QED
    BY <1>1, <1>3, <2>1
<1>4. CASE p \notin H
  <2>1. H \ {p} = H
    BY <1>4
  <2>2. Cardinality(H \ {p}) = Cardinality(H)
    BY <2>1
  <2>3. QED
    BY <1>1, <1>2, <1>4, <2>2
<1>5. QED
  BY <1>3, <1>4

(* Who holds a session, as a set of processors with a size. *)
LEMMA HoldersType ==
  ASSUME NEW s
  PROVE  Holders(s) \in SUBSET Processors /\ Cardinality(Holders(s)) \in Nat
<1>1. Holders(s) \in SUBSET Processors
  BY DEF Holders
<1>2. QED
  BY <1>1, HolderCount

(* A session of which no reference is counted is held by nobody. *)
LEMMA ZeroUnheld ==
  ASSUME IInv, NEW s \in Sids, Released(s)
  PROVE  \A p \in Processors : ~(proc[p].pc = "holding" /\ proc[p].sid = s)
<1>1. Cardinality(Holders(s)) <= 0
  BY DEF IInv, CountCovers, Released
<1>2. Holders(s) = {}
  BY <1>1, HoldersType, HolderCount
<1>3. QED
  BY <1>2 DEF Holders

(* list_del keeps the list sound and makes one session removed. *)
LEMMA UnlinkStep ==
  ASSUME IInv, NEW i \in 1..Len(list), Unlink(i), nsid' = nsid
  PROVE  /\ list[i] \in Sids
         /\ list' \in Seq(Sids)
         /\ life' \in [Sids -> {"unborn", "listed", "removed", "freed"}]
         /\ ListSound' /\ UnbornAhead'
         /\ life[list[i]] = "listed" /\ life'[list[i]] = "removed"
         /\ \A s \in Sids : s # list[i] => life'[s] = life[s]
<1> USE DEF IInv
<1>1. list \in Seq(Sids)
      /\ life \in [Sids -> {"unborn", "listed", "removed", "freed"}]
  BY DEF TypeOK
<1>2. /\ list' \in Seq(Sids) /\ Len(list') = Len(list) - 1 /\ list[i] \in Sids
      /\ \A j \in 1..Len(list') :
           \/ (j < i /\ j \in 1..Len(list) /\ list'[j] = list[j])
           \/ (j >= i /\ j + 1 \in 1..Len(list) /\ list'[j] = list[j + 1])
  BY <1>1, RemoveAtFacts DEF Unlink
<1>3. life[list[i]] = "listed"
  BY DEF ListSound
<1>4. life' = [life EXCEPT ![list[i]] = "removed"]
  BY DEF Unlink
<1>5. /\ life' \in [Sids -> {"unborn", "listed", "removed", "freed"}]
      /\ life'[list[i]] = "removed"
      /\ \A s \in Sids : s # list[i] => life'[s] = life[s]
  BY <1>1, <1>2, <1>4
<1>6. \A j \in 1..Len(list') : list'[j] \in Sids /\ list'[j] # list[i]
                               /\ life[list'[j]] = "listed"
  BY <1>1, <1>2 DEF ListSound
<1>7. ASSUME NEW j \in 1..Len(list'), NEW k \in 1..Len(list'), list'[j] = list'[k]
      PROVE  j = k
  <2>1. Len(list) \in Nat /\ j \in Nat /\ k \in Nat /\ i \in Nat
    BY <1>1, <1>2
  <2>2. QED
    BY <1>2, <1>7, <2>1 DEF ListSound
<1>8. ListSound'
  BY <1>5, <1>6, <1>7 DEF ListSound
<1>9. UnbornAhead'
  BY <1>2, <1>3, <1>5 DEF UnbornAhead
<1>10. QED
  BY <1>2, <1>3, <1>5, <1>8, <1>9

(* Freeing a removed session leaves the list and the other sessions. *)
LEMMA FreeStep ==
  ASSUME IInv, NEW s \in Sids, life[s] = "removed", Free(s)
  PROVE  /\ list' \in Seq(Sids) /\ nsid' \in 0..MaxLogins
         /\ addr' \in [Sids -> Fds \cup {None}]
         /\ acct' \in [Sids -> Accounts \cup {None}]
         /\ hb' \in [Sids -> BOOLEAN] /\ marked' \in [Sids -> BOOLEAN]
         /\ rc' \in [Sids -> 0..MaxRefs] /\ rc' = rc
         /\ life' \in [Sids -> {"unborn", "listed", "removed", "freed"}]
         /\ ListSound' /\ UnbornAhead'
         /\ life'[s] = "freed"
         /\ \A t \in Sids : t # s => life'[t] = life[t]
<1> USE DEF IInv
<1>1. TypeOK
  OBVIOUS
<1>2. /\ list' \in Seq(Sids) /\ nsid' \in 0..MaxLogins
      /\ addr' \in [Sids -> Fds \cup {None}]
      /\ acct' \in [Sids -> Accounts \cup {None}]
      /\ rc' \in [Sids -> 0..MaxRefs] /\ rc' = rc
  BY <1>1 DEF TypeOK, Free
<1>3. hb' \in [Sids -> BOOLEAN] /\ marked' \in [Sids -> BOOLEAN]
  BY <1>1 DEF TypeOK, Free
<1>4. /\ life' \in [Sids -> {"unborn", "listed", "removed", "freed"}]
      /\ life'[s] = "freed"
      /\ \A t \in Sids : t # s => life'[t] = life[t]
  BY <1>1 DEF TypeOK, Free
<1>5. list' = list /\ nsid' = nsid
  BY DEF Free
<1>6. \A i \in 1..Len(list) : list[i] \in Sids /\ list[i] # s
  BY <1>1 DEF TypeOK, ListSound
<1>7. ListSound'
  BY <1>4, <1>5, <1>6 DEF ListSound
<1>8. UnbornAhead'
  BY <1>4, <1>5 DEF UnbornAhead
<1>9. QED
  BY <1>2, <1>3, <1>4, <1>7, <1>8

(* The service starts with no session and no handler. *)
LEMMA SessionInit == Init => IInv
<1> SUFFICES ASSUME Init PROVE IInv
  OBVIOUS
<1>1. list \in Seq(Sids) /\ nsid \in 0..MaxLogins
  BY BoundsAssumption DEF Init
<1>2. /\ addr \in [Sids -> Fds \cup {None}] /\ acct \in [Sids -> Accounts \cup {None}]
      /\ rc \in [Sids -> 0..MaxRefs]
      /\ life \in [Sids -> {"unborn", "listed", "removed", "freed"}]
  BY BoundsAssumption DEF Init
<1>3. hb \in [Sids -> BOOLEAN] /\ marked \in [Sids -> BOOLEAN]
  BY DEF Init
<1>4. Idle \in Handlers
  BY DEF Idle, Handlers
<1>5. proc \in [Processors -> Handlers]
  BY <1>4 DEF Init
<1>6. /\ tsid \in Sids \cup {NoSid} /\ msid \in Sids \cup {NoSid}
      /\ mpc \in {"running", "destroying", "done"}
  BY DEF Init
<1>7. TypeOK
  BY <1>1, <1>2, <1>3, <1>5, <1>6 DEF TypeOK
<1>8. \A p \in Processors : proc[p].pc = "idle"
  BY DEF Init, Idle
<1>9. ListSound /\ UnbornAhead
  BY DEF Init, ListSound, UnbornAhead
<1>10. SidKnown /\ HeldNotFreed
  BY <1>8 DEF SidKnown, HeldNotFreed
<1>11. CountCovers
  <2> SUFFICES ASSUME NEW s \in Sids PROVE Cardinality(Holders(s)) <= rc[s]
    BY DEF CountCovers
  <2>1. Holders(s) = {}
    BY <1>8 DEF Holders
  <2>2. Cardinality(Holders(s)) = 0
    BY <2>1, FS_EmptySet
  <2>3. QED
    BY <2>2 DEF Init
<1>12. OneRemover
  BY <1>8 DEF Init, OneRemover, RemoversDiffer, RemovedOwned, Removing, Sids, NoSid
<1>13. QED
  BY <1>7, <1>9, <1>10, <1>11, <1>12 DEF IInv

(***************************************************************************)
(* A step of processor p that leaves the sessions alone and neither begins *)
(* nor ends to hold or to wait for a session.                              *)
(***************************************************************************)
LEMMA QuietStep ==
  ASSUME IInv, NEW p \in Processors, NEW h \in Handlers,
         proc' = [proc EXCEPT ![p] = h],
         proc[p].pc # "releasing", h.pc \notin {"releasing", "holding", "after"},
         list' = list, nsid' = nsid, rc' = rc, life' = life,
         addr' = addr, acct' = acct,
         hb' \in [Sids -> BOOLEAN], marked' \in [Sids -> BOOLEAN],
         tsid' = tsid, mpc' = mpc, msid' = msid
  PROVE  IInv'
<1> USE DEF IInv
<1>1. proc \in [Processors -> Handlers]
  BY DEF TypeOK
<1>2. /\ proc' \in [Processors -> Handlers] /\ proc'[p] = h
      /\ \A q \in Processors : q # p => proc'[q] = proc[q]
  BY <1>1
<1>3. TypeOK'
  BY <1>2 DEF TypeOK
<1>4. ListSound' /\ UnbornAhead'
  BY DEF ListSound, UnbornAhead
<1>5. SidKnown' /\ HeldNotFreed'
  BY <1>2 DEF SidKnown, HeldNotFreed
<1>6. ASSUME NEW s \in Sids PROVE Cardinality(Holders(s)') <= rc'[s]
  <2>1. Holders(s)' = Holders(s) \ {p}
    BY <1>2 DEF Holders
  <2>2. rc[s] \in Nat /\ Cardinality(Holders(s)) <= rc[s]
    BY BoundsAssumption DEF CountCovers, TypeOK
  <2>3. Cardinality(Holders(s) \ {p}) <= rc[s]
    BY <2>2, HoldersType, HolderBound
  <2>4. QED
    BY <2>1, <2>3
<1>7. CountCovers'
  BY <1>6 DEF CountCovers
<1>8. \A q \in Processors, s \in Sids : Removing(q, s)' <=> Removing(q, s)
  BY <1>2 DEF Removing
<1>9. OneRemover'
  BY <1>8 DEF OneRemover, RemoversDiffer, RemovedOwned
<1>10. QED
  BY <1>3, <1>4, <1>5, <1>7, <1>9

(* The steps of a handler that leave list, counts and lives alone. *)
LEMMA HandlerQuiet ==
  ASSUME IInv, NEW p \in Processors
  PROVE  /\ \A f \in Fds, a \in Accounts : Login(p, f, a) => IInv'
         /\ AddScanned(p) => IInv'
         /\ PlayReturn(p) => IInv'
         /\ Beat(p) => IInv'
         /\ Mark(p) => IInv'
         /\ UseUuid(p) => IInv'
<1>1. TypeOK /\ proc[p] \in Handlers
  BY DEF IInv, TypeOK
<1>2. Idle \in Handlers /\ Idle.pc = "idle"
  BY DEF Idle, Handlers
<1>3. hb \in [Sids -> BOOLEAN] /\ marked \in [Sids -> BOOLEAN]
  BY <1>1 DEF TypeOK
<1>4. ASSUME NEW f \in Fds, NEW a \in Accounts, Login(p, f, a) PROVE IInv'
  <2> DEFINE h == [Idle EXCEPT !.pc = "scanning", !.fd = f, !.acct = a]
  <2>1. h \in Handlers /\ h.pc = "scanning"
    BY DEF Idle, Handlers
  <2>2. proc' = [proc EXCEPT ![p] = h] /\ proc[p].pc # "releasing"
    BY <1>4 DEF Login
  <2> HIDE DEF h
  <2>3. UNCHANGED <<list, nsid, addr, acct, marked, hb, rc, life, tsid, mpc, msid>>
    BY <1>4 DEF Login, sessVars, attrVars, mainVars
  <2>4. QED
    BY <1>3, <2>1, <2>2, <2>3, QuietStep
<1>5. ASSUME AddScanned(p) PROVE IInv'
  <2> DEFINE h == [proc[p] EXCEPT !.pc = "appending"]
  <2>1. h \in Handlers /\ h.pc = "appending"
    BY <1>1 DEF Handlers
  <2>2. proc' = [proc EXCEPT ![p] = h] /\ proc[p].pc # "releasing"
    BY <1>5 DEF AddScanned
  <2> HIDE DEF h
  <2>3. UNCHANGED <<list, nsid, addr, acct, marked, hb, rc, life, tsid, mpc, msid>>
    BY <1>5 DEF AddScanned, sessVars, attrVars, mainVars
  <2>4. QED
    BY <1>3, <2>1, <2>2, <2>3, QuietStep
<1>6. ASSUME PlayReturn(p) \/ UseUuid(p) PROVE IInv'
  <2>1. proc' = [proc EXCEPT ![p] = Idle] /\ proc[p].pc # "releasing"
    BY <1>6 DEF PlayReturn, UseUuid
  <2>2. UNCHANGED <<list, nsid, addr, acct, marked, hb, rc, life, tsid, mpc, msid>>
    BY <1>6 DEF PlayReturn, UseUuid, sessVars, attrVars, mainVars
  <2>3. QED
    BY <1>2, <1>3, <2>1, <2>2, QuietStep
<1>7. ASSUME Beat(p) PROVE IInv'
  <2>1. proc' = [proc EXCEPT ![p] = Idle] /\ proc[p].pc # "releasing"
    BY <1>7 DEF Beat
  <2>2. UNCHANGED <<list, nsid, addr, acct, marked, rc, life, tsid, mpc, msid>>
    BY <1>7 DEF Beat, attrVars, mainVars
  <2>3. hb' \in [Sids -> BOOLEAN]
    BY <1>3, <1>7 DEF Beat
  <2>4. QED
    BY <1>2, <1>3, <2>1, <2>2, <2>3, QuietStep
<1>8. ASSUME Mark(p) PROVE IInv'
  <2>1. proc' = [proc EXCEPT ![p] = Idle] /\ proc[p].pc # "releasing"
    BY <1>8 DEF Mark
  <2>2. UNCHANGED <<list, nsid, addr, acct, hb, rc, life, tsid, mpc, msid>>
    BY <1>8 DEF Mark, mainVars
  <2>3. marked' \in [Sids -> BOOLEAN]
    BY <1>8 DEF Mark
  <2>4. QED
    BY <1>2, <1>3, <2>1, <2>2, <2>3, QuietStep
<1>9. QED
  BY <1>4, <1>5, <1>6, <1>7, <1>8

(* online_session_ref: a new holder is counted. *)
LEMMA RefStep ==
  ASSUME IInv, NEW p \in Processors, NEW k \in Kinds, NEW f \in Fds, Ref(p, k, f)
  PROVE  IInv'
<1> USE DEF IInv
<1>1. PICK i \in 1..Len(list) :
        /\ rc[list[i]] < MaxRefs
        /\ rc' = [rc EXCEPT ![list[i]] = @ + 1]
        /\ proc' = [proc EXCEPT ![p] =
             [pc |-> "holding", kind |-> k, fd |-> f, acct |-> None, sid |-> list[i]]]
  BY DEF Ref
<1>2. /\ proc[p].pc = "idle"
      /\ UNCHANGED <<list, nsid, addr, acct, marked, hb, life, tsid, mpc, msid>>
  BY DEF Ref, attrVars, mainVars
<1> DEFINE x == list[i]
           h == [pc |-> "holding", kind |-> k, fd |-> f, acct |-> None, sid |-> x]
<1>3. x \in Sids /\ life[x] = "listed"
  BY DEF TypeOK, ListSound
<1>4. h \in Handlers /\ h.pc = "holding" /\ h.sid = x
  BY <1>3, KindsAssumption DEF Handlers
<1>5. proc' = [proc EXCEPT ![p] = h] /\ rc' = [rc EXCEPT ![x] = @ + 1] /\ rc[x] < MaxRefs
  BY <1>1
<1> HIDE DEF x, h
<1>6. /\ proc' \in [Processors -> Handlers] /\ proc'[p] = h
      /\ \A q \in Processors : q # p => proc'[q] = proc[q]
  BY <1>4, <1>5 DEF TypeOK
<1>7. /\ rc' \in [Sids -> 0..MaxRefs] /\ rc'[x] = rc[x] + 1 /\ rc[x] \in Nat
      /\ \A s \in Sids : s # x => rc'[s] = rc[s]
  BY <1>3, <1>5, BoundsAssumption DEF TypeOK
<1>8. TypeOK'
  BY <1>2, <1>6, <1>7 DEF TypeOK
<1>9. ListSound' /\ UnbornAhead'
  BY <1>2 DEF ListSound, UnbornAhead
<1>10. SidKnown' /\ HeldNotFreed'
  BY <1>2, <1>3, <1>4, <1>6 DEF SidKnown, HeldNotFreed
<1>11. ASSUME NEW s \in Sids PROVE Cardinality(Holders(s)') <= rc'[s]
  <2>1. rc[s] \in Nat /\ Cardinality(Holders(s)) <= rc[s]
    BY BoundsAssumption DEF CountCovers, TypeOK
  <2>2. CASE s = x
    <3>1. Holders(s)' = Holders(s) \cup {p} /\ p \notin Holders(s)
      BY <1>2, <1>4, <1>6, <2>2 DEF Holders
    <3>2. Cardinality(Holders(s) \cup {p}) <= rc[s] + 1
      BY <2>1, <3>1, HoldersType, HolderBound
    <3>3. QED
      BY <1>7, <2>2, <3>1, <3>2
  <2>3. CASE s # x
    <3>1. Holders(s)' = Holders(s)
      BY <1>2, <1>4, <1>6, <2>3 DEF Holders
    <3>2. QED
      BY <1>7, <2>1, <2>3, <3>1
  <2>4. QED
    BY <2>2, <2>3
<1>12. CountCovers'
  BY <1>11 DEF CountCovers
<1>13. \A q \in Processors, s \in Sids : Removing(q, s)' <=> Removing(q, s)
  BY <1>2, <1>4, <1>6 DEF Removing
<1>14. OneRemover'
  BY <1>2, <1>13 DEF OneRemover, RemoversDiffer, RemovedOwned
<1>15. QED
  BY <1>8, <1>9, <1>10, <1>12, <1>14

(* online_session_dref: one holder less, and one count less if listed. *)
LEMMA DrefStep ==
  ASSUME IInv, NEW p \in Processors, Dref(p)
  PROVE  IInv'
<1> USE DEF IInv
<1> DEFINE x == proc[p].sid
           h == IF proc[p].kind = "query" THEN Idle ELSE [proc[p] EXCEPT !.pc = "after"]
<1>1. /\ proc[p].pc = "holding" /\ proc' = [proc EXCEPT ![p] = h]
      /\ UNCHANGED <<list, nsid, addr, acct, marked, hb, life, tsid, mpc, msid>>
  BY DEF Dref, attrVars, mainVars
<1>2. x \in Sids
  BY <1>1 DEF SidKnown
<1>3. /\ h \in Handlers /\ h.pc \in {"idle", "after"}
      /\ h.pc = "after" => h.sid = x
  BY DEF TypeOK, Handlers, Idle
<1>4. rc' = rc \/ rc' = [rc EXCEPT ![x] = @ - 1]
  BY DEF Dref
<1> HIDE DEF x, h
<1>5. p \in Holders(x)
  BY <1>1 DEF Holders, x
<1>6. \A s \in Sids : rc[s] \in Nat /\ Cardinality(Holders(s)) <= rc[s]
  BY BoundsAssumption DEF CountCovers, TypeOK
<1>7. rc[x] > 0 /\ Cardinality(Holders(x) \ {p}) <= rc[x] - 1
  BY <1>2, <1>5, <1>6, HoldersType, HolderBound
<1>8. /\ rc' \in [Sids -> 0..MaxRefs]
      /\ \A s \in Sids : s # x => rc'[s] = rc[s]
      /\ rc'[x] = rc[x] \/ rc'[x] = rc[x] - 1
  <2>1. rc \in [Sids -> 0..MaxRefs] /\ MaxRefs \in Nat
    BY BoundsAssumption DEF TypeOK
  <2>2. rc[x] - 1 \in 0..MaxRefs
    BY <1>2, <1>7, <2>1
  <2>3. QED
    BY <1>2, <1>4, <2>1, <2>2
<1>9. /\ proc' \in [Processors -> Handlers] /\ proc'[p] = h
      /\ \A q \in Processors : q # p => proc'[q] = proc[q]
  BY <1>1, <1>3 DEF TypeOK
<1>10. TypeOK'
  BY <1>1, <1>8, <1>9 DEF TypeOK
<1>11. ListSound' /\ UnbornAhead'
  BY <1>1 DEF ListSound, UnbornAhead
<1>12. SidKnown' /\ HeldNotFreed'
  BY <1>1, <1>2, <1>3, <1>9 DEF SidKnown, HeldNotFreed
<1>13. ASSUME NEW s \in Sids PROVE Cardinality(Holders(s)') <= rc'[s]
  <2>1. Holders(s)' = Holders(s) \ {p}
    BY <1>3, <1>9 DEF Holders
  <2>2. CASE s = x
    <3>1. Cardinality(Holders(s) \ {p}) <= rc[s] /\ Cardinality(Holders(s) \ {p}) <= rc[s] - 1
      BY <1>5, <1>6, <2>2, HoldersType, HolderBound
    <3>2. QED
      BY <1>8, <2>1, <2>2, <3>1
  <2>3. CASE s # x
    <3>1. Cardinality(Holders(s) \ {p}) <= rc[s]
      BY <1>6, HoldersType, HolderBound
    <3>2. QED
      BY <1>8, <2>1, <2>3, <3>1
  <2>4. QED
    BY <2>2, <2>3
<1>14. CountCovers'
  BY <1>13 DEF CountCovers
<1>15. \A q \in Processors, s \in Sids : Removing(q, s)' <=> Removing(q, s)
  BY <1>1, <1>3, <1>9 DEF Removing
<1>16. OneRemover'
  BY <1>1, <1>15 DEF OneRemover, RemoversDiffer, RemovedOwned
<1>17. QED
  BY <1>10, <1>11, <1>12, <1>14, <1>16

(* online_session_add unlinks a session and waits for it. *)
LEMMA AddRemoveStep ==
  ASSUME IInv, NEW p \in Processors, AddRemove(p)
  PROVE  IInv'
<1> USE DEF IInv
<1>1. PICK i \in 1..Len(list) :
        /\ Unlink(i)
        /\ proc' = [proc EXCEPT ![p].pc = "releasing", ![p].sid = list[i]]
  BY DEF AddRemove
<1>2. /\ proc[p].pc = "scanning"
      /\ UNCHANGED <<nsid, addr, acct, marked, hb, rc, tsid, mpc, msid>>
  BY DEF AddRemove, attrVars, mainVars
<1> DEFINE x == list[i]
<1>3. /\ x \in Sids /\ list' \in Seq(Sids)
      /\ life' \in [Sids -> {"unborn", "listed", "removed", "freed"}]
      /\ ListSound' /\ UnbornAhead'
      /\ life[x] = "listed" /\ life'[x] = "removed"
      /\ \A s \in Sids : s # x => life'[s] = life[s]
  BY <1>1, <1>2, UnlinkStep
<1> DEFINE h == [proc[p] EXCEPT !.pc = "releasing", !.sid = x]
<1>4. proc' = [proc EXCEPT ![p] = h]
  BY <1>1 DEF TypeOK
<1> HIDE DEF x
<1>4a. h \in Handlers /\ h.pc = "releasing" /\ h.sid = x
  <2>1. proc[p] \in Handlers
    BY DEF TypeOK
  <2>2. QED
    BY <1>3, <2>1 DEF Handlers
<1> HIDE DEF h
<1>5. /\ proc' \in [Processors -> Handlers]
      /\ proc'[p].pc = "releasing" /\ proc'[p].sid = x
      /\ \A q \in Processors : q # p => proc'[q] = proc[q]
  BY <1>4, <1>4a DEF TypeOK
<1>6. TypeOK'
  BY <1>2, <1>3, <1>5 DEF TypeOK
<1>7. SidKnown'
  BY <1>3, <1>5 DEF SidKnown
<1>8. HeldNotFreed'
  BY <1>3, <1>5 DEF HeldNotFreed, SidKnown
<1>9. \A s \in Sids : Holders(s)' = Holders(s)
  BY <1>2, <1>5 DEF Holders
<1>10. CountCovers'
  BY <1>2, <1>9 DEF CountCovers
<1>11. /\ \A s \in Sids : Removing(p, s)' <=> s = x
       /\ \A s \in Sids : ~Removing(p, s)
       /\ \A q \in Processors, s \in Sids : q # p => (Removing(q, s)' <=> Removing(q, s))
  BY <1>2, <1>5 DEF Removing
<1>12. x # tsid /\ x # msid /\ \A q \in Processors : ~Removing(q, x)
  BY <1>3 DEF OneRemover, RemovedOwned
<1>13. RemoversDiffer'
  BY <1>2, <1>11, <1>12 DEF OneRemover, RemoversDiffer
<1>14. RemovedOwned'
  BY <1>2, <1>3, <1>11, <1>12 DEF OneRemover, RemovedOwned
<1>15. QED
  BY <1>3, <1>6, <1>7, <1>8, <1>10, <1>13, <1>14 DEF OneRemover

(* The clock and the shutdown unlink a session and wait for it. *)
LEMMA OtherRemoveStep ==
  ASSUME IInv, TickRemove \/ DestroyRemove
  PROVE  IInv'
<1> USE DEF IInv
<1>1. PICK i \in 1..Len(list) :
        /\ Unlink(i)
        /\ \/ tsid = NoSid /\ tsid' = list[i] /\ msid' = msid
           \/ msid = NoSid /\ msid' = list[i] /\ tsid' = tsid
  <2>1. CASE TickRemove
    BY <2>1 DEF TickRemove, mainVars
  <2>2. CASE DestroyRemove
    <3>1. 1 \in 1..Len(list)
      BY <2>2 DEF DestroyRemove, TypeOK
    <3>2. QED
      BY <2>2, <3>1 DEF DestroyRemove
  <2>3. QED
    BY <2>1, <2>2
<1>2. UNCHANGED <<nsid, addr, acct, marked, rc, proc, mpc>>
  BY DEF TickRemove, DestroyRemove, attrVars, mainVars
<1>3. hb' \in [Sids -> BOOLEAN]
  <2>1. CASE TickRemove
    BY <2>1 DEF TickRemove
  <2>2. CASE DestroyRemove
    BY <2>2 DEF DestroyRemove, TypeOK
  <2>3. QED
    BY <2>1, <2>2
<1> DEFINE x == list[i]
<1>4. /\ x \in Sids /\ list' \in Seq(Sids)
      /\ life' \in [Sids -> {"unborn", "listed", "removed", "freed"}]
      /\ ListSound' /\ UnbornAhead'
      /\ life[x] = "listed" /\ life'[x] = "removed"
      /\ \A s \in Sids : s # x => life'[s] = life[s]
  BY <1>1, <1>2, UnlinkStep
<1>5. \/ tsid = NoSid /\ tsid' = x /\ msid' = msid
      \/ msid = NoSid /\ msid' = x /\ tsid' = tsid
  BY <1>1
<1> HIDE DEF x
<1>6. TypeOK'
  BY <1>2, <1>3, <1>4, <1>5 DEF TypeOK
<1>7. SidKnown' /\ HeldNotFreed'
  BY <1>2, <1>4 DEF SidKnown, HeldNotFreed
<1>8. CountCovers'
  BY <1>2 DEF CountCovers, Holders
<1>9. \A q \in Processors, s \in Sids : Removing(q, s)' <=> Removing(q, s)
  BY <1>2 DEF Removing
<1>10. x # tsid /\ x # msid /\ \A q \in Processors : ~Removing(q, x)
  BY <1>4 DEF OneRemover, RemovedOwned
<1>11. NoSid \notin Sids
  BY DEF NoSid, Sids
<1>12. RemoversDiffer'
  BY <1>4, <1>5, <1>9, <1>10, <1>11 DEF OneRemover, RemoversDiffer
<1>13. RemovedOwned'
  BY <1>4, <1>5, <1>9, <1>10, <1>11 DEF OneRemover, RemovedOwned
<1>14. QED
  BY <1>4, <1>6, <1>7, <1>8, <1>12, <1>13 DEF OneRemover

(* online_session_add frees the session it waited for. *)
LEMMA AddFreeStep ==
  ASSUME IInv, NEW p \in Processors, AddFree(p)
  PROVE  IInv'
<1> USE DEF IInv
<1> DEFINE x == proc[p].sid
           h == [proc[p] EXCEPT !.pc = "scanning", !.sid = NoSid]
<1>1. /\ proc[p].pc = "releasing" /\ Released(x) /\ Free(x)
      /\ proc' = [proc EXCEPT ![p] = h]
      /\ UNCHANGED <<tsid, mpc, msid>>
  BY DEF AddFree, TypeOK, mainVars
<1>2. proc[p] \in Handlers
  BY DEF TypeOK
<1>3. h \in Handlers /\ h.pc = "scanning"
  BY <1>2 DEF Handlers
<1>4. x \in Sids
  BY <1>1 DEF SidKnown
<1> HIDE DEF h
<1>5. Removing(p, x)
  BY <1>1 DEF Removing
<1> HIDE DEF x
<1>6. life[x] = "removed"
  BY <1>4, <1>5 DEF OneRemover, RemovedOwned
<1>7. /\ list' \in Seq(Sids) /\ nsid' \in 0..MaxLogins
      /\ addr' \in [Sids -> Fds \cup {None}]
      /\ acct' \in [Sids -> Accounts \cup {None}]
      /\ hb' \in [Sids -> BOOLEAN] /\ marked' \in [Sids -> BOOLEAN]
      /\ rc' \in [Sids -> 0..MaxRefs] /\ rc' = rc
      /\ life' \in [Sids -> {"unborn", "listed", "removed", "freed"}]
      /\ ListSound' /\ UnbornAhead'
      /\ life'[x] = "freed"
      /\ \A t \in Sids : t # x => life'[t] = life[t]
  BY <1>1, <1>4, <1>6, FreeStep
<1>8. /\ proc' \in [Processors -> Handlers] /\ proc'[p] = h
      /\ \A q \in Processors : q # p => proc'[q] = proc[q]
  BY <1>1, <1>3 DEF TypeOK
<1>9. TypeOK'
  BY <1>1, <1>7, <1>8 DEF TypeOK
<1>10. SidKnown'
  BY <1>3, <1>8 DEF SidKnown
<1>11. HeldNotFreed'
  <2>1. \A q \in Processors : ~(proc[q].pc = "holding" /\ proc[q].sid = x)
    BY <1>1, <1>4, ZeroUnheld
  <2>2. QED
    BY <1>3, <1>7, <1>8, <2>1 DEF HeldNotFreed, SidKnown
<1>12. \A s \in Sids : Holders(s)' = Holders(s)
  BY <1>1, <1>3, <1>8 DEF Holders
<1>13. CountCovers'
  BY <1>7, <1>12 DEF CountCovers
<1>14. /\ \A s \in Sids : ~Removing(p, s)'
       /\ \A s \in Sids : Removing(p, s) => s = x
       /\ \A q \in Processors, s \in Sids : q # p => (Removing(q, s)' <=> Removing(q, s))
  BY <1>3, <1>8 DEF Removing, x
<1>15. x # tsid /\ x # msid /\ \A q \in Processors : Removing(q, x) => q = p
  BY <1>4, <1>5 DEF OneRemover, RemoversDiffer
<1>16. RemoversDiffer'
  BY <1>1, <1>14 DEF OneRemover, RemoversDiffer
<1>17. ASSUME NEW s \in Sids
       PROVE  life'[s] = "removed"
                <=> (s = tsid' \/ s = msid' \/ \E q \in Processors : Removing(q, s)')
  <2>1. CASE s = x
    <3>1. \A q \in Processors : ~Removing(q, s)'
      BY <1>14, <1>15, <2>1
    <3>2. s # tsid' /\ s # msid' /\ life'[s] # "removed"
      BY <1>1, <1>7, <1>15, <2>1
    <3>3. QED
      BY <3>1, <3>2
  <2>2. CASE s # x
    <3>1. (\E q \in Processors : Removing(q, s)') <=> (\E q \in Processors : Removing(q, s))
      BY <1>14, <2>2
    <3>2. QED
      BY <1>1, <1>7, <2>2, <3>1 DEF OneRemover, RemovedOwned
  <2>3. QED
    BY <2>1, <2>2
<1>18. RemovedOwned'
  BY <1>17 DEF RemovedOwned
<1>19. QED
  BY <1>7, <1>9, <1>10, <1>11, <1>13, <1>16, <1>18 DEF OneRemover

(* The clock and the shutdown free the session they waited for. *)
LEMMA OtherFreeStep ==
  ASSUME IInv, TickFree \/ DestroyFree
  PROVE  IInv'
<1> USE DEF IInv
<1>1. PICK x \in Sids :
        /\ Released(x) /\ Free(x)
        /\ \/ tsid = x /\ tsid' = NoSid /\ msid' = msid
           \/ msid = x /\ msid' = NoSid /\ tsid' = tsid
  BY DEF TickFree, DestroyFree, TypeOK, mainVars
<1>2. UNCHANGED <<proc, mpc>>
  BY DEF TickFree, DestroyFree, mainVars
<1>3. life[x] = "removed"
  BY <1>1 DEF OneRemover, RemovedOwned
<1>4. /\ list' \in Seq(Sids) /\ nsid' \in 0..MaxLogins
      /\ addr' \in [Sids -> Fds \cup {None}]
      /\ acct' \in [Sids -> Accounts \cup {None}]
      /\ hb' \in [Sids -> BOOLEAN] /\ marked' \in [Sids -> BOOLEAN]
      /\ rc' \in [Sids -> 0..MaxRefs] /\ rc' = rc
      /\ life' \in [Sids -> {"unborn", "listed", "removed", "freed"}]
      /\ ListSound' /\ UnbornAhead'
      /\ life'[x] = "freed"
      /\ \A t \in Sids : t # x => life'[t] = life[t]
  BY <1>1, <1>3, FreeStep
<1>5. TypeOK'
  BY <1>1, <1>2, <1>4 DEF TypeOK
<1>6. SidKnown'
  BY <1>2 DEF SidKnown
<1>7. HeldNotFreed'
  <2>1. \A q \in Processors : ~(proc[q].pc = "holding" /\ proc[q].sid = x)
    BY <1>1, ZeroUnheld
  <2>2. QED
    BY <1>2, <1>4, <2>1 DEF HeldNotFreed, SidKnown
<1>8. CountCovers'
  BY <1>2, <1>4 DEF CountCovers, Holders
<1>9. \A q \in Processors, s \in Sids : Removing(q, s)' <=> Removing(q, s)
  BY <1>2 DEF Removing
<1>10. NoSid \notin Sids
  BY DEF NoSid, Sids
<1>11. (\A q \in Processors : ~Removing(q, x)) /\ ~(tsid = x /\ msid = x)
  BY <1>1, <1>10 DEF OneRemover, RemoversDiffer
<1>12. RemoversDiffer'
  BY <1>1, <1>9, <1>10, <1>11 DEF OneRemover, RemoversDiffer
<1>13. RemovedOwned'
  BY <1>1, <1>4, <1>9, <1>10, <1>11, SMTT(20) DEF OneRemover, RemovedOwned
<1>14. QED
  BY <1>4, <1>5, <1>6, <1>7, <1>8, <1>12, <1>13 DEF OneRemover

(* online_session_add appends a session nobody knows yet. *)
LEMMA AddAppendStep ==
  ASSUME IInv, NEW p \in Processors, AddAppend(p)
  PROVE  IInv'
<1> USE DEF IInv
<1> DEFINE n == nsid + 1
<1>1. /\ proc[p].pc = "appending" /\ nsid < MaxLogins
      /\ nsid' = n /\ list' = Append(list, n)
      /\ addr' = [addr EXCEPT ![n] = proc[p].fd]
      /\ acct' = [acct EXCEPT ![n] = proc[p].acct]
      /\ hb' = [hb EXCEPT ![n] = TRUE]
      /\ life' = [life EXCEPT ![n] = "listed"]
      /\ proc' = [proc EXCEPT ![p] = Idle]
      /\ UNCHANGED <<marked, rc, tsid, mpc, msid>>
  BY DEF AddAppend, mainVars
<1>2. n \in Sids /\ nsid \in Nat /\ n \in 0..MaxLogins /\ n > nsid
  BY <1>1, BoundsAssumption DEF TypeOK, Sids
<1>3. life[n] = "unborn"
  BY <1>2 DEF UnbornAhead
<1>4. \A s \in Sids : s > n => s > nsid
  BY <1>2 DEF Sids
<1> HIDE DEF n
<1>5. proc[p] \in Handlers /\ Idle \in Handlers /\ Idle.pc = "idle"
  BY DEF TypeOK, Idle, Handlers
<1>6. /\ proc' \in [Processors -> Handlers] /\ proc'[p].pc = "idle"
      /\ \A q \in Processors : q # p => proc'[q] = proc[q]
  BY <1>1, <1>5 DEF TypeOK
<1>7. /\ list' \in Seq(Sids) /\ Len(list') = Len(list) + 1 /\ Len(list) \in Nat
      /\ list'[Len(list) + 1] = n
      /\ \A i \in 1..Len(list) : list'[i] = list[i]
      /\ \A i \in 1..Len(list') : i \in 1..Len(list) \/ i = Len(list) + 1
  <2>1. list \in Seq(Sids)
    BY DEF TypeOK
  <2>2. Len(list) \in Nat
    BY <2>1
  <2>3. QED
    BY <1>1, <1>2, <2>1, <2>2, AppendFacts
<1>8. /\ life' \in [Sids -> {"unborn", "listed", "removed", "freed"}]
      /\ life'[n] = "listed"
      /\ \A s \in Sids : s # n => life'[s] = life[s]
  BY <1>1, <1>2 DEF TypeOK
<1>9. /\ addr' \in [Sids -> Fds \cup {None}]
      /\ acct' \in [Sids -> Accounts \cup {None}]
  BY <1>1, <1>5 DEF TypeOK, Handlers
<1>10. hb' \in [Sids -> BOOLEAN] /\ marked' \in [Sids -> BOOLEAN]
  BY <1>1 DEF TypeOK
<1>11. nsid' \in 0..MaxLogins
  BY <1>1, <1>2
<1>12. TypeOK'
  BY <1>1, <1>6, <1>7, <1>8, <1>9, <1>10, <1>11 DEF TypeOK
<1>13. \A i \in 1..Len(list) : list[i] \in Sids /\ list[i] # n
  BY <1>3 DEF ListSound, TypeOK
<1>14. ListSound'
  <2>1. \A i \in 1..Len(list') : life'[list'[i]] = "listed"
    BY <1>7, <1>8, <1>13 DEF ListSound
  <2>2. \A i, j \in 1..Len(list') : list'[i] = list'[j] => i = j
    BY <1>7, <1>13 DEF ListSound
  <2>3. QED
    BY <2>1, <2>2 DEF ListSound
<1>15. UnbornAhead'
  <2> SUFFICES ASSUME NEW s \in Sids, s > n PROVE life'[s] = "unborn"
    BY <1>1 DEF UnbornAhead
  <2>1. s # n
    BY <1>2 DEF Sids
  <2>2. QED
    BY <1>4, <1>8, <2>1 DEF UnbornAhead
<1>16. SidKnown' /\ HeldNotFreed'
  BY <1>6, <1>8 DEF SidKnown, HeldNotFreed
<1>17. \A s \in Sids : Holders(s)' = Holders(s)
  BY <1>1, <1>6 DEF Holders
<1>18. CountCovers'
  BY <1>1, <1>17 DEF CountCovers
<1>19. \A q \in Processors, s \in Sids : Removing(q, s)' <=> Removing(q, s)
  BY <1>1, <1>6 DEF Removing
<1>20. RemoversDiffer'
  BY <1>1, <1>19 DEF OneRemover, RemoversDiffer
<1>21. RemovedOwned'
  BY <1>1, <1>2, <1>3, <1>8, <1>19 DEF OneRemover, RemovedOwned
<1>22. QED
  BY <1>12, <1>14, <1>15, <1>16, <1>18, <1>20, <1>21 DEF OneRemover

(* The steps of the clock and of the shutdown that remove nothing. *)
LEMMA OtherQuiet ==
  ASSUME IInv, TickAll \/ DestroyStart \/ DestroyDone \/ UNCHANGED vars
  PROVE  IInv'
<1> USE DEF IInv
<1>1. /\ UNCHANGED <<list, nsid, addr, acct, marked, rc, life, proc, tsid, msid>>
      /\ mpc' \in {"running", "destroying", "done"}
  BY DEF TickAll, DestroyStart, DestroyDone, vars, sessVars, attrVars, mainVars, TypeOK
<1>2. hb' \in [Sids -> BOOLEAN]
  <2>1. CASE TickAll
    BY <2>1 DEF TickAll
  <2>2. CASE DestroyStart \/ DestroyDone \/ UNCHANGED vars
    BY <2>2 DEF DestroyStart, DestroyDone, vars, sessVars, TypeOK
  <2>3. QED
    BY <2>1, <2>2
<1>3. TypeOK'
  BY <1>1, <1>2 DEF TypeOK
<1>4. ListSound' /\ UnbornAhead' /\ SidKnown' /\ HeldNotFreed'
  BY <1>1 DEF ListSound, UnbornAhead, SidKnown, HeldNotFreed
<1>5. CountCovers'
  BY <1>1 DEF CountCovers, Holders
<1>6. OneRemover'
  BY <1>1 DEF OneRemover, RemoversDiffer, RemovedOwned, Removing
<1>7. QED
  BY <1>3, <1>4, <1>5, <1>6

(* The invariant is kept by every step of handlers, clock and shutdown. *)
LEMMA SessionStep == IInv /\ [Next]_vars => IInv'
<1> SUFFICES ASSUME IInv, [Next]_vars PROVE IInv'
  OBVIOUS
<1>1. ASSUME NEW p \in Processors, Request(p) PROVE IInv'
  BY <1>1, HandlerQuiet, RefStep DEF Request
<1>2. ASSUME NEW p \in Processors, Handler(p) PROVE IInv'
  BY <1>2, HandlerQuiet, AddRemoveStep, AddFreeStep, AddAppendStep, DrefStep
     DEF Handler
<1>3. CASE Tick
  BY <1>3, OtherRemoveStep, OtherFreeStep, OtherQuiet DEF Tick
<1>4. CASE Destroy
  BY <1>4, OtherRemoveStep, OtherFreeStep, OtherQuiet DEF Destroy
<1>5. CASE UNCHANGED vars
  BY <1>5, OtherQuiet
<1>6. QED
  BY <1>1, <1>2, <1>3, <1>4, <1>5 DEF Next

(* IInv holds in every reachable state of the service. *)
THEOREM Invariance == Spec => []IInv
<1>1. QED
  BY SessionInit, SessionStep, PTL DEF Spec

(* The session table and the threads keep their types; in particular no    *)
(* reference count goes below zero.                                        *)
THEOREM TypeCorrect == Spec => []TypeOK
<1>1. IInv => TypeOK
  BY DEF IInv
<1>2. QED
  BY <1>1, Invariance, PTL

(* However logins, clock and shutdown interleave, pref_release keeps a     *)
(* session alive as long as a handler is between online_session_ref and    *)
(* online_session_dref.                                                    *)
THEOREM HeldSafe == Spec => []HeldNotFreed
<1>1. IInv => HeldNotFreed
  BY DEF IInv
<1>2. QED
  BY <1>1, Invariance, PTL

(* No two of login, clock and shutdown free the same session, and a        *)
(* session taken out of session_list is never forgotten.                   *)
THEOREM RemovedOnce == Spec => []OneRemover
<1>1. IInv => OneRemover
  BY DEF IInv
<1>2. QED
  BY <1>1, Invariance, PTL

-----------------------------------------------------------------------------
(* One session of an account and of a connection *)

(* The list has no session in conflict with a login that has searched it. *)
Searched ==
  \A p \in Processors : proc[p].pc = "appending" => \A i \in 1..Len(list) : ~Conflict(p, list[i])

(* The invariant SessionsDistinct needs, besides IInv *)
Apart == SessionsDistinct /\ Searched

(* A step after which the list has no session it did not have: place i of   *)
(* it was place at[i].                                                      *)
LEMMA ApartStays ==
  ASSUME Apart, NEW at,
         \A i \in 1..Len(list') :
           /\ at[i] \in 1..Len(list) /\ list'[i] = list[at[i]]
           /\ addr'[list'[i]] = addr[list'[i]] /\ acct'[list'[i]] = acct[list'[i]],
         \A i, j \in 1..Len(list') : i # j => at[i] # at[j],
         \A p \in Processors : proc'[p].pc = "appending" => proc'[p] = proc[p]
  PROVE  Apart'
<1>1. ASSUME NEW i \in 1..Len(list'), NEW j \in 1..Len(list'), i # j
      PROVE  acct'[list'[i]] # acct'[list'[j]] /\ addr'[list'[i]] # addr'[list'[j]]
  <2>1. at[i] \in 1..Len(list) /\ at[j] \in 1..Len(list) /\ at[i] # at[j]
    BY <1>1
  <2>2. acct[list[at[i]]] # acct[list[at[j]]] /\ addr[list[at[i]]] # addr[list[at[j]]]
    BY <2>1 DEF Apart, SessionsDistinct
  <2>3. QED
    BY <2>2
<1>2. Searched'
  BY DEF Apart, Searched, Conflict, OnFd
<1>3. QED
  BY <1>1, <1>2 DEF Apart, SessionsDistinct

(* The steps that leave the list, the addresses and the accounts alone *)
LEMMA ApartQuiet ==
  ASSUME Apart, UNCHANGED <<list, addr, acct>>,
         \A p \in Processors : proc'[p].pc = "appending" => proc'[p] = proc[p]
  PROVE  Apart'
<1> DEFINE at == [i \in 1..Len(list) |-> i]
<1>1. \A i \in 1..Len(list') : at[i] = i
  OBVIOUS
<1> HIDE DEF at
<1>2. QED
  BY <1>1, ApartStays

(* list_del *)
LEMMA ApartUnlink ==
  ASSUME IInv, Apart, NEW i \in 1..Len(list), Unlink(i), UNCHANGED <<addr, acct>>,
         \A p \in Processors : proc'[p].pc = "appending" => proc'[p] = proc[p]
  PROVE  Apart'
<1> DEFINE at == [j \in 1..Len(list') |-> IF j < i THEN j ELSE j + 1]
<1>1. list \in Seq(Sids)
  BY DEF IInv, TypeOK
<1>2. /\ Len(list') = Len(list) - 1
      /\ \A j \in 1..Len(list') :
           \/ (j < i /\ j \in 1..Len(list) /\ list'[j] = list[j])
           \/ (j >= i /\ j + 1 \in 1..Len(list) /\ list'[j] = list[j + 1])
  BY <1>1, RemoveAtFacts DEF Unlink
<1>3. Len(list) \in Nat /\ i \in Nat /\ \A j \in 1..Len(list') : j \in Nat
  BY <1>1, <1>2
<1>4. ASSUME NEW j \in 1..Len(list') PROVE at[j] \in 1..Len(list) /\ list'[j] = list[at[j]]
  BY <1>2, <1>3
<1>5. \A j, k \in 1..Len(list') : j # k => at[j] # at[k]
  BY <1>3
<1> HIDE DEF at
<1>6. QED
  BY <1>4, <1>5, ApartStays

(* xfree of a session that is not in the list any more *)
LEMMA ApartFree ==
  ASSUME IInv, Apart, NEW s \in Sids, life[s] = "removed", Free(s),
         \A p \in Processors : proc'[p].pc = "appending" => proc'[p] = proc[p]
  PROVE  Apart'
<1> DEFINE at == [i \in 1..Len(list) |-> i]
<1>1. list' = list /\ \A i \in 1..Len(list) : list[i] \in Sids /\ list[i] # s
  BY DEF IInv, TypeOK, ListSound, Free
<1>2. \A t \in Sids : t # s => addr'[t] = addr[t] /\ acct'[t] = acct[t]
  BY DEF IInv, TypeOK, Free
<1>3. \A i \in 1..Len(list') : at[i] = i
  BY <1>1
<1> HIDE DEF at
<1>4. QED
  BY <1>1, <1>2, <1>3, ApartStays

(***************************************************************************)
(* A login appends a session that is in conflict with none: nobody else    *)
(* appended one since it searched.                                         *)
(***************************************************************************)
LEMMA ApartAppend ==
  ASSUME IInv, Apart, NEW p \in Processors, AddAppend(p), \A q \in Processors : q = p
  PROVE  Apart'
<1> DEFINE n == nsid + 1
<1>1. /\ proc[p].pc = "appending" /\ nsid < MaxLogins /\ list' = Append(list, n)
      /\ addr' = [addr EXCEPT ![n] = proc[p].fd]
      /\ acct' = [acct EXCEPT ![n] = proc[p].acct]
      /\ proc' = [proc EXCEPT ![p] = Idle]
  BY DEF AddAppend
<1>2. n \in Sids /\ n > nsid
  BY <1>1, BoundsAssumption DEF IInv, TypeOK, Sids
<1>3. life[n] = "unborn"
  BY <1>2 DEF IInv, UnbornAhead
<1> HIDE DEF n
<1>4. list \in Seq(Sids) /\ Len(list) \in Nat
  BY DEF IInv, TypeOK
<1>5. \A i \in 1..Len(list) : list[i] \in Sids /\ list[i] # n
  BY <1>3, <1>4 DEF IInv, ListSound
<1>6. /\ Len(list') = Len(list) + 1 /\ list'[Len(list) + 1] = n
      /\ \A i \in 1..Len(list) : list'[i] = list[i]
      /\ \A i \in 1..Len(list') : i \in 1..Len(list) \/ i = Len(list) + 1
  BY <1>1, <1>2, <1>4, AppendFacts
<1>7. /\ addr'[n] = proc[p].fd /\ acct'[n] = proc[p].acct
      /\ \A s \in Sids : s # n => addr'[s] = addr[s] /\ acct'[s] = acct[s]
  BY <1>1, <1>2 DEF IInv, TypeOK
<1>8. \A i \in 1..Len(list) : acct[list[i]] # proc[p].acct /\ addr[list[i]] # proc[p].fd
  BY <1>1 DEF Apart, Searched, Conflict, OnFd
<1>9. SessionsDistinct'
  BY <1>5, <1>6, <1>7, <1>8 DEF Apart, SessionsDistinct
<1>10. proc'[p].pc = "idle"
  BY <1>1 DEF IInv, TypeOK, Idle
<1>11. Searched'
  BY <1>10 DEF Searched
<1>12. QED
  BY <1>9, <1>11 DEF Apart

(* What a step does to the handler of one processor *)
LEMMA HandlerSet ==
  ASSUME IInv, NEW p \in Processors, NEW h, proc' = [proc EXCEPT ![p] = h], h.pc # "appending"
  PROVE  \A q \in Processors : proc'[q].pc = "appending" => proc'[q] = proc[q]
BY DEF IInv, TypeOK

(* No step of a handler brings two sessions in conflict. *)
LEMMA ApartHandler ==
  ASSUME IInv, Apart, NEW p \in Processors, Request(p) \/ Handler(p), \A q \in Processors : q = p
  PROVE  Apart'
<1>0. proc[p] \in Handlers
  BY DEF IInv, TypeOK
<1>1. CASE \/ \E f \in Fds, a \in Accounts : Login(p, f, a)
           \/ \E f \in Fds, k \in Kinds : Ref(p, k, f)
           \/ Dref(p) \/ PlayReturn(p) \/ Beat(p) \/ Mark(p) \/ UseUuid(p)
  <2>1. UNCHANGED <<list, addr, acct>>
    BY <1>1 DEF Login, Ref, Dref, PlayReturn, Beat, Mark, UseUuid, sessVars, attrVars
  <2>2. \E h : proc' = [proc EXCEPT ![p] = h] /\ h.pc # "appending"
    <3>1. CASE \E f \in Fds, a \in Accounts : Login(p, f, a)
      <4>1. PICK f \in Fds, a \in Accounts : Login(p, f, a)
        BY <3>1
      <4> DEFINE h == [Idle EXCEPT !.pc = "scanning", !.fd = f, !.acct = a]
      <4>2. proc' = [proc EXCEPT ![p] = h]
        BY <4>1 DEF Login
      <4>3. h.pc = "scanning"
        BY DEF Idle
      <4>4. QED
        BY <4>2, <4>3
    <3>2. CASE \E f \in Fds, k \in Kinds : Ref(p, k, f)
      <4>1. PICK f \in Fds, k \in Kinds : Ref(p, k, f)
        BY <3>2
      <4>2. PICK i \in 1..Len(list) :
              proc' = [proc EXCEPT ![p] = [pc |-> "holding", kind |-> k, fd |-> f, acct |-> None, sid |-> list[i]]]
        BY <4>1 DEF Ref
      <4> DEFINE h == [pc |-> "holding", kind |-> k, fd |-> f, acct |-> None, sid |-> list[i]]
      <4>3. proc' = [proc EXCEPT ![p] = h] /\ h.pc = "holding"
        BY <4>2
      <4> HIDE DEF h
      <4>4. QED
        BY <4>3
    <3>3. CASE Dref(p)
      <4>1. \/ proc' = [proc EXCEPT ![p] = Idle]
            \/ proc' = [proc EXCEPT ![p] = [proc[p] EXCEPT !.pc = "after"]]
        BY <3>3 DEF Dref, IInv, TypeOK
      <4>2. Idle.pc = "idle" /\ [proc[p] EXCEPT !.pc = "after"].pc = "after"
        BY <1>0 DEF Idle, Handlers
      <4>3. QED
        BY <4>1, <4>2
    <3>4. CASE PlayReturn(p) \/ Beat(p) \/ Mark(p) \/ UseUuid(p)
      <4>1. proc' = [proc EXCEPT ![p] = Idle] /\ Idle.pc = "idle"
        BY <3>4 DEF PlayReturn, Beat, Mark, UseUuid, Idle
      <4>2. QED
        BY <4>1
    <3>5. QED
      BY <1>1, <3>1, <3>2, <3>3, <3>4
  <2>3. QED
    BY <2>1, <2>2, HandlerSet, ApartQuiet
<1>2. CASE AddScanned(p)
  <2>1. UNCHANGED <<list, addr, acct>> /\ \A i \in 1..Len(list) : ~Conflict(p, list[i])
    BY <1>2 DEF AddScanned, sessVars, attrVars
  <2>2. proc'[p].fd = proc[p].fd /\ proc'[p].acct = proc[p].acct
    BY <1>0, <1>2 DEF AddScanned, IInv, TypeOK, Handlers
  <2>3. SessionsDistinct'
    BY <2>1 DEF Apart, SessionsDistinct
  <2>4. Searched'
    BY <2>1, <2>2 DEF Searched, Conflict, OnFd
  <2>5. QED
    BY <2>3, <2>4 DEF Apart
<1>3. CASE AddRemove(p)
  <2>1. PICK i \in 1..Len(list) :
          Unlink(i) /\ proc' = [proc EXCEPT ![p].pc = "releasing", ![p].sid = list[i]]
    BY <1>3 DEF AddRemove
  <2>2. UNCHANGED <<addr, acct>>
    BY <1>3 DEF AddRemove, attrVars
  <2>3. proc'[p].pc = "releasing"
    BY <1>0, <2>1 DEF IInv, TypeOK, Handlers
  <2>4. \A q \in Processors : proc'[q].pc = "appending" => proc'[q] = proc[q]
    BY <2>3
  <2>5. QED
    BY <2>1, <2>2, <2>4, ApartUnlink
<1>4. CASE AddFree(p)
  <2>1. proc[p].pc = "releasing" /\ Free(proc[p].sid)
    BY <1>4 DEF AddFree
  <2>2. proc[p].sid \in Sids /\ life[proc[p].sid] = "removed"
    BY <2>1 DEF IInv, SidKnown, OneRemover, RemovedOwned, Removing
  <2>3. proc'[p].pc = "scanning"
    BY <1>0, <1>4 DEF AddFree, IInv, TypeOK, Handlers
  <2>4. \A q \in Processors : proc'[q].pc = "appending" => proc'[q] = proc[q]
    BY <2>3
  <2>5. QED
    BY <2>1, <2>2, <2>4, ApartFree
<1>5. CASE AddAppend(p)
  BY <1>5, ApartAppend
<1>6. QED
  BY <1>1, <1>2, <1>3, <1>4, <1>5 DEF Request, Handler

(* Nor does one of the clock or of the shutdown. *)
LEMMA ApartOther ==
  ASSUME IInv, Apart, Tick \/ Destroy \/ UNCHANGED vars
  PROVE  Apart'
<1>1. proc' = proc
  BY DEF Tick, TickRemove, TickAll, TickFree, Destroy, DestroyStart, DestroyRemove, DestroyFree,
         DestroyDone, vars
<1>2. CASE TickAll \/ DestroyStart \/ DestroyDone \/ UNCHANGED vars
  <2>1. UNCHANGED <<list, addr, acct>>
    BY <1>2 DEF TickAll, DestroyStart, DestroyDone, vars, sessVars, attrVars
  <2>2. QED
    BY <1>1, <2>1, ApartQuiet
<1>3. CASE TickRemove \/ DestroyRemove
  <2>1. \E i \in 1..Len(list) : Unlink(i)
    <3>1. CASE TickRemove
      BY <3>1 DEF TickRemove
    <3>2. CASE DestroyRemove
      <4>1. list \in Seq(Sids) /\ list # <<>> /\ Unlink(1)
        BY <3>2 DEF DestroyRemove, IInv, TypeOK
      <4>2. 1 \in 1..Len(list)
        BY <4>1
      <4>3. QED
        BY <4>1, <4>2
    <3>3. QED
      BY <1>3, <3>1, <3>2
  <2>2. UNCHANGED <<addr, acct>>
    BY <1>3 DEF TickRemove, DestroyRemove, attrVars
  <2>3. QED
    BY <1>1, <2>1, <2>2, ApartUnlink
<1>4. CASE TickFree \/ DestroyFree
  <2>1. \E s \in Sids : life[s] = "removed" /\ Free(s)
    <3>1. CASE TickFree
      BY <3>1 DEF TickFree, IInv, TypeOK, OneRemover, RemovedOwned
    <3>2. CASE DestroyFree
      BY <3>2 DEF DestroyFree, IInv, TypeOK, OneRemover, RemovedOwned
    <3>3. QED
      BY <1>4, <3>1, <3>2
  <2>2. QED
    BY <1>1, <2>1, ApartFree
<1>5. QED
  BY <1>2, <1>3, <1>4 DEF Tick, Destroy

(***************************************************************************)
(* While one processor handles the requests, online_session_add leaves no  *)
(* two sessions of one account or of one connection, whatever the clock    *)
(* and the shutdown remove while it waits for the release of a session.    *)
(***************************************************************************)
THEOREM LoginsAreDistinct ==
  ASSUME \A p, q \in Processors : p = q
  PROVE  Spec => []SessionsDistinct
<1>1. Init => Apart
  <2> SUFFICES ASSUME Init PROVE Apart
    OBVIOUS
  <2>1. 1..Len(list) = {} /\ \A p \in Processors : proc[p].pc = "idle"
    BY DEF Init, Idle
  <2>2. QED
    BY <2>1 DEF Apart, SessionsDistinct, Searched
<1>2. IInv /\ Apart /\ [Next]_vars => Apart'
  BY ApartHandler, ApartOther DEF Next
<1>3. Apart => SessionsDistinct
  BY DEF Apart
<1>4. QED
  BY <1>1, <1>2, <1>3, Invariance, PTL DEF Spec
=============================================================================
