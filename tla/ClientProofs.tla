---------------------------- MODULE ClientProofs ----------------------------
(***************************************************************************)
(* Machine-checked proofs about the client: its requests and the           *)
(* dispatcher (RpcRequest), its timer and sessions (Timer, ClientSession), *)
(* the numbers it answers with (ClientApi), its connection (ClientConn)    *)
(* and the bodies of its messages (RpcBody).                               *)
(***************************************************************************)
EXTENDS RpcRequest, ClientSession, ClientConn, RpcBody, SequenceTheorems, WellFoundedInduction, TLAPS

-----------------------------------------------------------------------------
(* Sets of numbers and sequences *)

(* A set of natural numbers that is not empty has a least element. *)
LEMMA LeastExists == ASSUME NEW T \in SUBSET Nat, T # {} PROVE \E m \in T : \A n \in T : m <= n
<1> DEFINE R == OpToRel(<, Nat)
<1>1. IsWellFoundedOn(R, Nat)
  BY NatLessThanWellFounded
<1>2. \A m, n \in Nat : m < n => <<m, n>> \in R
  BY DEF OpToRel
<1> HIDE DEF R
<1>3. PICK m \in T : \A n \in T : ~(<<n, m>> \in R)
  BY <1>1, WFMin
<1>4. ASSUME NEW n \in T PROVE m <= n
  <2>1. m \in Nat /\ n \in Nat /\ ~(<<n, m>> \in R)
    BY <1>3
  <2>2. ~(n < m)
    BY <1>2, <2>1
  <2>3. QED
    BY <2>1, <2>2
<1>5. QED
  BY <1>4

(* list_del of the entry at position i *)
LEMMA DeleteFacts ==
  ASSUME NEW S, NEW q \in Seq(S), NEW i \in 1..Len(q)
  PROVE  LET rest == SubSeq(q, 1, i - 1) \o SubSeq(q, i + 1, Len(q))
         IN  /\ rest \in Seq(S) /\ Len(rest) = Len(q) - 1
             /\ \A j \in 1..Len(q) - 1 : rest[j] = IF j < i THEN q[j] ELSE q[j + 1]
<1> DEFINE a == SubSeq(q, 1, i - 1)
           b == SubSeq(q, i + 1, Len(q))
<1>1. a \in Seq(S) /\ Len(a) = i - 1 /\ \A j \in 1..i - 1 : a[j] = q[j]
  OBVIOUS
<1>2. b \in Seq(S) /\ Len(b) = Len(q) - i /\ \A j \in 1..Len(q) - i : b[j] = q[i + j]
  OBVIOUS
<1> HIDE DEF a, b
<1>3. a \o b \in Seq(S) /\ Len(a \o b) = Len(q) - 1
  <2>1. a \o b \in Seq(S) /\ Len(a \o b) = Len(a) + Len(b)
    BY <1>1, <1>2, ConcatProperties
  <2>2. Len(a) + Len(b) = Len(q) - 1
    BY <1>1, <1>2, LenProperties
  <2>3. QED
    BY <2>1, <2>2
<1>4. ASSUME NEW j \in 1..Len(q) - 1
      PROVE  (a \o b)[j] = IF j < i THEN q[j] ELSE q[j + 1]
  <2>1. (a \o b)[j] = IF j <= Len(a) THEN a[j] ELSE b[j - Len(a)]
    BY <1>1, <1>2, ConcatProperties
  <2>2. CASE j < i
    BY <1>1, <2>1, <2>2
  <2>3. CASE ~(j < i)
    <3>1. j - (i - 1) \in 1..Len(q) - i /\ i + (j - (i - 1)) = j + 1
      BY <2>3
    <3>2. QED
      BY <1>1, <1>2, <2>1, <2>3, <3>1
  <2>4. QED
    BY <2>2, <2>3
<1>5. QED
  BY <1>3, <1>4 DEF a, b

-----------------------------------------------------------------------------
(* The calls of a client (RpcRequest) *)

(* The elements of a list that grew, ... *)
LEMMA WithinAppend ==
  ASSUME NEW S, NEW q \in Seq(S), NEW e \in S
  PROVE  Within(Append(q, e)) = Within(q) \cup {e} /\ Append(q, e) # <<>>
<1>1. /\ Len(Append(q, e)) = Len(q) + 1 /\ Append(q, e)[Len(q) + 1] = e /\ Len(q) \in Nat
      /\ \A i \in 1..Len(q) : Append(q, e)[i] = q[i]
  OBVIOUS
<1>2. \A i : i \in 1..Len(q) + 1 <=> i \in 1..Len(q) \/ i = Len(q) + 1
  BY <1>1
<1>3. QED
  BY <1>1, <1>2 DEF Within

(* ... and of one that lost its head *)
LEMMA WithinTail ==
  ASSUME NEW S, NEW q \in Seq(S), q # <<>>
  PROVE  Head(q) \in Within(q) /\ Within(Tail(q)) \subseteq Within(q) /\ Tail(q) \in Seq(S)
<1>1. Len(q) \in Nat /\ Len(q) >= 1 /\ Head(q) = q[1] /\ Tail(q) \in Seq(S) /\ Len(Tail(q)) = Len(q) - 1
  OBVIOUS
<1>2. \A i \in 1..Len(q) - 1 : Tail(q)[i] = q[i + 1] /\ i + 1 \in 1..Len(q)
  BY <1>1, HeadTailProperties
<1>3. QED
  BY <1>1, <1>2 DEF Within

(* A call that is under way or left unanswered *)
Pending(h) == Live(h) \/ Outstanding(h)

(* Calls are made in the order of their numbers. *)
InOrder == \A g, h \in Calls : g < h /\ pc[g] = "unused" => pc[h] = "unused"

(* Only calls that were made are answered. *)
AskedBegan == \A g \in Calls : Outstanding(g) => pc[g] # "unused"

(* Two pending calls of one category are disturbed, whichever came first. *)
SameDisturbed ==
  \A g, h \in Calls : g # h /\ cat[g] = cat[h] /\ Pending(g) /\ Pending(h) => g \in disturbed

(* A handle is listed until its caller unlists it. *)
ListedLive ==
  /\ \A i \in 1..Len(dlist) : Live(dlist[i]) /\ pc[dlist[i]] # "unlisted"
  /\ \A i, j \in 1..Len(dlist) : dlist[i] = dlist[j] => i = j

(* Answers that wait together are disturbed. *)
WaitDisturbed ==
  /\ Len(tasks) > 1 => Within(tasks) \subseteq disturbed
  /\ dispatcher.pc = "look" /\ tasks # <<>>
       => Within(tasks) \subseteq disturbed /\ dispatcher.answer \in disturbed

(* The processor found the handle of the answer it has, unless the handle   *)
(* is freed or disturbed, and what is made in its place is disturbed.       *)
FoundOwn ==
  /\ dispatcher.pc # "idle" => dispatcher.answer \in Calls
  /\ dispatcher.pc \in {"found", "stored"} =>
       dispatcher.handle \in Calls /\ pc[dispatcher.handle] # "unused"
  /\ dispatcher.pc = "found" /\ Live(dispatcher.handle) /\ dispatcher.handle \notin disturbed
       => dispatcher.answer = dispatcher.handle
  /\ dispatcher.heirs \subseteq disturbed

(* What the processor stored in an undisturbed handle is its answer. *)
OwnReq == \A h \in Calls : h \notin disturbed => req[h] \in {NoCall, h}

(***************************************************************************)
(* The invariant OwnAnswer needs: how an answer gets to a handle.          *)
(***************************************************************************)
RequestInv ==
  /\ RequestTypeOK
  /\ InOrder /\ AskedBegan /\ SameDisturbed
  /\ ListedLive /\ WaitDisturbed /\ FoundOwn
  /\ OwnReq /\ OwnAnswer

(* No call was made. *)
LEMMA RequestInitInv == RequestInit => RequestInv
<1> SUFFICES ASSUME RequestInit PROVE RequestInv
  OBVIOUS
<1>1. RequestTypeOK
  BY DEF RequestInit, RequestTypeOK, NoAnswerYet, NoCall
<1>2. Len(dlist) = 0 /\ Len(tasks) = 0 /\ tasks = <<>> /\ \A h \in Calls : pc[h] = "unused"
  BY DEF RequestInit
<1>3. \A h \in Calls : ~Live(h) /\ ~Outstanding(h)
  BY <1>2 DEF RequestInit, Live, Outstanding, Within, NoAnswerYet, NoCall, Calls
<1>4. InOrder /\ AskedBegan /\ SameDisturbed
  BY <1>2, <1>3 DEF InOrder, AskedBegan, SameDisturbed, Pending
<1>5. ListedLive /\ WaitDisturbed /\ FoundOwn
  BY <1>2 DEF RequestInit, ListedLive, WaitDisturbed, FoundOwn, NoAnswerYet
<1>6. OwnReq /\ OwnAnswer
  BY DEF RequestInit, OwnReq, OwnAnswer
<1>7. QED
  BY <1>1, <1>4, <1>5, <1>6 DEF RequestInv

(* A step that begins no call disturbs none of the first three parts. *)
LEMMA NoNewCall ==
  ASSUME RequestInv, disturbed \subseteq disturbed',
         \A h \in Calls : pc'[h] = "unused" <=> pc[h] = "unused",
         \A h \in Calls : Live(h)' => Live(h),
         \A h \in Calls : Outstanding(h)' => Outstanding(h) \/ Live(h)
  PROVE  InOrder' /\ AskedBegan' /\ SameDisturbed'
<1>1. InOrder'
  BY DEF RequestInv, InOrder
<1>2. AskedBegan'
  BY DEF RequestInv, AskedBegan, Live
<1>3. \A h \in Calls : Pending(h)' => Pending(h)
  BY DEF Pending
<1>4. SameDisturbed'
  BY <1>3 DEF RequestInv, SameDisturbed
<1>5. QED
  BY <1>1, <1>2, <1>4

Stages == {"unused", "listed", "posted", "checked", "asleep", "done", "quit", "unlisted", "freed"}

(* A caller that goes from one stage to the next while its handle is listed *)
LEMMA NextStage ==
  ASSUME RequestInv, NEW h \in Calls, NEW v \in {"posted", "checked", "asleep", "done", "quit"},
         pc[h] \in {"listed", "posted", "checked", "asleep", "done"},
         pc' = [pc EXCEPT ![h] = v],
         asked' = asked \cup {h} \/ asked' = asked,
         dispatcher' = dispatcher \/ dispatcher' = NoAnswerYet,
         UNCHANGED <<req, dlist, tasks, connected, disturbed>>,
         used' = used \/ (used' = [used EXCEPT ![h] = req[h]])
  PROVE  RequestInv'
<1>0. RequestTypeOK /\ pc \in [Calls -> Stages]
  BY DEF RequestInv, RequestTypeOK, Stages
<1>1. /\ pc' \in [Calls -> Stages] /\ pc'[h] = v /\ \A g \in Calls \ {h} : pc'[g] = pc[g]
      /\ Live(h) /\ Live(h)' /\ \A g \in Calls : (Live(g)' <=> Live(g)) /\ (pc'[g] = "unused" <=> pc[g] = "unused")
  BY <1>0 DEF Live, Stages
<1>2. used' \in [Calls -> Calls \cup {NoCall}]
  BY <1>0 DEF RequestTypeOK
<1>3. asked' \subseteq Calls
  BY <1>0 DEF RequestTypeOK
<1>4. dispatcher' \in [pc : {"idle", "look", "found", "stored"},
               answer : Calls \cup {NoCall}, handle : Calls \cup {NoCall}, heirs : SUBSET Calls]
  BY <1>0 DEF RequestTypeOK, NoAnswerYet
<1>5. RequestTypeOK'
  BY <1>0, <1>1, <1>2, <1>3, <1>4 DEF RequestTypeOK, Stages
<1>6. \A g \in Calls : Outstanding(g)' => Outstanding(g) \/ Live(g)
  BY <1>1 DEF Outstanding, NoAnswerYet, NoCall, Calls, Within
<1>7. InOrder' /\ AskedBegan' /\ SameDisturbed'
  BY <1>1, <1>6, NoNewCall
<1>8. ListedLive'
  <2>1. dlist \in Seq(Calls)
    BY <1>0 DEF RequestTypeOK
  <2>2. \A i \in 1..Len(dlist) : dlist[i] \in Calls
    BY <2>1
  <2>3. \A g \in Calls : pc'[g] = "unlisted" => pc[g] = "unlisted"
    BY <1>1
  <2>4. QED
    BY <1>1, <2>2, <2>3 DEF RequestInv, ListedLive
<1>9. WaitDisturbed'
  BY DEF RequestInv, WaitDisturbed, NoAnswerYet, Within
<1>10. FoundOwn'
  <2>1. CASE dispatcher' = dispatcher
    BY <1>1, <2>1 DEF RequestInv, FoundOwn
  <2>2. CASE dispatcher' = NoAnswerYet
    BY <2>2 DEF FoundOwn, NoAnswerYet
  <2>3. QED
    BY <2>1, <2>2
<1>11. OwnReq'
  BY DEF RequestInv, OwnReq
<1>12. OwnAnswer'
  BY <1>0 DEF RequestInv, OwnReq, OwnAnswer, RequestTypeOK
<1>13. QED
  BY <1>5, <1>7, <1>8, <1>9, <1>10, <1>11, <1>12 DEF RequestInv

(* Every step of the callers, the server and the processor keeps RequestInv. *)
LEMMA RequestStepInv == RequestInv /\ [RequestNext]_requestVars => RequestInv'
<1> SUFFICES ASSUME RequestInv, [RequestNext]_requestVars PROVE RequestInv'
  OBVIOUS
<1> DEFINE Dispatchers == [pc : {"idle", "look", "found", "stored"},
             answer : Calls \cup {NoCall}, handle : Calls \cup {NoCall}, heirs : SUBSET Calls]
<1>T. RequestTypeOK
  BY DEF RequestInv
<1>P. pc \in [Calls -> Stages] /\ Calls \subseteq Nat
  BY <1>T, CallsAssumption DEF RequestTypeOK, Stages, Calls
<1>D. dispatcher \in Dispatchers
  BY <1>T DEF RequestTypeOK
<1>L. dlist \in Seq(Calls) /\ Len(dlist) \in Nat /\ \A i \in 1..Len(dlist) : dlist[i] \in Calls
  BY <1>T DEF RequestTypeOK
<1>K. tasks \in Seq(Calls) /\ Len(tasks) \in Nat
  BY <1>T DEF RequestTypeOK
<1>1. ASSUME NEW h \in Calls, Register(h) PROVE RequestInv'
  <2> DEFINE same == {g \in 1..(h - 1) : cat[g] = cat[h] /\ (Live(g) \/ Outstanding(g))}
             stale == dispatcher.handle # NoCall /\ ~Live(dispatcher.handle)
  <2>1. /\ pc[h] = "unused" /\ \A g \in 1..(h - 1) : pc[g] # "unused"
        /\ dlist' = Append(dlist, h) /\ pc' = [pc EXCEPT ![h] = "listed"]
        /\ UNCHANGED <<req, used, asked, tasks, connected>>
    BY <1>1 DEF Register
  <2>2. disturbed' = disturbed \cup same \cup (IF same # {} \/ stale THEN {h} ELSE {})
    BY <1>1 DEF Register
  <2>3. dispatcher' = IF stale THEN [dispatcher EXCEPT !.heirs = @ \cup {h}] ELSE dispatcher
    BY <1>1 DEF Register
  <2>4. same \subseteq Calls /\ disturbed \subseteq disturbed' /\ same \subseteq disturbed'
        /\ (same # {} => h \in disturbed') /\ (stale => h \in disturbed')
    BY <1>P, <2>2, CallsAssumption DEF Calls
  <2>5. /\ dispatcher' \in Dispatchers /\ dispatcher'.pc = dispatcher.pc /\ dispatcher'.answer = dispatcher.answer
        /\ dispatcher'.handle = dispatcher.handle
        /\ (dispatcher'.heirs = dispatcher.heirs \/ (stale /\ dispatcher'.heirs = dispatcher.heirs \cup {h}))
    BY <1>D, <2>3
  <2> HIDE DEF same, stale
  <2>6. /\ pc' \in [Calls -> Stages] /\ pc'[h] = "listed" /\ \A g \in Calls \ {h} : pc'[g] = pc[g]
    BY <1>P, <2>1 DEF Stages
  <2>7. Live(h)' /\ ~Live(h) /\ \A g \in Calls \ {h} : Live(g)' <=> Live(g)
    BY <2>1, <2>6 DEF Live
  <2>8. \A g \in Calls : Outstanding(g)' <=> Outstanding(g)
    BY <2>1, <2>5 DEF Outstanding, Within
  <2>9. RequestTypeOK'
    <3>1. disturbed' \subseteq Calls
      BY <1>T, <2>2, <2>4 DEF RequestTypeOK
    <3>2. dlist' \in Seq(Calls)
      BY <1>L, <2>1
    <3>3. QED
      BY <1>T, <2>1, <2>5, <2>6, <3>1, <3>2 DEF RequestTypeOK, Stages
  <2>10. InOrder'
    <3> SUFFICES ASSUME NEW f \in Calls, NEW g \in Calls, f < g, pc'[f] = "unused" PROVE pc'[g] = "unused"
      BY DEF InOrder
    <3>1. f # h /\ pc[f] = "unused" /\ pc[g] = "unused"
      BY <2>6 DEF RequestInv, InOrder
    <3>2. g # h
      BY <1>P, <2>1, <3>1 DEF Calls
    <3>3. QED
      BY <2>6, <3>1, <3>2
  <2>11. AskedBegan'
    BY <2>6, <2>8 DEF RequestInv, AskedBegan
  <2>12. ASSUME NEW g \in Calls, g # h, cat[g] = cat[h], Pending(g)' PROVE g \in disturbed' /\ h \in disturbed'
    <3>1. Pending(g) /\ pc[g] # "unused"
      BY <2>7, <2>8, <2>12 DEF Pending, RequestInv, AskedBegan, Live
    <3>2. g \in 1..(h - 1)
      <4>1. ~(h < g)
        BY <2>1, <3>1 DEF RequestInv, InOrder
      <4>2. QED
        BY <1>P, <2>12, <4>1, CallsAssumption DEF Calls
    <3>3. g \in same
      BY <2>12, <3>1, <3>2 DEF same, Pending
    <3>4. QED
      BY <2>4, <3>3
  <2>13. SameDisturbed'
    <3> SUFFICES ASSUME NEW f \in Calls, NEW g \in Calls, f # g, cat[f] = cat[g], Pending(f)', Pending(g)'
                 PROVE  f \in disturbed'
      BY DEF SameDisturbed
    <3>1. CASE f = h \/ g = h
      BY <2>12, <3>1
    <3>2. CASE f # h /\ g # h
      <4>1. Pending(f) /\ Pending(g)
        BY <2>7, <2>8, <3>2 DEF Pending
      <4>2. QED
        BY <2>4, <4>1 DEF RequestInv, SameDisturbed
    <3>3. QED
      BY <3>1, <3>2
  <2>14. ListedLive'
    <3>1. /\ Len(dlist') = Len(dlist) + 1 /\ dlist'[Len(dlist) + 1] = h
          /\ \A i \in 1..Len(dlist) : dlist'[i] = dlist[i]
      BY <1>L, <2>1
    <3>2. \A i \in 1..Len(dlist') : i \in 1..Len(dlist) \/ i = Len(dlist) + 1
      BY <1>L, <3>1
    <3>3. ASSUME NEW i \in 1..Len(dlist)
          PROVE  dlist[i] # h /\ pc'[dlist[i]] \notin {"unused", "freed", "unlisted"}
      <4>1. dlist[i] \in Calls /\ pc[dlist[i]] \notin {"unused", "freed", "unlisted"}
        BY <1>L DEF RequestInv, ListedLive, Live
      <4>2. QED
        BY <2>1, <2>6, <4>1
    <3>4. ASSUME NEW i \in 1..Len(dlist') PROVE Live(dlist[i])' /\ pc'[dlist'[i]] # "unlisted"
      <4>1. CASE i \in 1..Len(dlist)
        BY <3>1, <3>3, <4>1 DEF Live
      <4>2. CASE i = Len(dlist) + 1
        BY <2>6, <2>7, <3>1, <4>2 DEF Live
      <4>3. QED
        BY <3>2, <4>1, <4>2
    <3>5. ASSUME NEW i \in 1..Len(dlist'), NEW j \in 1..Len(dlist'), dlist'[i] = dlist'[j] PROVE i = j
      <4>1. CASE i \in 1..Len(dlist) /\ j \in 1..Len(dlist)
        BY <3>1, <3>5, <4>1 DEF RequestInv, ListedLive
      <4>2. CASE i = Len(dlist) + 1 /\ j = Len(dlist) + 1
        BY <4>2
      <4>3. CASE i \in 1..Len(dlist) /\ j = Len(dlist) + 1
        BY <3>1, <3>3, <3>5, <4>3
      <4>4. CASE j \in 1..Len(dlist) /\ i = Len(dlist) + 1
        BY <3>1, <3>3, <3>5, <4>4
      <4>5. QED
        BY <3>2, <4>1, <4>2, <4>3, <4>4
    <3>6. QED
      BY <3>4, <3>5 DEF ListedLive
  <2>15. WaitDisturbed'
    BY <2>1, <2>4, <2>5 DEF RequestInv, WaitDisturbed, Within
  <2>16. FoundOwn'
    <3>1. dispatcher.pc \in {"found", "stored"} => dispatcher.handle # h /\ pc'[dispatcher.handle] # "unused"
      BY <2>1, <2>6 DEF RequestInv, FoundOwn
    <3>2. dispatcher'.heirs \subseteq disturbed'
      BY <2>4, <2>5 DEF RequestInv, FoundOwn
    <3>3. dispatcher.pc \in {"found", "stored"} => (Live(dispatcher.handle)' <=> Live(dispatcher.handle))
      BY <2>5, <2>7, <3>1 DEF RequestInv, FoundOwn, Live
    <3>4. QED
      BY <2>4, <2>5, <3>1, <3>2, <3>3 DEF RequestInv, FoundOwn
  <2>17. OwnReq' /\ OwnAnswer'
    BY <2>1, <2>4 DEF RequestInv, OwnReq, OwnAnswer
  <2>18. QED
    BY <2>9, <2>10, <2>11, <2>13, <2>14, <2>15, <2>16, <2>17 DEF RequestInv
<1>2. ASSUME NEW h \in Calls, Post(h) PROVE RequestInv'
  BY <1>2, NextStage DEF Post
<1>3. ASSUME NEW h \in Calls, PostFail(h) PROVE RequestInv'
  BY <1>3, NextStage DEF PostFail
<1>4. ASSUME NEW h \in Calls, WaitCheck(h) PROVE RequestInv'
  BY <1>4, NextStage DEF WaitCheck
<1>5. ASSUME NEW h \in Calls, Sleep(h) PROVE RequestInv'
  BY <1>5, NextStage DEF Sleep
<1>6. ASSUME NEW h \in Calls, EndWait(h) PROVE RequestInv'
  BY <1>6, NextStage DEF EndWait
<1>7. ASSUME NEW h \in Calls, Use(h) PROVE RequestInv'
  BY <1>7, NextStage DEF Use
<1>8. ASSUME NEW h \in Calls, Unlist(h) PROVE RequestInv'
  <2>1. pc[h] = "quit" /\ pc' = [pc EXCEPT ![h] = "unlisted"]
        /\ UNCHANGED <<req, used, asked, tasks, dispatcher, connected, disturbed>>
    BY <1>8 DEF Unlist
  <2>2. PICK i \in 1..Len(dlist) :
          dlist[i] = h /\ dlist' = SubSeq(dlist, 1, i - 1) \o SubSeq(dlist, i + 1, Len(dlist))
    BY <1>8 DEF Unlist
  <2>3. /\ dlist' \in Seq(Calls) /\ Len(dlist') = Len(dlist) - 1
        /\ \A j \in 1..Len(dlist) - 1 : dlist'[j] = IF j < i THEN dlist[j] ELSE dlist[j + 1]
    BY <1>L, <2>2, DeleteFacts
  <2>4. /\ pc' \in [Calls -> Stages] /\ pc'[h] = "unlisted" /\ \A g \in Calls \ {h} : pc'[g] = pc[g]
        /\ \A g \in Calls : Live(g)' <=> Live(g)
    BY <1>P, <2>1 DEF Stages, Live
  <2>5. RequestTypeOK'
    BY <1>T, <2>1, <2>3, <2>4 DEF RequestTypeOK, Stages
  <2>6. \A g \in Calls : Outstanding(g)' <=> Outstanding(g)
    BY <2>1 DEF Outstanding, Within
  <2>7. \A g \in Calls : pc'[g] = "unused" <=> pc[g] = "unused"
    BY <2>1, <2>4
  <2>8. InOrder' /\ AskedBegan' /\ SameDisturbed'
    BY <2>1, <2>4, <2>6, <2>7, NoNewCall
  <2>9. ListedLive'
    <3> DEFINE old(k) == IF k < i THEN k ELSE k + 1
    <3>1. \A j \in 1..Len(dlist) - 1 : old(j) \in 1..Len(dlist) /\ old(j) # i /\ dlist'[j] = dlist[old(j)]
      <4>1. \A j \in 1..Len(dlist) - 1 : old(j) \in 1..Len(dlist) /\ old(j) # i
        BY <1>L
      <4>2. QED
        BY <2>3, <4>1
    <3>2. \A j, k \in 1..Len(dlist) - 1 : old(j) = old(k) => j = k
      BY <1>L
    <3> HIDE DEF old
    <3>3. ASSUME NEW j \in 1..Len(dlist) - 1 PROVE dlist'[j] \in Calls \ {h}
      <4>1. dlist[old(j)] # dlist[i]
        BY <2>2, <3>1 DEF RequestInv, ListedLive
      <4>2. QED
        BY <1>L, <2>2, <3>1, <4>1
    <3>4. \A j \in 1..Len(dlist) - 1 : Live(dlist'[j]) /\ pc[dlist'[j]] # "unlisted"
      BY <3>1 DEF RequestInv, ListedLive
    <3>5. \A j \in 1..Len(dlist') : Live(dlist[j])' /\ pc'[dlist'[j]] # "unlisted"
      BY <2>3, <2>4, <3>3, <3>4 DEF Live
    <3>6. \A j, k \in 1..Len(dlist') : dlist'[j] = dlist'[k] => j = k
      BY <2>3, <3>1, <3>2, SMTT(20) DEF RequestInv, ListedLive
    <3>7. QED
      BY <3>5, <3>6 DEF ListedLive
  <2>10. WaitDisturbed'
    BY <2>1 DEF RequestInv, WaitDisturbed, Within
  <2>11. FoundOwn'
    BY <2>1, <2>4, <2>7 DEF RequestInv, FoundOwn
  <2>12. OwnReq' /\ OwnAnswer'
    BY <2>1 DEF RequestInv, OwnReq, OwnAnswer
  <2>13. QED
    BY <2>5, <2>8, <2>9, <2>10, <2>11, <2>12 DEF RequestInv
<1>9. ASSUME NEW h \in Calls, FreeHandle(h) PROVE RequestInv'
  <2>1. /\ pc[h] = "unlisted" /\ pc' = [pc EXCEPT ![h] = "freed"] /\ req' = [req EXCEPT ![h] = NoCall]
        /\ UNCHANGED <<used, dlist, asked, tasks, dispatcher, connected, disturbed>>
    BY <1>9 DEF FreeHandle
  <2>4. /\ pc' \in [Calls -> Stages] /\ pc'[h] = "freed" /\ \A g \in Calls \ {h} : pc'[g] = pc[g]
        /\ \A g \in Calls : Live(g)' => Live(g)
        /\ \A g \in Calls \ {h} : Live(g)' <=> Live(g)
    BY <1>P, <2>1 DEF Stages, Live
  <2>5. req' \in [Calls -> Calls \cup {NoCall}]
    BY <1>T, <2>1 DEF RequestTypeOK
  <2>6. RequestTypeOK'
    BY <1>T, <2>1, <2>4, <2>5 DEF RequestTypeOK, Stages
  <2>7. \A g \in Calls : (Outstanding(g)' <=> Outstanding(g)) /\ (pc'[g] = "unused" <=> pc[g] = "unused")
    BY <2>1, <2>4 DEF Outstanding, Within
  <2>8. InOrder' /\ AskedBegan' /\ SameDisturbed'
    BY <2>1, <2>4, <2>7, NoNewCall
  <2>9. ListedLive'
    <3>1. \A j \in 1..Len(dlist) : dlist[j] \in Calls \ {h}
      BY <1>L, <2>1 DEF RequestInv, ListedLive
    <3>2. QED
      BY <2>1, <2>4, <3>1 DEF RequestInv, ListedLive, Live
  <2>10. WaitDisturbed'
    BY <2>1 DEF RequestInv, WaitDisturbed, Within
  <2>11. FoundOwn'
    BY <2>1, <2>4, <2>7 DEF RequestInv, FoundOwn
  <2>12. OwnReq' /\ OwnAnswer'
    BY <1>T, <2>1 DEF RequestInv, OwnReq, OwnAnswer, RequestTypeOK
  <2>13. QED
    BY <2>6, <2>8, <2>9, <2>10, <2>11, <2>12 DEF RequestInv
<1>10. ASSUME NEW g \in Calls, Arrive(g) PROVE RequestInv'
  <2> DEFINE waiting == Within(tasks) \cup (IF dispatcher.pc = "look" THEN {dispatcher.answer} ELSE {})
  <2>1. /\ g \in asked /\ asked' = asked \ {g} /\ tasks' = Append(tasks, g)
        /\ UNCHANGED <<pc, req, used, dlist, dispatcher, connected>>
    BY <1>10 DEF Arrive, callVars
  <2>2. disturbed' = IF waiting = {} THEN disturbed ELSE disturbed \cup waiting \cup {g}
    BY <1>10 DEF Arrive
  <2>3. waiting \subseteq Calls
    <3>1. Within(tasks) \subseteq Calls
      BY <1>K DEF Within
    <3>2. dispatcher.pc = "look" => dispatcher.answer \in Calls
      BY DEF RequestInv, FoundOwn
    <3>3. QED
      BY <3>1, <3>2
  <2>4. /\ disturbed \subseteq disturbed' /\ disturbed' \subseteq Calls
        /\ (waiting # {} => waiting \cup {g} \subseteq disturbed')
    BY <1>T, <2>2, <2>3 DEF RequestTypeOK
  <2>5. /\ tasks' \in Seq(Calls) /\ Len(tasks') = Len(tasks) + 1 /\ Within(tasks') = Within(tasks) \cup {g}
    BY <1>K, <2>1, WithinAppend
  <2>6. RequestTypeOK'
    BY <1>T, <2>1, <2>4, <2>5 DEF RequestTypeOK
  <2>7. \A f \in Calls : Outstanding(f)' => Outstanding(f)
    BY <2>1, <2>5 DEF Outstanding
  <2>8. \A f \in Calls : Live(f)' <=> Live(f)
    BY <2>1 DEF Live
  <2>9. InOrder' /\ AskedBegan' /\ SameDisturbed'
    BY <2>1, <2>4, <2>7, <2>8, NoNewCall
  <2>10. ListedLive'
    BY <2>1 DEF RequestInv, ListedLive, Live
  <2>11. WaitDisturbed'
    <3>1. ASSUME Len(tasks') > 1 PROVE Within(tasks) # {}
      <4>1. 1 \in 1..Len(tasks)
        BY <1>K, <2>5, <3>1
      <4>2. QED
        BY <4>1 DEF Within
    <3>2. Len(tasks') > 1 => Within(tasks') \subseteq disturbed'
      BY <2>4, <2>5, <3>1
    <3>3. dispatcher.pc = "look" => Within(tasks') \subseteq disturbed' /\ dispatcher.answer \in disturbed'
      BY <2>4, <2>5
    <3>4. QED
      BY <2>1, <3>2, <3>3 DEF WaitDisturbed
  <2>12. FoundOwn'
    BY <2>1, <2>4, <2>8 DEF RequestInv, FoundOwn, Live
  <2>13. OwnReq' /\ OwnAnswer'
    BY <2>1, <2>4 DEF RequestInv, OwnReq, OwnAnswer
  <2>14. QED
    BY <2>6, <2>9, <2>10, <2>11, <2>12, <2>13 DEF RequestInv
<1>11. ASSUME UNCHANGED <<pc, req, used, dlist, asked, tasks, dispatcher, disturbed>>, connected' \in BOOLEAN
       PROVE  RequestInv'
  <2>1. RequestTypeOK'
    BY <1>11, <1>T DEF RequestTypeOK
  <2>2. InOrder' /\ AskedBegan' /\ SameDisturbed'
    BY <1>11, NoNewCall DEF Live, Outstanding, Within
  <2>3. ListedLive' /\ WaitDisturbed' /\ FoundOwn' /\ OwnReq' /\ OwnAnswer'
    BY <1>11 DEF RequestInv, ListedLive, WaitDisturbed, FoundOwn, OwnReq, OwnAnswer, Live, Within
  <2>4. QED
    BY <2>1, <2>2, <2>3 DEF RequestInv
<1>12. CASE DropConnection
  BY <1>11, <1>12 DEF DropConnection, callVars
<1>13. CASE Begin
  <2>1. /\ dispatcher.pc = "idle" /\ tasks # <<>> /\ tasks' = Tail(tasks)
        /\ dispatcher' = [pc |-> "look", answer |-> Head(tasks), handle |-> NoCall, heirs |-> {}]
        /\ UNCHANGED <<pc, req, used, dlist, asked, connected, disturbed>>
    BY <1>13 DEF Begin, callVars
  <2>2. Head(tasks) \in Within(tasks) /\ Within(tasks') \subseteq Within(tasks) /\ tasks' \in Seq(Calls)
    BY <1>K, <2>1, WithinTail
  <2>3. Within(tasks) \subseteq Calls
    BY <1>K DEF Within
  <2>4. /\ dispatcher' \in Dispatchers /\ dispatcher'.pc = "look" /\ dispatcher'.answer = Head(tasks)
        /\ dispatcher'.heirs = {}
    BY <2>1, <2>2, <2>3
  <2>5. RequestTypeOK'
    BY <1>T, <2>1, <2>2, <2>4 DEF RequestTypeOK
  <2>6. \A g \in Calls : Outstanding(g)' => Outstanding(g)
    BY <2>1, <2>2, <2>4 DEF Outstanding
  <2>7. InOrder' /\ AskedBegan' /\ SameDisturbed'
    BY <2>1, <2>6, NoNewCall DEF Live
  <2>8. ListedLive' /\ OwnReq' /\ OwnAnswer'
    BY <2>1 DEF RequestInv, ListedLive, Live, OwnReq, OwnAnswer
  <2>9. WaitDisturbed'
    <3>1. tasks' # <<>> => Len(tasks) > 1
      BY <1>K, <2>1
    <3>2. Len(tasks') > 1 => tasks' # <<>>
      OBVIOUS
    <3>3. tasks' # <<>> => Within(tasks) \subseteq disturbed
      BY <3>1 DEF RequestInv, WaitDisturbed
    <3>4. QED
      BY <2>1, <2>2, <2>4, <3>2, <3>3 DEF WaitDisturbed
  <2>10. FoundOwn'
    BY <2>2, <2>3, <2>4 DEF FoundOwn
  <2>11. QED
    BY <2>5, <2>7, <2>8, <2>9, <2>10 DEF RequestInv
<1>14. CASE Look
  <2>1. dispatcher.pc = "look" /\ UNCHANGED <<pc, req, used, dlist, asked, tasks, connected, disturbed>>
    BY <1>14 DEF Look, callVars
  <2>2. PICK g \in {dispatcher.answer} \cup Within(tasks) :
          dispatcher' = IF Found(cat[g]) = NoCall THEN NoAnswerYet
               ELSE [dispatcher EXCEPT !.pc = "found", !.handle = Found(cat[g])]
    BY <1>14 DEF Look
  <2>3. g \in Calls /\ Outstanding(g) /\ dispatcher.answer \in Calls
    <3>1. dispatcher.answer \in Calls
      BY <2>1 DEF RequestInv, FoundOwn
    <3>2. Within(tasks) \subseteq Calls
      BY <1>K DEF Within
    <3>3. QED
      BY <3>1, <3>2 DEF Outstanding
  <2>4. InOrder' /\ AskedBegan' /\ SameDisturbed' /\ ListedLive' /\ OwnReq' /\ OwnAnswer'
    <3>1. dispatcher'.answer \in {dispatcher.answer, NoCall}
      BY <1>D, <2>2 DEF NoAnswerYet
    <3>2. \A f \in Calls : Outstanding(f)' => Outstanding(f)
      BY <2>1, <3>1, <1>P DEF Outstanding, Within, NoCall, Calls
    <3>3. InOrder' /\ AskedBegan' /\ SameDisturbed'
      BY <2>1, <3>2, NoNewCall DEF Live
    <3>4. QED
      BY <2>1, <3>3 DEF RequestInv, ListedLive, Live, OwnReq, OwnAnswer
  <2>5. CASE Found(cat[g]) = NoCall
    <3>1. dispatcher' = NoAnswerYet
      BY <2>2, <2>5
    <3>2. RequestTypeOK'
      BY <1>T, <2>1, <3>1 DEF RequestTypeOK, NoAnswerYet
    <3>3. WaitDisturbed' /\ FoundOwn'
      BY <2>1, <3>1 DEF RequestInv, WaitDisturbed, FoundOwn, NoAnswerYet, Within
    <3>4. QED
      BY <2>4, <3>2, <3>3 DEF RequestInv
  <2>6. CASE Found(cat[g]) # NoCall
    <3> DEFINE h == Found(cat[g])
    <3>1. h \in Calls /\ Live(h) /\ cat[h] = cat[g]
      <4>1. Matches(cat[g]) # {} /\ Matches(cat[g]) \subseteq Nat
        BY <2>6 DEF Found, Matches
      <4>2. \E m \in Matches(cat[g]) : \A n \in Matches(cat[g]) : m <= n
        BY <4>1, LeastExists
      <4>3. PICK m \in Matches(cat[g]) : h = dlist[m]
        BY <4>1, <4>2 DEF Found
      <4>4. QED
        BY <1>L, <4>3 DEF Matches, RequestInv, ListedLive
    <3>2. dispatcher' = [dispatcher EXCEPT !.pc = "found", !.handle = h]
      BY <2>2, <2>6
    <3> HIDE DEF h
    <3>3. /\ dispatcher' \in Dispatchers /\ dispatcher'.pc = "found" /\ dispatcher'.handle = h
          /\ dispatcher'.answer = dispatcher.answer /\ dispatcher'.heirs = dispatcher.heirs
      BY <1>D, <3>1, <3>2
    <3>4. RequestTypeOK'
      BY <1>T, <2>1, <3>3 DEF RequestTypeOK
    <3>5. WaitDisturbed'
      BY <2>1, <3>3 DEF RequestInv, WaitDisturbed, Within
    <3>6. h \notin disturbed => dispatcher.answer = h
      <4> SUFFICES ASSUME h \notin disturbed PROVE dispatcher.answer = h
        OBVIOUS
      <4>1. g = h
        BY <2>3, <3>1 DEF RequestInv, SameDisturbed, Pending
      <4>2. g \notin Within(tasks)
        <5>1. Within(<<>>) = {}
          BY DEF Within
        <5>2. QED
          BY <2>1, <4>1, <5>1 DEF RequestInv, WaitDisturbed
      <4>3. QED
        BY <4>1, <4>2
    <3>7. pc[h] # "unused"
      BY <3>1 DEF Live
    <3>8. FoundOwn'
      BY <2>1, <2>3, <3>1, <3>3, <3>6, <3>7 DEF RequestInv, FoundOwn
    <3>9. QED
      BY <2>4, <3>4, <3>5, <3>8 DEF RequestInv
  <2>7. QED
    BY <2>5, <2>6
<1>15. CASE Store
  <2>1. dispatcher.pc = "found" /\ UNCHANGED <<pc, used, dlist, asked, tasks, connected, disturbed>>
    BY <1>15 DEF Store
  <2>2. PICK h \in Pointee(dispatcher.handle) :
          /\ req' = IF Live(h) THEN [req EXCEPT ![h] = dispatcher.answer] ELSE req
          /\ dispatcher' = [dispatcher EXCEPT !.pc = "stored", !.handle = h]
    BY <1>15 DEF Store
  <2>3. dispatcher.answer \in Calls /\ dispatcher.handle \in Calls /\ pc[dispatcher.handle] # "unused"
    BY <2>1 DEF RequestInv, FoundOwn
  <2>4. h = dispatcher.handle \/ (h \in dispatcher.heirs /\ Live(h))
    BY <2>2 DEF Pointee
  <2>5. h \in Calls /\ pc[h] # "unused"
    BY <1>D, <2>3, <2>4 DEF Live
  <2>6. /\ dispatcher' \in Dispatchers /\ dispatcher'.pc = "stored" /\ dispatcher'.handle = h
        /\ dispatcher'.answer = dispatcher.answer /\ dispatcher'.heirs = dispatcher.heirs
    BY <1>D, <2>2, <2>5
  <2>7. req' \in [Calls -> Calls \cup {NoCall}]
    BY <1>T, <2>2, <2>3, <2>5 DEF RequestTypeOK
  <2>8. RequestTypeOK'
    BY <1>T, <2>1, <2>6, <2>7 DEF RequestTypeOK
  <2>9. \A g \in Calls : Outstanding(g)' <=> Outstanding(g)
    BY <2>1, <2>6 DEF Outstanding, Within
  <2>10. InOrder' /\ AskedBegan' /\ SameDisturbed'
    BY <2>1, <2>9, NoNewCall DEF Live
  <2>11. ListedLive' /\ WaitDisturbed' /\ OwnAnswer'
    BY <2>1, <2>6 DEF RequestInv, ListedLive, WaitDisturbed, OwnAnswer, Live, Within
  <2>12. FoundOwn'
    BY <2>1, <2>3, <2>5, <2>6 DEF RequestInv, FoundOwn
  <2>13. h \notin disturbed /\ Live(h) => dispatcher.answer = h
    BY <2>1, <2>4 DEF RequestInv, FoundOwn
  <2>14. OwnReq'
    BY <1>T, <2>1, <2>2, <2>5, <2>13 DEF RequestInv, OwnReq, RequestTypeOK
  <2>15. QED
    BY <2>8, <2>10, <2>11, <2>12, <2>14 DEF RequestInv
<1>16. CASE Signal
  <2>1. dispatcher.pc = "stored" /\ dispatcher.handle \in Calls
    BY <1>16 DEF Signal, RequestInv, FoundOwn
  <2>2. dispatcher' = NoAnswerYet /\ UNCHANGED <<req, used, dlist, asked, tasks, connected, disturbed>>
    BY <1>16 DEF Signal
  <2>3. CASE pc[dispatcher.handle] = "asleep"
    <3>1. pc' = [pc EXCEPT ![dispatcher.handle] = "done"]
      BY <1>16, <2>3 DEF Signal
    <3>2. QED
      BY <2>1, <2>2, <2>3, <3>1, NextStage
  <2>4. CASE pc[dispatcher.handle] # "asleep"
    <3>1. pc' = pc
      BY <1>16, <2>4 DEF Signal
    <3>2. RequestTypeOK'
      BY <1>T, <2>2, <3>1 DEF RequestTypeOK, NoAnswerYet
    <3>3. \A g \in Calls : Outstanding(g)' => Outstanding(g)
      BY <2>2, <1>P DEF Outstanding, Within, NoAnswerYet, NoCall, Calls
    <3>4. InOrder' /\ AskedBegan' /\ SameDisturbed'
      BY <2>2, <3>1, <3>3, NoNewCall DEF Live
    <3>5. WaitDisturbed' /\ FoundOwn'
      BY <2>2 DEF RequestInv, WaitDisturbed, FoundOwn, NoAnswerYet, Within
    <3>6. ListedLive' /\ OwnReq' /\ OwnAnswer'
      BY <2>2, <3>1 DEF RequestInv, ListedLive, Live, OwnReq, OwnAnswer
    <3>7. QED
      BY <3>2, <3>4, <3>5, <3>6 DEF RequestInv
  <2>5. QED
    BY <2>3, <2>4
<1>17. CASE UNCHANGED requestVars
  <2>1. connected' \in BOOLEAN
    BY <1>17, <1>T DEF requestVars, RequestTypeOK
  <2>2. QED
    BY <1>11, <1>17, <2>1 DEF requestVars, callVars
<1>18. QED
  BY <1>1, <1>2, <1>3, <1>4, <1>5, <1>6, <1>7, <1>8, <1>9, <1>10, <1>12, <1>13, <1>14, <1>15, <1>16, <1>17
  DEF RequestNext, Caller, Processor

(***************************************************************************)
(* For any number of calls and callers, any categories, and answers in any *)
(* order, late or never: a caller that was not disturbed works with the    *)
(* answer to its own call or with none.                                    *)
(***************************************************************************)
THEOREM AnswersAreOwn == RequestSpec => []OwnAnswer
<1>1. RequestInv => OwnAnswer
  BY DEF RequestInv
<1>2. QED
  BY <1>1, RequestInitInv, RequestStepInv, PTL DEF RequestSpec

-----------------------------------------------------------------------------
(* The clock and its list (Timer) *)

(* Position i of the list is one the walk under way, or the one that follows *)
(* this synchronization, has still to come to.                               *)
ToCome(i) ==
  \/ clock.pc = "sync" /\ i < clock.at
  \/ clock.pc = "walk" /\ clock.at <= i
  \/ clock.pc = "call" /\ clock.at < i

ListedOnce == \A i, j \in 1..Len(list) : list[i] = list[j] => i = j

(* The late callback of a timer is over before a walk comes to it again:    *)
(* the synchronization between took the timer out.                          *)
LateIsOver ==
  \A i \in 1..Len(list) : ToCome(i) \/ ~deleted[list[i]] => late[list[i]] = 0

(***************************************************************************)
(* The invariant OneLateCallback needs: a timer is listed once, a callback *)
(* that runs is that of a listed timer, and LateIsOver.                    *)
(***************************************************************************)
TimerInv ==
  /\ TimerTypeOK
  /\ ListedOnce
  /\ clock.pc = "call" => clock.at <= Len(list)
  /\ OneLateCallback
  /\ LateIsOver

(* What the threads of a client do to its timers. *)
TimerStep ==
  \/ UNCHANGED timerVars
  \/ timer_init \/ DestroySign \/ DestroyJoin
  \/ \E t \in Timers : timer_create(t) \/ timer_del(t)
  \/ Clock \/ Returned(TRUE) \/ Returned(FALSE)
  \/ clock' = NoClock /\ UNCHANGED <<inited, stopSign, list, remaining, deleted, late>>

(* list_del of the timer at position i *)
LEMMA WithoutFacts ==
  ASSUME list \in Seq(Timers), NEW i \in 1..Len(list)
  PROVE  /\ Without(i) \in Seq(Timers) /\ Len(Without(i)) = Len(list) - 1
         /\ \A j \in 1..Len(list) - 1 : Without(i)[j] = IF j < i THEN list[j] ELSE list[j + 1]
<1> DEFINE a == SubSeq(list, 1, i - 1)
           b == SubSeq(list, i + 1, Len(list))
<1>1. a \in Seq(Timers) /\ Len(a) = i - 1 /\ \A j \in 1..i - 1 : a[j] = list[j]
  OBVIOUS
<1>2. b \in Seq(Timers) /\ Len(b) = Len(list) - i /\ \A j \in 1..Len(list) - i : b[j] = list[i + j]
  OBVIOUS
<1> HIDE DEF a, b
<1>3. a \o b \in Seq(Timers) /\ Len(a \o b) = Len(list) - 1
  <2>1. a \o b \in Seq(Timers) /\ Len(a \o b) = Len(a) + Len(b)
    BY <1>1, <1>2, ConcatProperties
  <2>2. Len(a) + Len(b) = Len(list) - 1
    BY <1>1, <1>2, LenProperties
  <2>3. QED
    BY <2>1, <2>2
<1>4. ASSUME NEW j \in 1..Len(list) - 1
      PROVE  (a \o b)[j] = IF j < i THEN list[j] ELSE list[j + 1]
  <2>1. (a \o b)[j] = IF j <= Len(a) THEN a[j] ELSE b[j - Len(a)]
    BY <1>1, <1>2, ConcatProperties
  <2>2. CASE j < i
    BY <1>1, <2>1, <2>2
  <2>3. CASE ~(j < i)
    <3>1. j - (i - 1) \in 1..Len(list) - i /\ i + (j - (i - 1)) = j + 1
      BY <2>3
    <3>2. QED
      BY <1>1, <1>2, <2>1, <2>3, <3>1
  <2>4. QED
    BY <2>2, <2>3
<1>5. QED
  BY <1>3, <1>4 DEF Without, a, b

(* The list keeps every other timer. *)
LEMMA WithoutKeeps ==
  ASSUME list \in Seq(Timers), NEW i \in 1..Len(list), NEW t \in Listed, t # list[i]
  PROVE  \E j \in 1..Len(Without(i)) : Without(i)[j] = t
<1>1. PICK k \in 1..Len(list) : list[k] = t
  BY DEF Listed
<1>2. CASE k < i
  <2>1. k \in 1..Len(list) - 1
    BY <1>2
  <2>2. QED
    BY <1>1, <1>2, <2>1, WithoutFacts
<1>3. CASE k > i
  <2>1. k - 1 \in 1..Len(list) - 1 /\ ~(k - 1 < i) /\ (k - 1) + 1 = k
    BY <1>3
  <2>2. QED
    BY <1>1, <2>1, WithoutFacts
<1>4. QED
  BY <1>1, <1>2, <1>3

(* Before timer_init there is no timer. *)
LEMMA TimerInitInv == TimerInit => TimerInv
<1> SUFFICES ASSUME TimerInit PROVE TimerInv
  OBVIOUS
<1>1. TimerTypeOK
  <2>1. remaining \in [Timers -> 0..Period] /\ late \in [Timers -> Nat] /\ list \in Seq(Timers)
    BY TicksAssumption DEF TimerInit
  <2>2. clock \in [pc : {"none", "wait", "sync", "walk", "call", "ended"},
                   at : Nat \ {0}, elapsed : 0..MaxElapsed]
    BY TicksAssumption DEF TimerInit, NoClock
  <2>3. QED
    BY <2>1, <2>2 DEF TimerInit, TimerTypeOK
<1>2. ListedOnce /\ LateIsOver /\ OneLateCallback /\ clock.pc = "none"
  BY DEF TimerInit, ListedOnce, LateIsOver, OneLateCallback, NoClock
<1>3. QED
  BY <1>1, <1>2 DEF TimerInv

(* What no step on the list, the flags and the callbacks can disturb. *)
LEMMA OnlyClockMoves ==
  ASSUME TimerInv, UNCHANGED <<inited, stopSign, list, remaining, deleted, late>>,
         clock' \in [pc : {"none", "wait", "sync", "walk", "call", "ended"},
                     at : Nat \ {0}, elapsed : 0..MaxElapsed],
         clock'.pc = "call" => clock'.at <= Len(list),
         \A i \in 1..Len(list) : ToCome(i)' => late[list[i]] = 0
  PROVE  TimerInv'
<1>1. TimerTypeOK'
  BY DEF TimerInv, TimerTypeOK
<1>2. (ListedOnce /\ OneLateCallback)'
  BY DEF TimerInv, ListedOnce, OneLateCallback
<1>3. LateIsOver'
  BY DEF TimerInv, LateIsOver
<1>4. QED
  BY <1>1, <1>2, <1>3 DEF TimerInv

(* Every step of the clock and of the threads that use timers keeps TimerInv. *)
LEMMA TimerStepInv == TimerInv /\ TimerStep => TimerInv'
<1> SUFFICES ASSUME TimerInv, TimerStep PROVE TimerInv'
  OBVIOUS
<1> USE TicksAssumption
<1> DEFINE Clocks == [pc : {"none", "wait", "sync", "walk", "call", "ended"},
                      at : Nat \ {0}, elapsed : 0..MaxElapsed]
<1>A. list \in Seq(Timers) /\ Len(list) \in Nat
  BY DEF TimerInv, TimerTypeOK
<1>L. \A i \in 1..Len(list) : list[i] \in Timers
  BY <1>A
<1>B. clock \in Clocks
  BY DEF TimerInv, TimerTypeOK
<1>C. late \in [Timers -> Nat]
  BY DEF TimerInv, TimerTypeOK
<1>D. remaining \in [Timers -> 0..Period]
  BY DEF TimerInv, TimerTypeOK
<1>1. CASE UNCHANGED timerVars
  <2>1. \A i \in 1..Len(list) : ToCome(i)' => late[list[i]] = 0
    BY <1>1 DEF TimerInv, LateIsOver, ToCome, timerVars
  <2>2. QED
    BY <1>1, <2>1, <1>A, <1>L, <1>B, <1>C, OnlyClockMoves DEF timerVars, TimerInv
<1>2. CASE timer_init
  <2>1. CASE inited
    BY <1>1, <1>2, <2>1 DEF timer_init
  <2>2. CASE ~inited
    <3>1. /\ inited' = TRUE /\ stopSign' = FALSE /\ list' = <<>>
          /\ clock' = [NoClock EXCEPT !.pc = "wait"] /\ UNCHANGED <<remaining, deleted, late>>
      BY <1>2, <2>2 DEF timer_init
    <3>2. clock' \in Clocks /\ clock'.pc = "wait"
      BY <3>1 DEF NoClock
    <3>3. list' \in Seq(Timers) /\ Len(list') = 0
      BY <3>1
    <3>4. TimerTypeOK'
      BY <3>1, <3>2, <3>3 DEF TimerInv, TimerTypeOK
    <3>5. (ListedOnce /\ LateIsOver)'
      BY <3>3 DEF ListedOnce, LateIsOver
    <3>6. QED
      BY <3>1, <3>2, <3>4, <3>5 DEF TimerInv, OneLateCallback
  <2>3. QED
    BY <2>1, <2>2
<1>3. CASE DestroySign
  <2>1. stopSign' = TRUE /\ UNCHANGED <<inited, list, remaining, deleted, clock, late>>
    BY <1>3 DEF DestroySign
  <2>2. TimerTypeOK'
    BY <2>1 DEF TimerInv, TimerTypeOK
  <2>3. QED
    BY <2>1, <2>2 DEF TimerInv, ListedOnce, OneLateCallback, LateIsOver, ToCome
<1>4. CASE DestroyJoin
  <2>1. clock' = NoClock /\ inited' = FALSE /\ UNCHANGED <<stopSign, list, remaining, deleted, late>>
    BY <1>4 DEF DestroyJoin
  <2>2. clock' \in Clocks /\ clock'.pc = "none"
    BY <2>1 DEF NoClock
  <2>3. TimerTypeOK'
    BY <2>1, <2>2 DEF TimerInv, TimerTypeOK
  <2>4. QED
    BY <2>1, <2>2, <2>3 DEF TimerInv, ListedOnce, OneLateCallback, LateIsOver, ToCome
<1>5. ASSUME NEW t \in Timers, timer_create(t) PROVE TimerInv'
  <2>1. /\ t \notin Listed /\ list' = Append(list, t)
        /\ UNCHANGED <<inited, stopSign, clock>>
        /\ late' = [late EXCEPT ![t] = 0]
        /\ remaining' = [remaining EXCEPT ![t] = Period]
    BY <1>5 DEF timer_create
  <2>2. deleted' = [deleted EXCEPT ![t] = FALSE]
    BY <1>5 DEF timer_create
  <2>3. deleted' \in [Timers -> BOOLEAN] /\ \A u \in Timers \ {t} : deleted'[u] = deleted[u]
    BY <2>2 DEF TimerInv, TimerTypeOK
  <2>4. /\ list' \in Seq(Timers) /\ Len(list') = Len(list) + 1
        /\ \A i \in 1..Len(list') : list'[i] = IF i <= Len(list) THEN list[i] ELSE t
    BY <1>A, <1>L, <1>B, <1>C, <2>1
  <2>5. \A i \in 1..Len(list) : list[i] # t
    BY <2>1 DEF Listed
  <2>6. late' \in [Timers -> Nat] /\ late'[t] = 0 /\ \A u \in Timers \ {t} : late'[u] = late[u]
    BY <1>A, <1>L, <1>B, <1>C, <2>1
  <2>7. remaining' \in [Timers -> 0..Period]
    BY <2>1 DEF TimerInv, TimerTypeOK
  <2>8. TimerTypeOK'
    BY <2>1, <2>3, <2>4, <2>6, <2>7 DEF TimerInv, TimerTypeOK
  <2>9. ListedOnce'
    <3> SUFFICES ASSUME NEW i \in 1..Len(list) + 1, NEW j \in 1..Len(list) + 1, list'[i] = list'[j]
                 PROVE  i = j
      BY <2>4 DEF ListedOnce
    <3>1. CASE i <= Len(list) /\ j <= Len(list)
      <4>1. i \in 1..Len(list) /\ j \in 1..Len(list)
        BY <1>A, <1>L, <1>B, <1>C, <3>1
      <4>2. list[i] = list[j]
        BY <2>4, <3>1
      <4>3. QED
        BY <4>1, <4>2 DEF TimerInv, ListedOnce
    <3>2. CASE i <= Len(list) /\ ~(j <= Len(list))
      <4>1. i \in 1..Len(list) /\ list'[j] = t /\ list'[i] = list[i]
        BY <1>A, <2>4, <3>2
      <4>2. QED
        BY <2>5, <4>1
    <3>3. CASE ~(i <= Len(list)) /\ j <= Len(list)
      <4>1. j \in 1..Len(list) /\ list'[i] = t /\ list'[j] = list[j]
        BY <1>A, <2>4, <3>3
      <4>2. QED
        BY <2>5, <4>1
    <3>4. QED
      BY <1>A, <1>L, <1>B, <1>C, <3>1, <3>2, <3>3
  <2>10. LateIsOver'
    <3> SUFFICES ASSUME NEW i \in 1..Len(list'), (ToCome(i) \/ ~deleted[list[i]])'
                 PROVE  late'[list'[i]] = 0
      BY DEF LateIsOver
    <3>1. CASE i <= Len(list)
      <4>1. i \in 1..Len(list) /\ list'[i] = list[i] /\ list[i] \in Timers \ {t}
        <5>1. i \in 1..Len(list)
          BY <1>A, <2>4, <3>1
        <5>2. QED
          BY <1>L, <2>4, <2>5, <3>1, <5>1
      <4>2. ToCome(i)' <=> ToCome(i)
        BY <2>1 DEF ToCome
      <4>3. deleted'[list'[i]] = deleted[list[i]] /\ late'[list'[i]] = late[list[i]]
        BY <2>3, <2>6, <4>1
      <4>4. QED
        BY <4>1, <4>2, <4>3 DEF TimerInv, LateIsOver
    <3>2. CASE ~(i <= Len(list))
      BY <2>4, <2>6, <3>2
    <3>3. QED
      BY <3>1, <3>2
  <2>11. OneLateCallback'
    BY <1>C, <2>6 DEF TimerInv, OneLateCallback
  <2>12. QED
    BY <1>A, <1>L, <1>B, <1>C, <2>1, <2>4, <2>8, <2>9, <2>10, <2>11 DEF TimerInv
<1>6. ASSUME UNCHANGED <<inited, stopSign, list, clock, late>>,
             remaining' \in [Timers -> 0..Period], deleted' \in [Timers -> BOOLEAN],
             \A t \in Timers : deleted[t] => deleted'[t]
      PROVE  TimerInv'
  <2>1. TimerTypeOK'
    BY <1>6 DEF TimerInv, TimerTypeOK
  <2>2. (ListedOnce /\ OneLateCallback)'
    BY <1>6 DEF TimerInv, ListedOnce, OneLateCallback
  <2>3. LateIsOver'
    BY <1>A, <1>L, <1>B, <1>C, <1>6 DEF TimerInv, LateIsOver, ToCome
  <2>4. QED
    BY <1>6, <2>1, <2>2, <2>3 DEF TimerInv
<1>7. ASSUME NEW t \in Timers, timer_del(t) PROVE TimerInv'
  <2>1. /\ deleted' = IF inited /\ t \in Listed THEN [deleted EXCEPT ![t] = TRUE] ELSE deleted
        /\ UNCHANGED <<inited, stopSign, list, clock, late>> /\ UNCHANGED remaining
    BY <1>7 DEF timer_del
  <2>2. deleted' \in [Timers -> BOOLEAN] /\ \A u \in Timers : deleted[u] => deleted'[u]
    BY <2>1 DEF TimerInv, TimerTypeOK
  <2>3. remaining' \in [Timers -> 0..Period]
    BY <2>1 DEF TimerInv, TimerTypeOK
  <2>4. QED
    BY <1>6, <2>1, <2>2, <2>3
<1>8. ASSUME NEW e \in 0..MaxElapsed, Tick(e) PROVE TimerInv'
  <2>1. clock' = [pc |-> "sync", at |-> 1, elapsed |-> e]
        /\ UNCHANGED <<inited, stopSign, list, remaining, deleted, late>>
    BY <1>8 DEF Tick
  <2>2. clock' \in Clocks /\ \A i \in 1..Len(list) : ~ToCome(i)'
    BY <2>1 DEF ToCome
  <2>3. QED
    BY <2>1, <2>2, OnlyClockMoves
<1>9. CASE SyncVisit
  <2>1. /\ clock.pc = "sync" /\ clock.at \in 1..Len(list)
        /\ UNCHANGED <<inited, stopSign, deleted, late>>
    BY <1>A, <1>L, <1>B, <1>C, <1>9 DEF SyncVisit, AtEnd
  <2>2. ASSUME list' = Without(clock.at), UNCHANGED <<remaining, clock>> PROVE TimerInv'
    <3>1. /\ list' \in Seq(Timers) /\ Len(list') = Len(list) - 1
          /\ \A j \in 1..Len(list') : list'[j] = IF j < clock.at THEN list[j] ELSE list[j + 1]
      BY <1>A, <1>L, <1>B, <1>C, <2>1, <2>2, WithoutFacts
    <3>2. TimerTypeOK'
      BY <2>1, <2>2, <3>1 DEF TimerInv, TimerTypeOK
    <3>3. ListedOnce'
      <4> SUFFICES ASSUME NEW i \in 1..Len(list'), NEW j \in 1..Len(list'), list'[i] = list'[j]
                   PROVE  i = j
        BY DEF ListedOnce
      <4> DEFINE old(k) == IF k < clock.at THEN k ELSE k + 1
      <4>0. i \in 1..Len(list) - 1 /\ j \in 1..Len(list) - 1
        BY <3>1
      <4>1. /\ old(i) \in 1..Len(list) /\ old(j) \in 1..Len(list)
            /\ list'[i] = list[old(i)] /\ list'[j] = list[old(j)]
        <5>1. old(i) \in 1..Len(list) /\ old(j) \in 1..Len(list)
          BY <1>A, <2>1, <4>0
        <5>2. QED
          BY <3>1, <5>1
      <4>2. old(i) = old(j)
        BY <4>1 DEF TimerInv, ListedOnce
      <4>3. QED
        BY <2>1, <4>0, <4>2
    <3>4. LateIsOver'
      <4> SUFFICES ASSUME NEW i \in 1..Len(list'), (ToCome(i) \/ ~deleted[list[i]])'
                   PROVE  late'[list'[i]] = 0
        BY DEF LateIsOver
      <4>1. PICK k \in 1..Len(list) : list'[i] = list[k] /\ (i < clock.at => k = i)
        <5>1. CASE i < clock.at
          <6>1. i \in 1..Len(list)
            BY <1>A, <2>1, <3>1
          <6>2. QED
            BY <3>1, <5>1, <6>1
        <5>2. CASE ~(i < clock.at)
          <6>0. Len(list') = Len(list) - 1 /\ Len(list) \in Nat
            BY <1>A, <1>L, <1>B, <1>C, <3>1
          <6>1. i + 1 \in 1..Len(list)
            BY <6>0
          <6>2. QED
            BY <3>1, <5>2, <6>1
        <5>3. QED
          BY <5>1, <5>2
      <4>2. ToCome(i)' => i < clock.at
        BY <2>1, <2>2 DEF ToCome
      <4>3. ToCome(i)' => ToCome(k)
        BY <2>1, <2>2, <4>1, <4>2 DEF ToCome
      <4>4. ToCome(k) \/ ~deleted[list[k]]
        BY <2>1, <4>1, <4>3
      <4>5. QED
        BY <2>1, <4>1, <4>4 DEF TimerInv, LateIsOver
    <3>5. QED
      BY <2>1, <2>2, <3>2, <3>3, <3>4 DEF TimerInv, OneLateCallback
  <2>3. ASSUME ~deleted[Here], remaining' = [remaining EXCEPT ![Here] = Less(@, clock.elapsed)],
               clock' = [clock EXCEPT !.at = @ + 1], UNCHANGED list
        PROVE  TimerInv'
    <3>0. clock' = [clock EXCEPT !.at = @ + 1]
      BY <2>3
    <3>1. clock' \in Clocks /\ clock'.pc = "sync" /\ clock'.at = clock.at + 1
      BY <1>B, <2>1, <3>0
    <3>2. Here \in Timers
      BY <1>A, <1>L, <1>B, <1>C, <2>1 DEF Here
    <3>3. remaining' \in [Timers -> 0..Period]
      <4>1. remaining \in [Timers -> 0..Period] /\ clock.elapsed \in Nat
        BY <1>A, <1>L, <1>B, <1>C DEF TimerInv, TimerTypeOK
      <4>2. Less(remaining[Here], clock.elapsed) \in 0..Period
        BY <3>2, <4>1 DEF Less
      <4>3. QED
        BY <2>3, <3>2, <4>1, <4>2
    <3>4. TimerTypeOK'
      BY <2>1, <2>3, <3>1, <3>3 DEF TimerInv, TimerTypeOK
    <3>5. (ListedOnce /\ OneLateCallback)'
      BY <2>1, <2>3 DEF TimerInv, ListedOnce, OneLateCallback
    <3>6. LateIsOver'
      <4> SUFFICES ASSUME NEW i \in 1..Len(list), ToCome(i)' \/ ~deleted[list[i]]
                   PROVE  late[list[i]] = 0
        BY <2>1, <2>3 DEF LateIsOver
      <4>1. ToCome(i)' => ToCome(i) \/ i = clock.at
        BY <1>A, <1>L, <1>B, <1>C, <2>1, <3>1 DEF ToCome
      <4>2. i = clock.at => ~deleted[list[i]]
        BY <2>3 DEF Here
      <4>3. QED
        BY <4>1, <4>2 DEF TimerInv, LateIsOver
    <3>7. QED
      BY <3>1, <3>4, <3>5, <3>6 DEF TimerInv
  <2>4. CASE deleted[Here] \/ stopSign
    BY <1>9, <2>2, <2>4 DEF SyncVisit
  <2>5. CASE ~(deleted[Here] \/ stopSign)
    BY <1>9, <2>3, <2>5 DEF SyncVisit
  <2>6. QED
    BY <2>4, <2>5
<1>10. CASE SyncEnd
  <2>1. /\ clock.pc = "sync" /\ clock.at > Len(list)
        /\ UNCHANGED <<inited, stopSign, list, remaining, deleted, late>>
    BY <1>10 DEF SyncEnd, AtEnd
  <2>2. PICK p \in {"ended", "walk"} : clock' = [NoClock EXCEPT !.pc = p]
    BY <1>10 DEF SyncEnd
  <2>3. clock' \in Clocks /\ clock'.pc # "call"
    BY <2>2 DEF NoClock
  <2>4. \A i \in 1..Len(list) : ToCome(i)
    BY <1>A, <1>L, <1>B, <1>C, <2>1 DEF ToCome
  <2>5. QED
    BY <2>1, <2>3, <2>4, OnlyClockMoves DEF TimerInv, LateIsOver
<1>11. CASE Fire
  <2>1. /\ clock.pc = "walk" /\ clock.at \in 1..Len(list) /\ clock' = [clock EXCEPT !.pc = "call"]
        /\ UNCHANGED <<inited, stopSign, list, remaining, deleted>>
    BY <1>A, <1>L, <1>B, <1>C, <1>11 DEF Fire, AtEnd
  <2>2. /\ clock' \in Clocks /\ clock'.pc = "call" /\ clock'.at = clock.at
    BY <1>A, <1>L, <1>B, <1>C, <2>1
  <2>3. Here \in Timers /\ Here = list[clock.at]
    BY <1>A, <1>L, <1>B, <1>C, <2>1 DEF Here
  <2>4. late[Here] = 0
    BY <2>1, <2>3, <1>A, <1>L, <1>B, <1>C DEF TimerInv, LateIsOver, ToCome
  <2>5. \/ late' = late
        \/ late' = [late EXCEPT ![Here] = @ + 1] /\ deleted[Here]
    BY <1>11 DEF Fire
  <2>6. /\ late' \in [Timers -> Nat] /\ late'[Here] <= 1
        /\ \A t \in Timers \ {Here} : late'[t] = late[t]
        /\ ~deleted[Here] => late'[Here] = 0
    <3>1. CASE late' = late
      BY <1>C, <2>3, <2>4, <3>1
    <3>2. CASE late' = [late EXCEPT ![Here] = @ + 1] /\ deleted[Here]
      BY <1>C, <2>3, <2>4, <3>2
    <3>3. QED
      BY <2>5, <3>1, <3>2
  <2>7. TimerTypeOK'
    BY <2>1, <2>2, <2>6 DEF TimerInv, TimerTypeOK
  <2>8. OneLateCallback'
    BY <2>6 DEF TimerInv, OneLateCallback
  <2>9. LateIsOver'
    <3> SUFFICES ASSUME NEW i \in 1..Len(list), ToCome(i)' \/ ~deleted[list[i]]
                 PROVE  late'[list[i]] = 0
      BY <2>1 DEF LateIsOver
    <3>1. CASE i = clock.at
      BY <1>A, <1>L, <1>B, <1>C, <2>2, <2>3, <2>6, <3>1 DEF ToCome
    <3>2. CASE i # clock.at
      <4>1. list[i] \in Timers \ {Here}
        BY <1>A, <1>L, <1>B, <1>C, <2>1, <2>3, <3>2 DEF TimerInv, ListedOnce
      <4>2. ToCome(i)' => ToCome(i)
        BY <1>A, <1>L, <1>B, <1>C, <2>1, <2>2 DEF ToCome
      <4>3. QED
        BY <2>6, <4>1, <4>2 DEF TimerInv, LateIsOver
    <3>3. QED
      BY <3>1, <3>2
  <2>10. QED
    BY <1>A, <1>L, <1>B, <1>C, <2>1, <2>2, <2>7, <2>8, <2>9 DEF TimerInv, ListedOnce
<1>12. CASE Skip
  <2>1. /\ clock.pc = "walk" /\ clock' = [clock EXCEPT !.at = @ + 1]
        /\ UNCHANGED <<inited, stopSign, list, remaining, deleted, late>>
    BY <1>12 DEF Skip
  <2>2. clock' \in Clocks /\ clock'.pc = "walk" /\ clock'.at = clock.at + 1
    BY <1>A, <1>L, <1>B, <1>C, <2>1, SMTT(20)
  <2>3. \A i \in 1..Len(list) : ToCome(i)' => ToCome(i)
    BY <1>A, <1>L, <1>B, <1>C, <2>1, <2>2 DEF ToCome
  <2>4. QED
    BY <2>1, <2>2, <2>3, OnlyClockMoves DEF TimerInv, LateIsOver
<1>13. ASSUME NEW abort \in BOOLEAN, Returned(abort) PROVE TimerInv'
  <2>1. /\ clock.pc = "call" /\ clock.at \in 1..Len(list)
        /\ clock' = [clock EXCEPT !.pc = "walk", !.at = @ + 1]
        /\ UNCHANGED <<inited, stopSign, list, late>>
    BY <1>A, <1>L, <1>B, <1>C, <1>13 DEF Returned, TimerInv
  <2>2. clock' \in Clocks /\ clock'.pc = "walk" /\ clock'.at = clock.at + 1
    <3>1. clock' = [clock EXCEPT !.pc = "walk", !.at = @ + 1]
      BY <2>1
    <3>2. clock.at + 1 \in Nat \ {0}
      BY <1>B
    <3>3. QED
      BY <1>B, <3>1, <3>2
  <2>3. Here \in Timers
    BY <1>A, <1>L, <1>B, <1>C, <2>1 DEF Here
  <2>4. deleted' = deleted \/ deleted' = [deleted EXCEPT ![Here] = TRUE]
    BY <1>13 DEF Returned
  <2>5. deleted' \in [Timers -> BOOLEAN] /\ \A u \in Timers : deleted[u] => deleted'[u]
    BY <2>4, <2>3 DEF TimerInv, TimerTypeOK
  <2>6. remaining' = remaining \/ remaining' = [remaining EXCEPT ![Here] = Period]
    BY <1>13 DEF Returned
  <2>7. remaining' \in [Timers -> 0..Period]
    <3>1. Period \in 0..Period
      OBVIOUS
    <3>2. QED
      BY <1>D, <2>3, <2>6, <3>1
  <2>8. TimerTypeOK'
    BY <2>1, <2>2, <2>5, <2>7 DEF TimerInv, TimerTypeOK
  <2>9. LateIsOver'
    <3> SUFFICES ASSUME NEW i \in 1..Len(list), ToCome(i)' \/ ~deleted'[list[i]]
                 PROVE  late[list[i]] = 0
      BY <2>1 DEF LateIsOver
    <3>1. ToCome(i)' => ToCome(i)
      BY <1>A, <1>L, <1>B, <1>C, <2>1, <2>2 DEF ToCome
    <3>2. QED
      BY <1>A, <1>L, <1>B, <1>C, <2>5, <3>1 DEF TimerInv, LateIsOver
  <2>10. QED
    BY <2>1, <2>2, <2>8, <2>9 DEF TimerInv, ListedOnce, OneLateCallback
<1>14. CASE WalkEnd
  <2>1. clock' = [NoClock EXCEPT !.pc = "wait"]
        /\ UNCHANGED <<inited, stopSign, list, remaining, deleted, late>>
    BY <1>14 DEF WalkEnd
  <2>2. clock' \in Clocks /\ clock'.pc = "wait"
    BY <2>1 DEF NoClock
  <2>3. QED
    BY <2>1, <2>2, OnlyClockMoves DEF ToCome
<1>15. CASE clock' = NoClock /\ UNCHANGED <<inited, stopSign, list, remaining, deleted, late>>
  <2>1. clock' \in Clocks /\ clock'.pc = "none"
    BY <1>15 DEF NoClock
  <2>2. QED
    BY <1>15, <2>1, OnlyClockMoves DEF ToCome
<1>16. QED
  BY <1>1, <1>2, <1>3, <1>4, <1>5, <1>7, <1>8, <1>9, <1>10, <1>11, <1>12, <1>13, <1>14, <1>15
  DEF TimerStep, Clock

-----------------------------------------------------------------------------
(* A client and its sessions (ClientSession) *)

(* The timer at the clock is that of no session once its callback has       *)
(* released the session it was made for.                                    *)
ReleasedIsGone ==
  clock.pc = "call" /\ beat = "logout" /\ ~stopSign => \A s \in live : timerOf[s] # Here

(* The callback's steps are taken while the clock is in it. *)
BeatInCall ==
  /\ inited \/ clock.pc = "none"
  /\ \/ beat = "heartbeat" \/ clock.pc = "call"
     \/ app = "crash" /\ clock.pc = "none"

TimerRuns ==
  /\ inited \/ live = {}
  /\ conn # "none" => inited /\ ~stopSign
  /\ inited /\ stopSign => app \in {"disconnect", "crash"}
  /\ app = "disconnect" => conn = "none"

(***************************************************************************)
(* The invariant HeartbeatKept needs: timer_init ran before there is a     *)
(* connection or a session, timer_destroy signs only in mc_disconnect, and *)
(* ReleasedIsGone.                                                         *)
(***************************************************************************)
ClientInv ==
  /\ TimerInv /\ ClientTypeOK
  /\ HeartbeatKept
  /\ ReleasedIsGone
  /\ TimerRuns
  /\ BeatInCall

(* Every step of a client is one of the steps on its timers. *)
LEMMA ClientStepsTimers ==
  ASSUME ClientTypeOK, [ClientNext]_apiVars
  PROVE  TimerStep
<1>0. \A s \in live : timerOf[s] \in Timers
  BY DEF ClientTypeOK
<1>U. Undefined => TimerStep
  BY DEF Undefined, TimerStep
<1>R. \A s : Release(s) => TimerStep
  BY <1>0 DEF Release, TimerStep
<1>1. CASE TheClock
  BY <1>1 DEF TheClock, TimerStep
<1>2. CASE Callback
  BY <1>U, <1>R, <1>2 DEF Callback, BeatOk, BeatBad, BeatRelease, BeatLogout, TimerStep
<1>3. CASE Disconnected \/ LogoutEnd \/ LoginFail \/ Connect \/ Disconnect \/ LoginBegin \/ Expire \/ Lose
  BY <1>3 DEF Disconnected, LogoutEnd, LoginFail, Connect, Disconnect, LoginBegin, Expire, Lose, TimerStep
<1>4. CASE LogoutBegin
  BY <1>U, <1>R, <1>4 DEF LogoutBegin
<1>5. ASSUME NEW op \in Ops, CallBegin(op) PROVE TimerStep
  BY <1>U, <1>5 DEF CallBegin, TimerStep
<1>6. ASSUME NEW op \in Ops, CallEnd(op) PROVE TimerStep
  BY <1>U, <1>6 DEF CallEnd, TimerStep
<1>7. ASSUME NEW s \in Sessions, NEW t \in Timers, LoginOk(s, t) PROVE TimerStep
  BY <1>7 DEF LoginOk, TimerStep
<1>8. CASE UNCHANGED apiVars
  BY <1>8 DEF apiVars, TimerStep
<1>9. QED
  BY <1>1, <1>2, <1>3, <1>4, <1>5, <1>6, <1>7, <1>8 DEF ClientNext, CallReturns

(* A client before its first connection *)
LEMMA ClientInitInv == ClientInit => ClientInv
<1> SUFFICES ASSUME ClientInit PROVE ClientInv
  OBVIOUS
<1>1. TimerInv
  BY TimerInitInv DEF ClientInit
<1>2. timerOf \in [Sessions -> Timers]
  BY AddressesAssumption DEF ClientInit
<1>3. ClientTypeOK
  BY <1>1, <1>2 DEF ClientInit, ClientTypeOK, TimerInv
<1>4. QED
  BY <1>1, <1>3 DEF ClientInit, TimerInit, ClientInv, HeartbeatKept, ReleasedIsGone, TimerRuns,
                       BeatInCall, NoClock

(* Every step keeps the types. *)
LEMMA ClientStepTypes == ClientInv /\ [ClientNext]_apiVars => TimerInv' /\ ClientTypeOK'
<1> SUFFICES ASSUME ClientInv, [ClientNext]_apiVars PROVE TimerInv' /\ ClientTypeOK'
  OBVIOUS
<1>0. ClientTypeOK
  BY DEF ClientInv
<1>T. TimerInv'
  BY <1>0, ClientStepsTimers, TimerStepInv DEF ClientInv
<1> SUFFICES ClientTypeOK'
  BY <1>T
<1>Y. TimerTypeOK'
  BY <1>T DEF TimerInv
<1>U. Undefined => ClientTypeOK'
  BY <1>0, <1>Y DEF Undefined, ClientTypeOK
<1>1. CASE TheClock
  BY <1>0, <1>Y, <1>1 DEF TheClock, clientVars, ClientTypeOK
<1>2. CASE BeatOk
  BY <1>0, <1>Y, <1>2 DEF BeatOk, clientVars, ClientTypeOK
<1>3. CASE BeatBad
  BY <1>0, <1>Y, <1>3 DEF BeatBad, ClientTypeOK
<1>4. CASE BeatRelease
  BY <1>0, <1>U, <1>Y, <1>4 DEF BeatRelease, Release, ClientTypeOK
<1>5. CASE BeatLogout
  <2>1. server' \in BOOLEAN
    BY <1>0, <1>5 DEF BeatLogout, ClientTypeOK
  <2>2. QED
    BY <1>0, <1>Y, <1>5, <2>1 DEF BeatLogout, ClientTypeOK
<1>6. CASE Disconnected
  BY <1>0, <1>Y, <1>6 DEF Disconnected, ClientTypeOK
<1>7. CASE LogoutEnd
  <2>1. server' \in BOOLEAN
    BY <1>0, <1>7 DEF LogoutEnd, ClientTypeOK
  <2>2. misled' \in BOOLEAN
    BY <1>0, <1>7 DEF LogoutEnd, Tell, ClientTypeOK
  <2>3. QED
    BY <1>0, <1>Y, <1>7, <2>1, <2>2 DEF LogoutEnd, ClientTypeOK
<1>8. CASE LoginFail
  <2>1. server' \in BOOLEAN
    BY <1>0, <1>8 DEF LoginFail, ClientTypeOK
  <2>2. misled' \in BOOLEAN
    BY <1>0, <1>8 DEF LoginFail, Tell, ClientTypeOK
  <2>3. QED
    BY <1>0, <1>Y, <1>8, <2>1, <2>2 DEF LoginFail, ClientTypeOK
<1>9. CASE Connect
  BY <1>0, <1>Y, <1>9 DEF Connect, ClientTypeOK
<1>10. CASE Disconnect
  BY <1>0, <1>Y, <1>10 DEF Disconnect, ClientTypeOK
<1>11. CASE LoginBegin
  BY <1>0, <1>Y, <1>11 DEF LoginBegin, ClientTypeOK
<1>12. CASE Expire \/ Lose
  BY <1>0, <1>Y, <1>12 DEF Expire, Lose, ClientTypeOK
<1>13. CASE LogoutBegin
  BY <1>0, <1>U, <1>Y, <1>13 DEF LogoutBegin, Release, ClientTypeOK
<1>14. ASSUME NEW op \in Ops, CallBegin(op) PROVE ClientTypeOK'
  BY <1>0, <1>U, <1>Y, <1>14 DEF CallBegin, ClientTypeOK
<1>15. ASSUME NEW op \in Ops, CallEnd(op) PROVE ClientTypeOK'
  <2>1. Undefined \/ (/\ misled' \in BOOLEAN /\ app' = "out"
                      /\ UNCHANGED <<timerVars, held, live, timerOf, userdata, beat, conn, server>>)
    BY <1>0, <1>15 DEF CallEnd, Tell, ClientTypeOK
  <2>2. QED
    BY <1>0, <1>U, <1>Y, <2>1 DEF ClientTypeOK
<1>16. ASSUME NEW s \in Sessions, NEW t \in Timers, LoginOk(s, t) PROVE ClientTypeOK'
  <2>1. /\ timerOf' \in [Sessions -> Timers] /\ userdata' \in [Timers -> Sessions \cup {None}]
        /\ live' \subseteq Sessions /\ held' \in Sessions
    BY <1>0, <1>16 DEF LoginOk, ClientTypeOK
  <2>2. QED
    BY <1>0, <1>Y, <1>16, <2>1 DEF LoginOk, ClientTypeOK
<1>17. CASE UNCHANGED apiVars
  BY <1>0, <1>Y, <1>17 DEF apiVars, clientVars, ClientTypeOK
<1>18. QED
  BY <1>1, <1>2, <1>3, <1>4, <1>5, <1>6, <1>7, <1>8, <1>9, <1>10, <1>11, <1>12, <1>13, <1>14,
     <1>15, <1>16, <1>17 DEF ClientNext, CallReturns, Callback

(* timer_init and timer_destroy frame the sessions. *)
LEMMA ClientStepRuns == ClientInv /\ [ClientNext]_apiVars => TimerRuns'
<1> SUFFICES ASSUME ClientInv, [ClientNext]_apiVars PROVE TimerRuns'
  OBVIOUS
<1>0. TimerRuns
  BY DEF ClientInv
<1>S. ASSUME UNCHANGED <<inited, stopSign, conn>>, live' \subseteq live \/ inited,
             \/ app' = app \/ app' = "crash"
             \/ app \notin {"disconnect", "crash"} /\ app' # "disconnect"
      PROVE  TimerRuns'
  BY <1>0, <1>S DEF TimerRuns
<1>U. Undefined => TimerRuns'
  BY <1>0 DEF TimerRuns, Undefined
<1>1. CASE TheClock
  BY <1>S, <1>1 DEF TheClock, Clock, Tick, SyncVisit, SyncEnd, Fire, Skip, WalkEnd, clientVars
<1>2. CASE BeatOk \/ BeatBad \/ BeatLogout
  BY <1>S, <1>2 DEF BeatOk, BeatBad, BeatLogout, Returned, clientVars, timerVars
<1>3. CASE BeatRelease
  BY <1>S, <1>U, <1>3 DEF BeatRelease, Release, timer_del
<1>4. CASE Disconnected
  <2>1. inited' = FALSE /\ live' = {} /\ UNCHANGED <<stopSign, conn>>
    BY <1>4 DEF Disconnected, DestroyJoin
  <2>2. conn = "none"
    <3>1. app = "disconnect"
      BY <1>4 DEF Disconnected
    <3>2. QED
      BY <1>0, <3>1 DEF TimerRuns
  <2>3. QED
    BY <2>1, <2>2 DEF TimerRuns
<1>5. CASE LogoutEnd \/ LoginFail \/ LoginBegin \/ Expire
  BY <1>S, <1>5 DEF LogoutEnd, LoginFail, LoginBegin, Expire, timerVars
<1>6. CASE Lose
  BY <1>0, <1>6 DEF Lose, timerVars, up, TimerRuns
<1>7. CASE Connect
  BY <1>0, <1>7 DEF Connect, timer_init, timerVars, TimerRuns
<1>8. CASE Disconnect
  BY <1>0, <1>8 DEF Disconnect, DestroySign, TimerRuns
<1>9. CASE LogoutBegin
  BY <1>S, <1>U, <1>9 DEF LogoutBegin, Release, timer_del
<1>10. ASSUME NEW op \in Ops, CallBegin(op) PROVE TimerRuns'
  BY <1>S, <1>U, <1>10 DEF CallBegin, timerVars
<1>11. ASSUME NEW op \in Ops, CallEnd(op) PROVE TimerRuns'
  BY <1>S, <1>U, <1>11 DEF CallEnd, timerVars
<1>12. ASSUME NEW s \in Sessions, NEW t \in Timers, LoginOk(s, t) PROVE TimerRuns'
  BY <1>0, <1>12 DEF LoginOk, timer_create, up, TimerRuns
<1>13. CASE UNCHANGED apiVars
  BY <1>S, <1>13 DEF apiVars, clientVars, timerVars
<1>14. QED
  BY <1>1, <1>2, <1>3, <1>4, <1>5, <1>6, <1>7, <1>8, <1>9, <1>10, <1>11, <1>12, <1>13
  DEF ClientNext, CallReturns, Callback

(* A beat runs only inside of a call of the timer. *)
LEMMA ClientStepBeat == ClientInv /\ [ClientNext]_apiVars => BeatInCall'
<1> SUFFICES ASSUME ClientInv, [ClientNext]_apiVars PROVE BeatInCall'
  OBVIOUS
<1>0. BeatInCall
  BY DEF ClientInv
<1>B. clock \in [pc : {"none", "wait", "sync", "walk", "call", "ended"},
                 at : Nat \ {0}, elapsed : 0..MaxElapsed]
  BY DEF ClientInv, TimerInv, TimerTypeOK
<1>S. ASSUME UNCHANGED <<inited, clock, beat>>, app' = app \/ app # "crash" PROVE BeatInCall'
  BY <1>0, <1>S DEF BeatInCall
<1>U. ASSUME Undefined PROVE BeatInCall'
  <2>1. app' = "crash" /\ clock'.pc = "none"
    BY <1>U DEF Undefined, NoClock
  <2>2. QED
    BY <2>1 DEF BeatInCall
<1>1. CASE TheClock
  <2>1. UNCHANGED <<inited, beat>>
    BY <1>1 DEF TheClock, Clock, Tick, SyncVisit, SyncEnd, Fire, Skip, WalkEnd, clientVars
  <2>2. clock.pc \in {"wait", "sync", "walk"}
    BY <1>1 DEF TheClock, Clock, Tick, SyncVisit, SyncEnd, Fire, Skip, WalkEnd
  <2>3. QED
    BY <1>0, <2>1, <2>2 DEF BeatInCall
<1>2. CASE BeatOk
  BY <1>0, <1>2 DEF BeatOk, Returned, clientVars, BeatInCall
<1>3. CASE BeatBad
  BY <1>0, <1>3 DEF BeatBad, timerVars, BeatInCall
<1>4. CASE BeatRelease
  BY <1>0, <1>U, <1>4 DEF BeatRelease, Release, timer_del, BeatInCall
<1>5. CASE BeatLogout
  BY <1>0, <1>5 DEF BeatLogout, Returned, BeatInCall
<1>6. CASE Disconnected
  <2>1. clock.pc = "ended" /\ clock'.pc = "none" /\ UNCHANGED beat
    BY <1>6 DEF Disconnected, DestroyJoin, NoClock
  <2>2. QED
    BY <1>0, <2>1 DEF BeatInCall
<1>7. CASE LogoutEnd \/ LoginFail \/ LoginBegin \/ Expire \/ Lose
  BY <1>S, <1>7 DEF LogoutEnd, LoginFail, LoginBegin, Expire, Lose, timerVars
<1>8. CASE Connect
  <2>1. app = "out" /\ UNCHANGED <<app, beat>> /\ (UNCHANGED <<inited, clock>> \/ (~inited /\ inited'))
    BY <1>8 DEF Connect, timer_init, timerVars
  <2>2. QED
    BY <1>0, <2>1 DEF BeatInCall
<1>9. CASE Disconnect
  BY <1>S, <1>9 DEF Disconnect, DestroySign
<1>10. CASE LogoutBegin
  BY <1>S, <1>U, <1>10 DEF LogoutBegin, Release, timer_del
<1>11. ASSUME NEW op \in Ops, CallBegin(op) PROVE BeatInCall'
  BY <1>S, <1>U, <1>11 DEF CallBegin, timerVars
<1>12. ASSUME NEW op \in Ops, CallEnd(op) PROVE BeatInCall'
  BY <1>S, <1>U, <1>12 DEF CallEnd, timerVars
<1>13. ASSUME NEW s \in Sessions, NEW t \in Timers, LoginOk(s, t) PROVE BeatInCall'
  BY <1>S, <1>13 DEF LoginOk, timer_create
<1>14. CASE UNCHANGED apiVars
  BY <1>S, <1>14 DEF apiVars, clientVars, timerVars
<1>15. QED
  BY <1>1, <1>2, <1>3, <1>4, <1>5, <1>6, <1>7, <1>8, <1>9, <1>10, <1>11, <1>12, <1>13, <1>14
  DEF ClientNext, CallReturns, Callback

(* A session that is released takes its own timer with it and no other. *)
LEMMA ReleaseKeeps ==
  ASSUME ClientInv, NEW s, Release(s), UNCHANGED <<timerOf, userdata>>
  PROVE  /\ HeartbeatKept'
         /\ clock.pc = "call" /\ s = userdata[Here] /\ ~stopSign => \A r \in live' : timerOf[r] # Here
<1>1. /\ s \in live /\ live' = live \ {s} /\ UNCHANGED <<stopSign, list>>
      /\ deleted' = IF inited /\ timerOf[s] \in Listed THEN [deleted EXCEPT ![timerOf[s]] = TRUE] ELSE deleted
  BY DEF Release, timer_del
<1>2. HeartbeatKept
  BY DEF ClientInv
<1>3. deleted \in [Timers -> BOOLEAN] /\ timerOf \in [Sessions -> Timers] /\ live \subseteq Sessions
  BY DEF ClientInv, ClientTypeOK, TimerTypeOK
<1>4. ASSUME ~stopSign, NEW r \in live'
      PROVE  /\ timerOf[r] \in Listed /\ ~deleted'[timerOf[r]] /\ userdata[timerOf[r]] = r
             /\ userdata[timerOf[r]] # s
  <2>1. r \in live /\ r # s
    BY <1>1
  <2>2. timerOf[r] \in Listed /\ ~deleted[timerOf[r]] /\ userdata[timerOf[r]] = r
    BY <1>2, <1>4, <2>1 DEF HeartbeatKept
  <2>3. userdata[timerOf[s]] = s
    BY <1>1, <1>2, <1>4 DEF HeartbeatKept
  <2>4. timerOf[r] # timerOf[s]
    BY <2>1, <2>2, <2>3
  <2>5. deleted'[timerOf[r]] = deleted[timerOf[r]]
    BY <1>1, <1>3, <2>1, <2>4
  <2>6. QED
    BY <2>1, <2>2, <2>5
<1>5. Listed' = Listed
  BY <1>1 DEF Listed
<1>6. HeartbeatKept'
  BY <1>1, <1>4, <1>5 DEF HeartbeatKept
<1>7. ASSUME s = userdata[Here], ~stopSign, NEW r \in live' PROVE timerOf[r] # Here
  BY <1>4, <1>7
<1>8. QED
  BY <1>6, <1>7

(* Every step keeps the timers of the sessions. *)
LEMMA ClientStepKept == ClientInv /\ [ClientNext]_apiVars => HeartbeatKept' /\ ReleasedIsGone'
<1> SUFFICES ASSUME ClientInv, [ClientNext]_apiVars PROVE HeartbeatKept' /\ ReleasedIsGone'
  OBVIOUS
<1>K. HeartbeatKept /\ ReleasedIsGone /\ TimerRuns
  BY DEF ClientInv
<1>L. list \in Seq(Timers) /\ Len(list) \in Nat
  BY DEF ClientInv, TimerInv, TimerTypeOK
<1>C. clock.at \in Nat \ {0} /\ (clock.pc = "call" => clock.at \in 1..Len(list))
  <2>1. clock.at \in Nat \ {0} /\ (clock.pc = "call" => clock.at <= Len(list))
    BY DEF ClientInv, TimerInv, TimerTypeOK
  <2>2. QED
    BY <1>L, <2>1
<1>H. clock.pc = "call" => Here \in Listed
  BY <1>C DEF Here, Listed
<1>S. ASSUME UNCHANGED <<stopSign, list, deleted, timerOf, userdata>>, live' \subseteq live
      PROVE  HeartbeatKept'
  BY <1>K, <1>S DEF HeartbeatKept, Listed
<1>R. ASSUME UNCHANGED <<stopSign, list, timerOf, beat>>, live' \subseteq live,
             clock' = clock
      PROVE  ReleasedIsGone'
  BY <1>K, <1>R DEF ReleasedIsGone, Here
<1>N. ASSUME clock'.pc # "call" \/ beat' # "logout" PROVE ReleasedIsGone'
  BY <1>N DEF ReleasedIsGone
<1>U. ASSUME Undefined PROVE HeartbeatKept' /\ ReleasedIsGone'
  <2>1. HeartbeatKept'
    BY <1>S, <1>U DEF Undefined
  <2>2. clock'.pc = "none"
    BY <1>U DEF Undefined, NoClock
  <2>3. QED
    BY <1>N, <2>1, <2>2
<1>1. CASE TheClock
  <2>1. UNCHANGED <<stopSign, deleted, live, timerOf, userdata, beat>>
    BY <1>1 DEF TheClock, Clock, Tick, SyncVisit, SyncEnd, Fire, Skip, WalkEnd, clientVars
  <2>2. CASE SyncVisit
    <3>1. clock.pc = "sync" /\ clock.at \in 1..Len(list) /\ clock'.pc = "sync"
      <4>1. clock.pc = "sync" /\ (clock' = clock \/ clock' = [clock EXCEPT !.at = @ + 1])
        BY <2>2 DEF SyncVisit
      <4>2. clock.at \in 1..Len(list)
        BY <1>L, <1>C, <2>2 DEF SyncVisit, AtEnd
      <4>3. clock \in [pc : {"none", "wait", "sync", "walk", "call", "ended"},
                       at : Nat \ {0}, elapsed : 0..MaxElapsed]
        BY DEF ClientInv, TimerInv, TimerTypeOK
      <4>4. QED
        BY <4>1, <4>2, <4>3
    <3>2. CASE stopSign
      BY <1>N, <2>1, <3>1, <3>2 DEF HeartbeatKept
    <3>3. CASE ~stopSign /\ ~deleted[Here]
      BY <1>S, <1>N, <2>1, <2>2, <3>1, <3>3 DEF SyncVisit
    <3>4. CASE ~stopSign /\ deleted[Here]
      <4>1. list' = Without(clock.at)
        BY <2>2, <3>4 DEF SyncVisit
      <4>2. ASSUME NEW s \in live PROVE timerOf[s] \in Listed' /\ ~deleted[timerOf[s]] /\ userdata[timerOf[s]] = s
        <5>1. timerOf[s] \in Listed /\ ~deleted[timerOf[s]] /\ userdata[timerOf[s]] = s
          BY <1>K, <3>4 DEF HeartbeatKept
        <5>2. timerOf[s] # list[clock.at]
          BY <3>4, <5>1 DEF Here
        <5>3. \E j \in 1..Len(Without(clock.at)) : Without(clock.at)[j] = timerOf[s]
          BY <1>L, <3>1, <5>1, <5>2, WithoutKeeps
        <5>4. QED
          BY <4>1, <5>1, <5>3 DEF Listed
      <4>3. QED
        BY <1>N, <2>1, <3>1, <4>2 DEF HeartbeatKept
    <3>5. QED
      BY <3>2, <3>3, <3>4
  <2>3. CASE ~SyncVisit
    <3>1. list' = list /\ (clock'.pc = "call" => Fire)
      <4>1. clock \in [pc : {"none", "wait", "sync", "walk", "call", "ended"},
                       at : Nat \ {0}, elapsed : 0..MaxElapsed]
        BY DEF ClientInv, TimerInv, TimerTypeOK
      <4>2. QED
        BY <1>1, <2>3, <4>1 DEF TheClock, Clock, Tick, SyncEnd, Fire, Skip, WalkEnd, NoClock
    <3>2. HeartbeatKept'
      BY <1>S, <2>1, <3>1
    <3>3. beat = "heartbeat" \/ ~Fire
      BY DEF ClientInv, BeatInCall, Fire
    <3>4. QED
      BY <1>N, <2>1, <3>1, <3>2, <3>3
  <2>4. QED
    BY <2>2, <2>3
<1>2. CASE BeatOk
  <2>1. clock'.pc # "call"
    BY <1>2 DEF BeatOk, Returned
  <2>2. QED
    BY <1>N, <1>S, <1>2, <2>1 DEF BeatOk, Returned, clientVars
<1>3. CASE BeatBad
  BY <1>N, <1>S, <1>3 DEF BeatBad, timerVars
<1>4. CASE BeatRelease
  <2>1. ASSUME Release(userdata[Here]), UNCHANGED <<timerOf, userdata>>
        PROVE  HeartbeatKept' /\ ReleasedIsGone'
    <3>1. UNCHANGED <<clock, stopSign, list>> /\ clock.pc = "call"
      BY <1>4, <2>1 DEF Release, timer_del, BeatRelease
    <3>2. HeartbeatKept' /\ (~stopSign => \A r \in live' : timerOf[r] # Here)
      BY <2>1, <3>1, ReleaseKeeps
    <3>3. QED
      BY <2>1, <3>1, <3>2 DEF ReleasedIsGone, Here
  <2>2. QED
    BY <1>4, <1>U, <2>1 DEF BeatRelease
<1>5. CASE BeatLogout
  <2>1. /\ deleted' = [deleted EXCEPT ![Here] = TRUE] /\ clock.pc = "call" /\ beat = "logout"
        /\ UNCHANGED <<stopSign, list, live, timerOf, userdata>> /\ beat' = "heartbeat"
    BY <1>5 DEF BeatLogout, Returned
  <2>2. ASSUME ~stopSign, NEW s \in live
        PROVE  timerOf[s] \in Listed /\ ~deleted'[timerOf[s]] /\ userdata[timerOf[s]] = s
    <3>1. timerOf[s] \in Listed /\ ~deleted[timerOf[s]] /\ userdata[timerOf[s]] = s
      BY <1>K, <2>2 DEF HeartbeatKept
    <3>2. timerOf[s] # Here
      BY <1>K, <2>1, <2>2 DEF ReleasedIsGone
    <3>3. deleted \in [Timers -> BOOLEAN] /\ timerOf[s] \in Timers
      BY DEF ClientInv, ClientTypeOK, TimerTypeOK
    <3>4. QED
      BY <2>1, <3>1, <3>2, <3>3
  <2>3. QED
    BY <1>N, <2>1, <2>2 DEF HeartbeatKept, Listed
<1>6. CASE Disconnected
  <2>1. live' = {}
    BY <1>6 DEF Disconnected
  <2>2. QED
    BY <2>1 DEF HeartbeatKept, ReleasedIsGone
<1>7. CASE LogoutEnd \/ LoginFail \/ LoginBegin \/ Expire \/ Lose
  BY <1>S, <1>R, <1>7 DEF LogoutEnd, LoginFail, LoginBegin, Expire, Lose, timerVars
<1>8. CASE Connect
  <2>1. CASE inited
    BY <1>S, <1>R, <1>8, <2>1 DEF Connect, timer_init, timerVars
  <2>2. CASE ~inited
    <3>1. live' = {}
      BY <1>K, <1>8, <2>2 DEF Connect, TimerRuns
    <3>2. QED
      BY <3>1 DEF HeartbeatKept, ReleasedIsGone
  <2>3. QED
    BY <2>1, <2>2
<1>9. CASE Disconnect
  <2>1. stopSign'
    BY <1>9 DEF Disconnect, DestroySign
  <2>2. QED
    BY <2>1 DEF HeartbeatKept, ReleasedIsGone
<1>10. CASE LogoutBegin
  <2>1. ASSUME Release(held), UNCHANGED <<timerOf, userdata, beat>>
        PROVE  HeartbeatKept' /\ ReleasedIsGone'
    <3>1. UNCHANGED <<clock, stopSign, list>> /\ live' \subseteq live
      BY <2>1 DEF Release, timer_del
    <3>2. QED
      BY <1>R, <2>1, <3>1, ReleaseKeeps
  <2>2. QED
    BY <1>10, <1>U, <2>1 DEF LogoutBegin
<1>11. ASSUME NEW op \in Ops, CallBegin(op) PROVE HeartbeatKept' /\ ReleasedIsGone'
  BY <1>S, <1>R, <1>U, <1>11 DEF CallBegin, timerVars
<1>12. ASSUME NEW op \in Ops, CallEnd(op) PROVE HeartbeatKept' /\ ReleasedIsGone'
  BY <1>S, <1>R, <1>U, <1>12 DEF CallEnd, timerVars
<1>13. ASSUME NEW s \in Sessions, NEW t \in Timers, LoginOk(s, t) PROVE HeartbeatKept' /\ ReleasedIsGone'
  <2>1. /\ t \notin Listed /\ list' = Append(list, t) /\ UNCHANGED <<stopSign, clock, beat>>
        /\ timerOf' = [timerOf EXCEPT ![s] = t] /\ userdata' = [userdata EXCEPT ![t] = s]
        /\ live' = live \cup {s}
    BY <1>13 DEF LoginOk, timer_create
  <2>2. deleted' = [deleted EXCEPT ![t] = FALSE]
    BY <1>13 DEF LoginOk, timer_create
  <2>3. /\ timerOf \in [Sessions -> Timers] /\ userdata \in [Timers -> Sessions \cup {None}]
        /\ live \subseteq Sessions
    BY DEF ClientInv, ClientTypeOK
  <2>4. deleted \in [Timers -> BOOLEAN]
    BY DEF ClientInv, ClientTypeOK, TimerTypeOK
  <2>5. t \in Listed' /\ Listed \subseteq Listed'
    <3>1. Len(list') = Len(list) + 1 /\ list'[Len(list) + 1] = t /\ \A i \in 1..Len(list) : list'[i] = list[i]
      BY <1>L, <2>1
    <3>2. Len(list) + 1 \in 1..Len(list') /\ 1..Len(list) \subseteq 1..Len(list')
      BY <1>L, <3>1
    <3>3. QED
      BY <3>1, <3>2 DEF Listed
  <2>6. ASSUME NEW r \in live', ~stopSign
        PROVE  timerOf'[r] \in Listed' /\ ~deleted'[timerOf'[r]] /\ userdata'[timerOf'[r]] = r
    <3>1. CASE r = s
      BY <2>1, <2>2, <2>3, <2>4, <2>5, <3>1
    <3>2. CASE r # s
      <4>1. r \in live /\ timerOf'[r] = timerOf[r] /\ timerOf[r] \in Timers
        BY <2>1, <2>3, <3>2
      <4>2. timerOf[r] \in Listed /\ ~deleted[timerOf[r]] /\ userdata[timerOf[r]] = r
        BY <1>K, <2>6, <4>1 DEF HeartbeatKept
      <4>3. timerOf[r] # t
        BY <2>1, <4>2
      <4>4. deleted'[timerOf[r]] = deleted[timerOf[r]]
        BY <2>2, <2>4, <4>1, <4>3
      <4>5. QED
        BY <2>1, <2>3, <2>5, <4>1, <4>2, <4>3, <4>4
    <3>3. QED
      BY <3>1, <3>2
  <2>7. ReleasedIsGone'
    <3> SUFFICES ASSUME clock.pc = "call", beat = "logout", ~stopSign, NEW r \in live'
                 PROVE  timerOf'[r] # Here'
      BY <2>1 DEF ReleasedIsGone
    <3>1. Here' = Here /\ Here \in Listed
      <4>1. clock.at \in 1..Len(list)
        BY <1>C
      <4>2. list'[clock.at] = list[clock.at]
        BY <1>L, <2>1, <4>1
      <4>3. QED
        BY <1>H, <2>1, <4>2 DEF Here
    <3>2. CASE r = s
      BY <2>1, <2>3, <3>1, <3>2
    <3>3. CASE r # s
      BY <1>K, <2>1, <2>3, <3>1, <3>3 DEF ReleasedIsGone
    <3>4. QED
      BY <3>2, <3>3
  <2>8. QED
    BY <2>1, <2>6, <2>7 DEF HeartbeatKept
<1>14. CASE UNCHANGED apiVars
  BY <1>S, <1>R, <1>14 DEF apiVars, clientVars, timerVars
<1>15. QED
  BY <1>1, <1>2, <1>3, <1>4, <1>5, <1>6, <1>7, <1>8, <1>9, <1>10, <1>11, <1>12, <1>13, <1>14
  DEF ClientNext, CallReturns, Callback

(***************************************************************************)
(* After timer_del a timer's callback begins at most once more, for every  *)
(* set of timers and whatever the client's threads do between the steps of *)
(* the clock.                                                              *)
(***************************************************************************)
THEOREM LateCallbackIsOne == ClientSpec => []OneLateCallback
<1>1. ClientInv => OneLateCallback
  BY DEF ClientInv, TimerInv
<1>2. ClientInv /\ [ClientNext]_apiVars => ClientInv'
  BY ClientStepTypes, ClientStepRuns, ClientStepBeat, ClientStepKept DEF ClientInv
<1>3. QED
  BY <1>1, <1>2, ClientInitInv, PTL DEF ClientSpec

(***************************************************************************)
(* A session that was not freed keeps its own heartbeat timer, listed and  *)
(* not marked, until mc_disconnect: for every set of addresses, although   *)
(* a callback of an earlier session at the same address can still come.    *)
(***************************************************************************)
THEOREM HeartbeatIsKept == ClientSpec => []HeartbeatKept
<1>1. ClientInv => HeartbeatKept
  BY DEF ClientInv
<1>2. ClientInv /\ [ClientNext]_apiVars => ClientInv'
  BY ClientStepTypes, ClientStepRuns, ClientStepBeat, ClientStepKept DEF ClientInv
<1>3. QED
  BY <1>1, <1>2, ClientInitInv, PTL DEF ClientSpec

-----------------------------------------------------------------------------
(* The two tables of numbers (ClientApi) *)

(* Two answers are the same only with the same rid, and none is NoAnswer. *)
LEMMA AnswersDiffer == \A m, n \in Int : (<<m>> = <<n>> => m = n) /\ <<m>> # NoAnswer
<1>1. ASSUME NEW m \in Int, NEW n \in Int, <<m>> = <<n>> PROVE m = n
  <2>1. <<m>>[1] = m /\ <<n>>[1] = n
    OBVIOUS
  <2>2. QED
    BY <1>1, <2>1
<1>2. ASSUME NEW m \in Int PROVE <<m>> # NoAnswer
  <2>1. Len(<<m>>) = 1 /\ Len(NoAnswer) = 0
    BY DEF NoAnswer
  <2>2. QED
    BY <2>1
<1>3. QED
  BY <1>1, <1>2

(* The calls whose status says what came of the request *)
Telling == Ops \ {"play", "stop", "touch"}

(* An answer of a handler has the status that its outcome means. *)
LEMMA TablesAgree ==
  ASSUME NEW op \in Telling, NEW o \in DOMAIN Handler[op]
  PROVE  Status(op, <<Handler[op][o]>>) = Meaning[o]
<1> USE AnswersDiffer
<1>1. CASE op = "create"
  <2>1. Handler[op] = req_account_create /\ \A a : Status(op, a) = mc_account_create(a)
    BY <1>1 DEF Handler, Status
  <2>2. \A x \in DOMAIN req_account_create : mc_account_create(<<req_account_create[x]>>) = Meaning[x]
    BY DEF req_account_create, mc_account_create, Meaning
  <2>3. QED
    BY <2>1, <2>2
<1>2. CASE op = "modify"
  <2>1. Handler[op] = req_account_modify /\ \A a : Status(op, a) = mc_account_modify(a)
    BY <1>2 DEF Handler, Status
  <2>2. \A x \in DOMAIN req_account_modify : mc_account_modify(<<req_account_modify[x]>>) = Meaning[x]
    BY DEF req_account_modify, mc_account_modify, Meaning
  <2>3. QED
    BY <2>1, <2>2
<1>3. CASE op = "delete"
  <2>1. Handler[op] = req_account_delete /\ \A a : Status(op, a) = mc_account_delete(a)
    BY <1>3 DEF Handler, Status
  <2>2. \A x \in DOMAIN req_account_delete : mc_account_delete(<<req_account_delete[x]>>) = Meaning[x]
    BY DEF req_account_delete, mc_account_delete, Meaning
  <2>3. QED
    BY <2>1, <2>2
<1>4. CASE op = "list"
  <2>1. Handler[op] = req_account_list /\ \A a : Status(op, a) = mc_account_list(a)
    BY <1>4 DEF Handler, Status
  <2>2. \A x \in DOMAIN req_account_list : mc_account_list(<<req_account_list[x]>>) = Meaning[x]
    BY DEF req_account_list, mc_account_list, Meaning
  <2>3. QED
    BY <2>1, <2>2
<1>5. CASE op = "dev_add"
  <2>1. Handler[op] = req_device_create /\ \A a : Status(op, a) = mc_device_add(a)
    BY <1>5 DEF Handler, Status
  <2>2. \A x \in DOMAIN req_device_create : mc_device_add(<<req_device_create[x]>>) = Meaning[x]
    BY DEF req_device_create, mc_device_add, Meaning
  <2>3. QED
    BY <2>1, <2>2
<1>6. CASE op = "dev_del"
  <2>1. Handler[op] = req_device_delete /\ \A a : Status(op, a) = mc_device_del(a)
    BY <1>6 DEF Handler, Status
  <2>2. \A x \in DOMAIN req_device_delete : mc_device_del(<<req_device_delete[x]>>) = Meaning[x]
    BY DEF req_device_delete, mc_device_del, Meaning
  <2>3. QED
    BY <2>1, <2>2
<1>7. CASE op = "dev_list"
  <2>1. Handler[op] = req_device_list /\ \A a : Status(op, a) = mc_account_list(a)
    BY <1>7 DEF Handler, Status, mc_device_list
  <2>2. \A x \in DOMAIN req_device_list : mc_account_list(<<req_device_list[x]>>) = Meaning[x]
    BY DEF req_device_list, mc_account_list, Meaning
  <2>3. QED
    BY <2>1, <2>2
<1>8. CASE op = "version"
  <2>1. Handler[op] = req_version_check /\ \A a : Status(op, a) = mc_check_version(a)
    BY <1>8 DEF Handler, Status
  <2>2. \A x \in DOMAIN req_version_check : mc_check_version(<<req_version_check[x]>>) = Meaning[x]
    BY DEF req_version_check, mc_check_version, Meaning
  <2>3. QED
    BY <2>1, <2>2
<1>9. QED
  BY <1>1, <1>2, <1>3, <1>4, <1>5, <1>6, <1>7, <1>8 DEF Telling, Ops

(* Without an answer every call says so. *)
LEMMA SilenceIsTold == \A op \in Ops : Status(op, NoAnswer) = NotResponse
<1>1. mc_account_create(NoAnswer) = NotResponse /\ mc_account_modify(NoAnswer) = NotResponse
  BY AnswersDiffer DEF mc_account_create, mc_account_modify
<1>2. mc_account_delete(NoAnswer) = NotResponse /\ mc_account_list(NoAnswer) = NotResponse
  BY AnswersDiffer DEF mc_account_delete, mc_account_list
<1>3. mc_device_add(NoAnswer) = NotResponse /\ mc_device_del(NoAnswer) = NotResponse
  BY AnswersDiffer DEF mc_device_add, mc_device_del
<1>4. mc_play_device(NoAnswer) = NotResponse /\ mc_check_version(NoAnswer) = NotResponse
  BY AnswersDiffer DEF mc_play_device, mc_check_version
<1>5. QED
  BY <1>1, <1>2, <1>3, <1>4 DEF Ops, Status, mc_device_list, mc_play_stop, mc_play_touch

(* The same of a login that is refused, and of a logout *)
LEMMA LoginMeans ==
  ASSUME NEW o \in DOMAIN req_account_login \ {"done"}, NEW a \in Answers(o, req_account_login)
  PROVE  mc_account_login(a) \in {NotResponse, IF o = "bad_password" THEN "mc_invalid_uuid_or_pwd"
                                                                     ELSE Meaning[o]}
<1>1. a = NoAnswer \/ a = <<req_account_login[o]>>
  BY DEF Answers
<1>2. \/ o = "bad_password" /\ req_account_login[o] = -1
      \/ o = "syntax" /\ req_account_login[o] = -255
  BY DEF req_account_login
<1>3. CASE a = NoAnswer
  BY <1>3, AnswersDiffer DEF mc_account_login
<1>4. CASE o = "bad_password" /\ a = <<-1>>
  BY <1>4, AnswersDiffer DEF mc_account_login
<1>5. CASE o = "syntax" /\ a = <<-255>>
  BY <1>5, AnswersDiffer DEF mc_account_login, Meaning
<1>6. QED
  BY <1>1, <1>2, <1>3, <1>4, <1>5

(* What the status of a logout means *)
LEMMA LogoutMeans == mc_account_logout(SessionRid) = Meaning[IF server THEN "done" ELSE "expired"]
<1>1. CASE server
  BY <1>1, AnswersDiffer DEF SessionRid, mc_account_logout, mc_heartbeat, Meaning
<1>2. CASE ~server
  BY <1>2, AnswersDiffer DEF SessionRid, mc_account_logout, mc_heartbeat, Meaning
<1>3. QED
  BY <1>1, <1>2

(* No step of a client makes a status say something else than its answer. *)
LEMMA StepTellsRight == StatusMeans /\ [ClientNext]_apiVars => StatusMeans'
<1> SUFFICES ASSUME ~misled, [ClientNext]_apiVars PROVE ~misled'
  BY DEF StatusMeans
<1>1. ASSUME NEW status, NEW right, Tell(status, right), status \in {NotResponse, right}
      PROVE  ~misled'
  BY <1>1 DEF Tell
<1>2. CASE LoginFail
  BY <1>1, <1>2, LoginMeans DEF LoginFail
<1>3. CASE LogoutEnd
  BY <1>1, <1>3, LogoutMeans DEF LogoutEnd
<1>4. ASSUME NEW op \in Ops, CallEnd(op) PROVE ~misled'
  <2> DEFINE Right(o, a) == \/ Undefined \/ UNCHANGED misled
                            \/ op \in Telling /\ Tell(Status(op, a), Meaning[o])
  <2>0. PICK o \in Outcomes(op) : \E a \in Answers(o, Handler[op]) : Right(o, a)
    BY <1>4 DEF CallEnd, Telling
  <2>1. PICK a \in Answers(o, Handler[op]) : Right(o, a)
    BY <2>0
  <2>2. CASE op \in Telling /\ Tell(Status(op, a), Meaning[o])
    <3>1. o \in DOMAIN Handler[op]
      <4>1. "expired" \in DOMAIN Handler[op] \/ op = "version"
        BY <2>2 DEF Telling, Ops, Handler, req_account_create, req_account_modify, req_account_delete,
              req_account_list, req_device_create, req_device_delete, req_device_list
      <4>2. op = "version" => "done" \in DOMAIN Handler[op]
        BY DEF Handler, req_version_check
      <4>3. QED
        BY <4>1, <4>2 DEF Outcomes
    <3>2. a = NoAnswer \/ a = <<Handler[op][o]>>
      BY DEF Answers
    <3>3. QED
      BY <1>1, <2>2, <3>1, <3>2, TablesAgree, SilenceIsTold
  <2>3. CASE Undefined
    BY <2>3 DEF Undefined
  <2>4. QED
    BY <2>1, <2>2, <2>3
<1>5. CASE TheClock
  BY <1>5 DEF TheClock, clientVars
<1>6. CASE Callback
  BY <1>6 DEF Callback, BeatOk, BeatBad, BeatRelease, BeatLogout, clientVars, Undefined
<1>7. CASE Disconnected \/ Connect \/ Disconnect \/ LoginBegin \/ Expire \/ Lose
  BY <1>7 DEF Disconnected, Connect, Disconnect, LoginBegin, Expire, Lose
<1>8. CASE LogoutBegin
  BY <1>8 DEF LogoutBegin, Undefined
<1>9. ASSUME NEW op \in Ops, CallBegin(op) PROVE ~misled'
  BY <1>9 DEF CallBegin, Undefined
<1>10. ASSUME NEW s \in Sessions, NEW t \in Timers, LoginOk(s, t) PROVE ~misled'
  BY <1>10 DEF LoginOk
<1>11. CASE UNCHANGED apiVars
  BY <1>11 DEF apiVars, clientVars
<1>12. QED
  BY <1>2, <1>3, <1>4, <1>5, <1>6, <1>7, <1>8, <1>9, <1>10, <1>11 DEF ClientNext, CallReturns

(***************************************************************************)
(* The status of a call says what the server made of the request or that   *)
(* there was no answer, for every history of the connection and session.   *)
(***************************************************************************)
THEOREM StatusIsRight == ClientSpec => []StatusMeans
<1>1. ClientInit => StatusMeans
  BY DEF ClientInit, StatusMeans
<1>2. QED
  BY <1>1, StepTellsRight, PTL DEF ClientSpec

-----------------------------------------------------------------------------
(* The connection of a client (ClientConn) *)

(***************************************************************************)
(* The invariant ConnSafe needs.  Until rpc_io_destroy ran, a receiver     *)
(* that is still in its loop has its connection in io_list; from           *)
(* socket_close on nothing more is received, so that a receiver that has   *)
(* bytes had them when the socket was closed; and when rpc_client_stop is  *)
(* past its join the receiver is over.                                     *)
(***************************************************************************)
ConnInv ==
  /\ ConnTypeOK
  /\ ConnSafe
  /\ phase \in {"on", "close", "destroy"} /\ receiver # "end" => child
  /\ phase \in {"destroy", "join"} => socket = "closed" /\ (receiver = "have" => cut)
  /\ phase \in {"out", "dispatch"} => receiver \in {"none", "end"}

(* rpc_client_init and every step of the client, its receiver and a caller keep ConnInv. *)
LEMMA ConnInitInv == ConnInit => ConnInv
<1> SUFFICES ASSUME ConnInit PROVE ConnInv
  OBVIOUS
<1>1. starts \in 0..MaxStarts
  BY StartsAssumption DEF ConnInit
<1>2. QED
  BY <1>1 DEF ConnInit, ConnInv, ConnTypeOK, ConnSafe

(* Every step of the application and of the thread of the connection *)
LEMMA ConnStepInv == ConnInv /\ [ConnNext]_connVars => ConnInv'
<1> SUFFICES ASSUME ConnInv, [ConnNext]_connVars PROVE ConnInv'
  OBVIOUS
<1>1. CASE rpc_client_start
  <2>1. starts' \in 0..MaxStarts
    BY <1>1, StartsAssumption DEF ConnInv, ConnTypeOK, rpc_client_start
  <2>2. QED
    BY <1>1, <2>1 DEF ConnInv, ConnTypeOK, ConnSafe, rpc_client_start
<1>2. CASE ConnectFails
  <2>1. starts' \in 0..MaxStarts
    BY <1>2, StartsAssumption DEF ConnInv, ConnTypeOK, ConnectFails
  <2>2. QED
    BY <1>2, <2>1 DEF ConnInv, ConnTypeOK, ConnSafe, ConnectFails
<1>3. CASE StopSign
  BY <1>3 DEF ConnInv, ConnTypeOK, ConnSafe, StopSign
<1>4. CASE StopClose
  BY <1>4 DEF ConnInv, ConnTypeOK, ConnSafe, StopClose
<1>5. CASE StopDestroy
  BY <1>5 DEF ConnInv, ConnTypeOK, ConnSafe, StopDestroy
<1>6. CASE StopJoin
  BY <1>6 DEF ConnInv, ConnTypeOK, ConnSafe, StopJoin
<1>7. CASE StopDispatch
  BY <1>7 DEF ConnInv, ConnTypeOK, ConnSafe, StopDispatch
<1>8. CASE ConnReceive
  BY <1>8 DEF ConnInv, ConnTypeOK, ConnSafe, ConnReceive
<1>9. CASE Enqueue
  BY <1>9 DEF ConnInv, ConnTypeOK, ConnSafe, Enqueue
<1>10. CASE LoopHead
  BY <1>10 DEF ConnInv, ConnTypeOK, ConnSafe, LoopHead
<1>11. CASE RecvFails \/ ServerShuts
  BY <1>11 DEF ConnInv, ConnTypeOK, ConnSafe, RecvFails, ServerShuts
<1>12. CASE CallAdd
  BY <1>12 DEF ConnInv, ConnTypeOK, ConnSafe, CallAdd
<1>13. CASE CallNotify
  BY <1>13 DEF ConnInv, ConnTypeOK, ConnSafe, CallNotify
<1>14. CASE CallWaits
  BY <1>14 DEF ConnInv, ConnTypeOK, ConnSafe, CallWaits
<1>15. CASE CallDestroy
  <2>1. caller = "over" /\ caller' = "idle" /\ entry' = FALSE
        /\ starts' = starts /\ phase' = phase /\ sign' = sign /\ socket' = socket /\ io' = io
        /\ child' = child /\ receiver' = receiver /\ cut' = cut
    BY <1>15 DEF CallDestroy
  <2>2. ConnTypeOK'
    BY <2>1 DEF ConnInv, ConnTypeOK
  <2>3. ConnSafe'
    BY <2>1 DEF ConnInv, ConnSafe
  <2>4. QED
    BY <2>1, <2>2, <2>3 DEF ConnInv
<1>16. CASE UNCHANGED connVars
  BY <1>16 DEF ConnInv, ConnTypeOK, ConnSafe, connVars
<1>17. QED
  BY <1>1, <1>2, <1>3, <1>4, <1>5, <1>6, <1>7, <1>8, <1>9, <1>10, <1>11, <1>12, <1>13, <1>14, <1>15, <1>16
  DEF ConnNext, StopStep, ConnReceiver, CallStep

(***************************************************************************)
(* For every number of starts: the receiver crashes on a connection that   *)
(* is gone only with bytes it had when rpc_client_stop closed the socket,  *)
(* and a call on a running client has its callback in the dispatch list.   *)
(***************************************************************************)
THEOREM ConnIsSafe == ConnSpec => []ConnSafe
<1>1. ConnInv => ConnSafe
  BY DEF ConnInv
<1>2. QED
  BY <1>1, ConnInitInv, ConnStepInv, PTL DEF ConnSpec

-----------------------------------------------------------------------------
(* Bodies and their lookups (RpcBody) *)

(* The messages of the program *)
LEMMA MessageNames ==
  DOMAIN Messages = {"login_in", "login_out", "create_in", "modify_in", "delete_in", "device_in",
                     "version_in", "version_out", "touch_out", "accounts_out", "devices_out"}
BY DEF Messages

(* The keys of the messages *)
Name ==
  {"uuid", "pwd", "pid", "rid", "is_admin", "ref_admin_uuid", "nickname",
   "comment", "old_pwd", "new_pwd", "check_pwd", "del_uuid", "plugin_name",
   "ip", "port", "user", "channel", "seg_folder", "seg_in_count",
   "seg_per_sec", "is_top_level", "ref_parent_uuid", "ver", "new_ver",
   "update_log", "force_update", "path", "elapsed", "count", "created_time",
   "is_online"}

(* The keys of an entry, repeated, are keys of an entry. *)
LEMMA RepeatFacts ==
  ASSUME NEW keys \in Seq(Name), Len(keys) > 0, NEW n \in Nat
  PROVE  /\ Repeat(keys, n) \in Seq(Name)
         /\ \A i \in 1..Len(Repeat(keys, n)) : \E j \in 1..Len(keys) : Repeat(keys, n)[i] = keys[j]
<1>1. PICK l \in Nat \ {0} : l = Len(keys)
  OBVIOUS
<1>2. PICK m \in Nat : m = n * l
  OBVIOUS
<1>3. \A i \in 1..m : ((i - 1) % l) + 1 \in 1..l
  OBVIOUS
<1>4. Repeat(keys, n) = [i \in 1..m |-> keys[((i - 1) % l) + 1]]
  BY <1>1, <1>2 DEF Repeat
<1>5. Repeat(keys, n) \in [1..m -> Name]
  BY <1>1, <1>3, <1>4
<1>6. Repeat(keys, n) \in Seq(Name) /\ Len(Repeat(keys, n)) = m
  BY <1>5, LenProperties
<1>7. QED
  BY <1>1, <1>3, <1>4, <1>6

(* No two of the keys are the same. *)
Distinct(s) == \A i, j \in 1..Len(s) : s[i] = s[j] => i = j

(* Each key of a message that is no list is there once. *)
LEMMA PlainKeys ==
  ASSUME NEW m \in DOMAIN Messages, m \notin Lists
  PROVE  Messages[m] \in Seq(Name) /\ Distinct(Messages[m])
<1>1. CASE m = "login_in"
  <2>1. Messages[m] = login_in
    BY <1>1 DEF Messages
  <2>2. login_in \in Seq(Name)
    BY DEF login_in, Name
  <2>3. Distinct(login_in)
    BY DEF login_in, Distinct
  <2>4. QED
    BY <2>1, <2>2, <2>3
<1>2. CASE m = "login_out"
  <2>1. Messages[m] = login_out
    BY <1>2 DEF Messages
  <2>2. login_out \in Seq(Name)
    BY DEF login_out, Name
  <2>3. Distinct(login_out)
    BY DEF login_out, Distinct
  <2>4. QED
    BY <2>1, <2>2, <2>3
<1>3. CASE m = "create_in"
  <2>1. Messages[m] = create_in
    BY <1>3 DEF Messages
  <2>2. create_in \in Seq(Name)
    BY DEF create_in, Name
  <2>3. Distinct(create_in)
    BY DEF create_in, Distinct
  <2>4. QED
    BY <2>1, <2>2, <2>3
<1>4. CASE m = "modify_in"
  <2>1. Messages[m] = modify_in
    BY <1>4 DEF Messages
  <2>2. modify_in \in Seq(Name)
    BY DEF modify_in, Name
  <2>3. Distinct(modify_in)
    BY DEF modify_in, Distinct
  <2>4. QED
    BY <2>1, <2>2, <2>3
<1>5. CASE m = "delete_in"
  <2>1. Messages[m] = delete_in
    BY <1>5 DEF Messages
  <2>2. delete_in \in Seq(Name)
    BY DEF delete_in, Name
  <2>3. Distinct(delete_in)
    BY DEF delete_in, Distinct
  <2>4. QED
    BY <2>1, <2>2, <2>3
<1>6. CASE m = "device_in"
  <2>1. Messages[m] = device_in
    BY <1>6 DEF Messages
  <2>2. device_in \in Seq(Name)
    BY DEF device_in, Name
  <2>3. Distinct(device_in)
    BY DEF device_in, Distinct
  <2>4. QED
    BY <2>1, <2>2, <2>3
<1>7. CASE m = "version_in"
  <2>1. Messages[m] = version_in
    BY <1>7 DEF Messages
  <2>2. version_in \in Seq(Name)
    BY DEF version_in, Name
  <2>3. Distinct(version_in)
    BY DEF version_in, Distinct
  <2>4. QED
    BY <2>1, <2>2, <2>3
<1>8. CASE m = "version_out"
  <2>1. Messages[m] = version_out
    BY <1>8 DEF Messages
  <2>2. version_out \in Seq(Name)
    BY DEF version_out, Name
  <2>3. Distinct(version_out)
    BY DEF version_out, Distinct
  <2>4. QED
    BY <2>1, <2>2, <2>3
<1>9. CASE m = "touch_out"
  <2>1. Messages[m] = touch_out
    BY <1>9 DEF Messages
  <2>2. touch_out \in Seq(Name)
    BY DEF touch_out, Name
  <2>3. Distinct(touch_out)
    BY DEF touch_out, Distinct
  <2>4. QED
    BY <2>1, <2>2, <2>3
<1>10. QED
  BY <1>1, <1>2, <1>3, <1>4, <1>5, <1>6, <1>7, <1>8, <1>9, MessageNames DEF Lists

(* "rid" and "count" are the first two keys of a list and no others. *)
LEMMA ListKeys ==
  ASSUME NEW keys \in Seq(Name), Len(keys) > 0, NEW n \in Nat,
         \A j \in 1..Len(keys) : keys[j] \notin {"rid", "count"},
         NEW s, s = <<"rid", "count">> \o Repeat(keys, n)
  PROVE  /\ s \in Seq(Name)
         /\ \A i \in 1..Len(s) : (s[i] = "rid" => i = 1) /\ (s[i] = "count" => i = 2)
<1> DEFINE t == <<"rid", "count">>
<1>1. PICK r : r = Repeat(keys, n)
  OBVIOUS
<1>2. r \in Seq(Name) /\ \A i \in 1..Len(r) : \E j \in 1..Len(keys) : r[i] = keys[j]
  BY <1>1, RepeatFacts
<1>3. t \in Seq(Name) /\ Len(t) = 2 /\ t[1] = "rid" /\ t[2] = "count"
  BY DEF Name
<1> HIDE DEF t
<1>4. t \in Seq(Name) /\ r \in Seq(Name)
  BY <1>2, <1>3
<1>5. /\ t \o r \in Seq(Name) /\ Len(t \o r) = Len(t) + Len(r)
      /\ \A i \in 1..Len(t) + Len(r) : (t \o r)[i] = IF i <= Len(t) THEN t[i] ELSE r[i - Len(t)]
  BY <1>4, ConcatProperties
<1>6. s = t \o r
  BY <1>1 DEF t
<1>7. PICK l \in Nat : l = Len(r)
  BY <1>2
<1>8. /\ s \in Seq(Name) /\ Len(s) = 2 + l
      /\ \A i \in 1..2 + l : s[i] = IF i <= 2 THEN t[i] ELSE r[i - 2]
  BY <1>3, <1>5, <1>6, <1>7
<1>9. ASSUME NEW i \in 1..2 + l PROVE (s[i] = "rid" => i = 1) /\ (s[i] = "count" => i = 2)
  <2>1. CASE i <= 2
    <3>1. i = 1 \/ i = 2
      BY <2>1
    <3>2. s[i] = t[i]
      BY <1>8, <2>1
    <3>3. QED
      BY <1>3, <3>1, <3>2
  <2>2. CASE ~(i <= 2)
    <3>1. s[i] = r[i - 2]
      BY <1>8, <2>2
    <3>2. i - 2 \in 1..l
      BY <2>2
    <3>3. PICK j \in 1..Len(keys) : r[i - 2] = keys[j]
      BY <1>2, <1>7, <3>2
    <3>4. QED
      BY <3>1, <3>3
  <2>3. QED
    BY <2>1, <2>2
<1>10. QED
  BY <1>8, <1>9

(* The same of the two lists of the program *)
LEMMA ListMessages ==
  ASSUME NEW m \in Lists
  PROVE  /\ Messages[m] \in Seq(Name)
         /\ \A i \in 1..Len(Messages[m]) :
              (Messages[m][i] = "rid" => i = 1) /\ (Messages[m][i] = "count" => i = 2)
<1>1. CASE m = "accounts_out"
  <2>1. PICK keys : keys = <<"uuid", "nickname", "comment", "created_time", "is_online", "ip", "port">>
    OBVIOUS
  <2>2. /\ keys \in Seq(Name) /\ Len(keys) > 0
        /\ \A j \in 1..Len(keys) : keys[j] \notin {"rid", "count"}
    BY <2>1 DEF Name
  <2>3. Messages[m] = <<"rid", "count">> \o Repeat(keys, Entries)
    BY <1>1, <2>1 DEF Messages, accounts_out
  <2>4. QED
    BY <2>2, <2>3, EntriesAssumption, ListKeys
<1>2. CASE m = "devices_out"
  <2>1. PICK keys : keys = <<"uuid", "plugin_name", "ip", "port", "user", "pwd", "channel",
                             "seg_folder", "seg_in_count", "seg_per_sec", "created_time",
                             "nickname", "comment", "is_top_level", "ref_parent_uuid">>
    OBVIOUS
  <2>2. /\ keys \in Seq(Name) /\ Len(keys) > 0
        /\ \A j \in 1..Len(keys) : keys[j] \notin {"rid", "count"}
    BY <2>1 DEF Name
  <2>3. Messages[m] = <<"rid", "count">> \o Repeat(keys, Entries)
    BY <1>2, <2>1 DEF Messages, devices_out
  <2>4. QED
    BY <2>2, <2>3, EntriesAssumption, ListKeys
<1>3. QED
  BY <1>1, <1>2 DEF Lists

(* A key that is looked up begins at most one key of its message, although *)
(* only its own bytes are compared.                                        *)
LEMMA OneKey ==
  ASSUME NEW m \in DOMAIN Messages, NEW k \in lookups(m),
         NEW i \in 1..Len(Messages[m]), NEW j \in 1..Len(Messages[m]),
         Begins(<<Messages[m][i]>>, k), Begins(<<Messages[m][j]>>, k)
  PROVE  i = j
<1>1. CASE m \in Lists
  <2>1. k \in {"rid", "count"}
    BY <1>1 DEF lookups, Lists
  <2>2. Messages[m][i] = k /\ Messages[m][j] = k
    BY <2>1 DEF Begins
  <2>3. QED
    BY <1>1, <2>1, <2>2, ListMessages
<1>2. CASE m = "touch_out"
  <2>1. k \in {"rid", "path", "elapse"}
    BY <1>2 DEF lookups, Lists
  <2>2. Messages[m] = <<"rid", "path", "elapsed">>
    BY <1>2 DEF Messages, touch_out
  <2>3. Distinct(Messages[m])
    BY <1>2, PlainKeys DEF Lists
  <2>4. i \in 1..3 /\ j \in 1..3
    BY <2>2
  <2>5. Messages[m][i] = Messages[m][j]
    BY <2>1, <2>2, <2>4 DEF Begins
  <2>6. QED
    BY <2>3, <2>5 DEF Distinct
<1>3. CASE m \notin Lists /\ m # "touch_out"
  <2>1. PICK l \in 1..Len(Messages[m]) : k = Messages[m][l]
    BY <1>3 DEF lookups
  <2>2. Messages[m] \in Seq(Name) /\ Distinct(Messages[m])
    BY <1>3, PlainKeys
  <2>3. k \in Name
    BY <2>1, <2>2
  <2>4. k # "elapse"
    BY <2>3 DEF Name
  <2>5. Messages[m][i] = k /\ Messages[m][j] = k
    BY <2>4 DEF Begins
  <2>6. QED
    BY <2>2, <2>5 DEF Distinct
<1>4. QED
  BY <1>1, <1>2, <1>3

(* The texts that the sender has appended, and the pairs that the receiver *)
(* has made of them                                                        *)
Text(i) == <<Messages[msg][i], Value(i)>>
Item == Name \X Int
Pair == [key : Item, value : Int]

BodyInv ==
  /\ msg \in DOMAIN Messages /\ hole \in Nat
  /\ stage \in {"append", "parse", "done", "freed"}
  /\ buffer \in Seq(Item) /\ Len(buffer) <= Len(Messages[msg])
  /\ \A i \in 1..Len(buffer) : buffer[i] = Text(i)
  /\ pairs \in Seq(Pair) /\ Len(pairs) <= Len(buffer)
  /\ stage = "append" => pairs = <<>>
  /\ stage # "append" => Len(buffer) = Len(Messages[msg])
  /\ stage \in {"parse", "done"} => position = Len(pairs)
  /\ stage = "done" => Len(pairs) = Len(buffer)
  /\ \A i \in 1..Len(pairs) :
       pairs[i].key = Text(i) /\ pairs[i].value = IF i = hole THEN NULL ELSE i

(* A message is a sequence of keys. *)
LEMMA MessageSeq == ASSUME NEW m \in DOMAIN Messages PROVE Messages[m] \in Seq(Name)
BY PlainKeys, ListMessages

(* Nothing is appended yet. *)
LEMMA BodyInitInv == BodyInit => BodyInv
<1> SUFFICES ASSUME BodyInit PROVE BodyInv
  OBVIOUS
<1>1. msg \in DOMAIN Messages /\ stage = "append" /\ buffer = <<>> /\ pairs = <<>>
  BY DEF BodyInit
<1>2. hole \in Nat
  <2>1. Len(Messages[msg]) \in Nat
    BY <1>1, MessageSeq
  <2>2. hole = 0 \/ hole \in 1..Len(Messages[msg])
    BY DEF BodyInit
  <2>3. QED
    BY <2>1, <2>2
<1>3. buffer \in Seq(Item) /\ pairs \in Seq(Pair) /\ Len(buffer) = 0 /\ Len(pairs) = 0
  BY <1>1
<1>4. 0 <= Len(Messages[msg])
  BY <1>1, MessageSeq
<1>5. QED
  BY <1>1, <1>2, <1>3, <1>4 DEF BodyInv

(* Every step of the sender and of the receiver keeps to the message. *)
LEMMA BodyStepInv == BodyInv /\ [BodyNext]_bodyVars => BodyInv'
<1> SUFFICES ASSUME BodyInv, [BodyNext]_bodyVars PROVE BodyInv'
  OBVIOUS
<1>1. PICK n \in Nat : n = Len(Messages[msg])
  BY MessageSeq DEF BodyInv
<1>2. /\ msg \in DOMAIN Messages /\ hole \in Nat
      /\ buffer \in Seq(Item) /\ Len(buffer) <= n
      /\ \A i \in 1..Len(buffer) : buffer[i] = Text(i)
  BY <1>1 DEF BodyInv
<1>3. /\ pairs \in Seq(Pair) /\ Len(pairs) <= Len(buffer)
      /\ \A i \in 1..Len(pairs) :
           pairs[i].key = Text(i) /\ pairs[i].value = IF i = hole THEN NULL ELSE i
  BY DEF BodyInv
<1>4. CASE rpc_keypair_append
  <2>1. /\ stage = "append" /\ Len(buffer) < n /\ buffer' = Append(buffer, Text(Len(buffer) + 1))
        /\ msg' = msg /\ hole' = hole /\ position' = position /\ pairs' = pairs /\ stage' = stage
    BY <1>1, <1>4 DEF rpc_keypair_append, Text
  <2>2. PICK l \in Nat : l = Len(buffer)
    BY <1>2
  <2>3. Text(l + 1) \in Item
    <3>1. l + 1 \in 1..Len(Messages[msg])
      BY <1>1, <2>1, <2>2
    <3>2. Messages[msg][l + 1] \in Name
      BY <1>2, <3>1, MessageSeq
    <3>3. Value(l + 1) \in Int
      BY DEF Value, Empty
    <3>4. QED
      BY <3>2, <3>3 DEF Text, Item
  <2>4. PICK x \in Item : x = Text(l + 1)
    BY <2>3
  <2>5. buffer' = Append(buffer, x)
    BY <2>1, <2>2, <2>4
  <2>6. /\ buffer' \in Seq(Item) /\ Len(buffer') = l + 1 /\ buffer'[l + 1] = x
        /\ \A i \in 1..l : buffer'[i] = buffer[i]
    BY <1>2, <2>2, <2>5
  <2>7. ASSUME NEW i \in 1..l + 1 PROVE buffer'[i] = Text(i)
    <3>1. CASE i = l + 1
      BY <2>4, <2>6, <3>1
    <3>2. CASE i # l + 1
      <4>1. i \in 1..l
        BY <3>2
      <4>2. QED
        BY <1>2, <2>2, <2>6, <4>1
    <3>3. QED
      BY <3>1, <3>2
  <2>8. \A i : Text(i)' = Text(i)
    BY <2>1 DEF Text, Value
  <2>9. pairs = <<>> /\ Len(pairs) = 0
    BY <2>1 DEF BodyInv
  <2>10. l + 1 <= n /\ 0 <= l + 1
    BY <2>1, <2>2
  <2>11. QED
    BY <1>1, <1>2, <2>1, <2>6, <2>7, <2>8, <2>9, <2>10 DEF BodyInv
<1>5. CASE Received
  BY <1>5 DEF Received, BodyInv, Text, Value
<1>6. CASE rpc_parser_add
  <2>1. /\ stage = "parse" /\ position < Len(buffer) /\ position' = position + 1
        /\ msg' = msg /\ hole' = hole /\ buffer' = buffer /\ stage' = stage
    BY <1>6 DEF rpc_parser_add, MoreItems
  <2>2. PICK l \in Nat : l = Len(pairs) /\ position = l
    BY <1>3, <2>1 DEF BodyInv
  <2>3. l + 1 \in 1..Len(buffer)
    BY <1>2, <2>1, <2>2
  <2>4. PICK x \in Item : x = buffer[l + 1] /\ x = Text(l + 1)
    BY <1>2, <2>3
  <2> DEFINE v == IF x[2] = Empty THEN NULL ELSE x[2]
  <2>5. pairs' = Append(pairs, [key |-> x, value |-> v])
    BY <1>6, <2>2, <2>4 DEF rpc_parser_add
  <2>6. x[2] = Value(l + 1)
    BY <2>4 DEF Text
  <2>7. v = IF l + 1 = hole THEN NULL ELSE l + 1
    BY <2>6 DEF Value, Empty
  <2>8. v \in Int
    BY <2>7 DEF NULL
  <2> HIDE DEF v
  <2>a. PICK w \in Int : w = v
    BY <2>8
  <2>b. PICK q : q = [key |-> x, value |-> w]
    OBVIOUS
  <2>9. q \in Pair /\ q = [key |-> x, value |-> v] /\ q.key = x /\ q.value = v
    BY <2>a, <2>b DEF Pair
  <2>10. /\ pairs' \in Seq(Pair) /\ Len(pairs') = l + 1 /\ pairs'[l + 1] = q
         /\ \A i \in 1..l : pairs'[i] = pairs[i]
    BY <1>3, <2>2, <2>5, <2>9
  <2>11. ASSUME NEW i \in 1..l + 1
         PROVE  pairs'[i].key = Text(i) /\ pairs'[i].value = IF i = hole THEN NULL ELSE i
    <3>1. CASE i = l + 1
      BY <2>4, <2>7, <2>9, <2>10, <3>1
    <3>2. CASE i # l + 1
      <4>1. i \in 1..l
        BY <3>2
      <4>2. QED
        BY <1>3, <2>2, <2>10, <4>1
    <3>3. QED
      BY <3>1, <3>2
  <2>12. \A i : Text(i)' = Text(i)
    BY <2>1 DEF Text, Value
  <2>13. l + 1 <= Len(buffer)
    BY <2>3
  <2>14. Len(buffer) = Len(Messages[msg])
    BY <2>1 DEF BodyInv
  <2>15. QED
    BY <1>1, <1>2, <2>1, <2>2, <2>10, <2>11, <2>12, <2>13, <2>14 DEF BodyInv
<1>7. CASE Parsed
  <2>1. /\ stage = "parse" /\ ~(position < Len(buffer)) /\ stage' = "done"
        /\ msg' = msg /\ hole' = hole /\ buffer' = buffer /\ position' = position /\ pairs' = pairs
    BY <1>7 DEF Parsed, MoreItems
  <2>2. position = Len(pairs) /\ Len(buffer) = Len(Messages[msg])
    BY <2>1 DEF BodyInv
  <2>3. Len(pairs) = Len(buffer)
    BY <1>2, <1>3, <2>1, <2>2
  <2>4. \A i : Text(i)' = Text(i)
    BY <2>1 DEF Text, Value
  <2>5. QED
    BY <1>1, <1>2, <1>3, <2>1, <2>2, <2>3, <2>4 DEF BodyInv
<1>8. CASE rpc_parser_free
  <2>1. /\ stage = "done" /\ stage' = "freed" /\ pairs' = <<>>
        /\ msg' = msg /\ hole' = hole /\ buffer' = buffer
    BY <1>8 DEF rpc_parser_free
  <2>2. Len(buffer) = Len(Messages[msg])
    BY <2>1 DEF BodyInv
  <2>3. pairs' \in Seq(Pair) /\ Len(pairs') = 0 /\ 0 <= Len(buffer)
    BY <1>2, <2>1
  <2>4. \A i : Text(i)' = Text(i)
    BY <2>1 DEF Text, Value
  <2>5. QED
    BY <1>1, <1>2, <2>1, <2>2, <2>3, <2>4 DEF BodyInv
<1>9. CASE UNCHANGED bodyVars
  BY <1>9 DEF bodyVars, BodyInv, Text, Value
<1>10. QED
  BY <1>4, <1>5, <1>6, <1>7, <1>8, <1>9 DEF BodyNext

(* The first pair whose key begins with k is the only one. *)
LEMMA LookupFinds == BodyInv => LookupRight
<1> SUFFICES ASSUME BodyInv, stage = "done", NEW k \in lookups(msg), NEW i \in 1..Len(Messages[msg]),
                    Begins(<<Messages[msg][i]>>, k)
             PROVE  rpc_parser_get(k) = IF i = hole THEN NULL ELSE i
  BY DEF LookupRight
<1>1. PICK n \in Nat : n = Len(Messages[msg])
  BY MessageSeq DEF BodyInv
<1>2. /\ msg \in DOMAIN Messages /\ Len(pairs) = n
      /\ \A j \in 1..n :
           pairs[j].key = Text(j) /\ pairs[j].value = IF j = hole THEN NULL ELSE j
  BY <1>1 DEF BodyInv
<1>3. ASSUME NEW j \in 1..n
      PROVE  Begins(pairs[j].key, k) <=> Begins(<<Messages[msg][j]>>, k)
  <2>1. pairs[j].key[1] = Messages[msg][j]
    BY <1>2 DEF Text
  <2>2. QED
    BY <2>1 DEF Begins
<1>4. Hits(k) = {i}
  <2>1. Hits(k) = {j \in 1..n : Begins(<<Messages[msg][j]>>, k)}
    BY <1>2, <1>3 DEF Hits, rpc_parser_count
  <2>2. ASSUME NEW j \in 1..n, Begins(<<Messages[msg][j]>>, k) PROVE j = i
    BY <1>1, <1>2, <2>2, OneKey
  <2>3. QED
    BY <1>1, <2>1, <2>2
<1>5. (CHOOSE j \in Hits(k) : \A l \in Hits(k) : j <= l) = i
  BY <1>1, <1>4
<1>6. rpc_parser_get(k) = pairs[i].value
  BY <1>4, <1>5 DEF rpc_parser_get
<1>7. QED
  BY <1>1, <1>2, <1>6

(***************************************************************************)
(* For every message of the program, and lists of any length, the receiver *)
(* finds under each key it asks for the value the sender put there.        *)
(***************************************************************************)
THEOREM LookupsAreRight == BodySpec => []LookupRight
BY BodyInitInv, BodyStepInv, LookupFinds, PTL DEF BodySpec
=============================================================================
