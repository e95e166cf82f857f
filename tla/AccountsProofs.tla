-------------------------- MODULE AccountsProofs --------------------------
(***************************************************************************)
(* Machine-checked proofs about Accounts, for any processors, admins,      *)
(* child accounts, devices and rows, and any mix of requests.              *)
(***************************************************************************)
EXTENDS Accounts, TLAPS

(* The initial tables. *)
LEMMA AccountsInit == Init => IInv
<1> SUFFICES ASSUME Init PROVE IInv
  OBVIOUS
<1>1. proc = [p \in Processors |-> Idle] /\ torn = {} /\ basic = Admins
      /\ child = [u \in Uuids |-> Nobody]
  BY DEF Init
<1>2. TypeOK
  BY DEF Init, TypeOK, Idle, PCs, Uuids
<1>3. RequestsRight /\ OneWriter
  BY <1>1 DEF RequestsRight, OneWriter, Idle, WritePCs, AddPCs, DelPCs, DevAddPCs, DevDelPCs
<1>4. AdminsSafe
  BY <1>1 DEF AdminsSafe, Uuids
<1>5. RowsTrack /\ DevicesTrack
  BY <1>1 DEF RowsTrack, DevicesTrack, Idle
<1>6. RowsAgree
  BY <1>1, NamesAssumption DEF RowsAgree, Uuids
<1>7. DevicesAgree
  BY DEF Init, DevicesAgree
<1>8. QED
  BY <1>2, <1>3, <1>4, <1>5, <1>6, <1>7 DEF IInv

(* A step that only reads: processor p goes on to n, which is between no two *)
(* writes and, if it is about to write, for the same request as before.      *)
LEMMA MoveInv ==
  ASSUME IInv, NEW p \in Processors, NEW n,
         n \in [pc : PCs \ (HalfPCs \cup {"delChild", "devDelBasic"}),
                by : Admins \cup {Nobody}, uuid : Uuids \cup Devices \cup {Nobody},
                row : Rows \cup {NoRow}],
         proc[p].pc \notin HalfPCs,
         n.pc \in WritePCs => proc[p].pc \in WritePCs /\ n.uuid = proc[p].uuid
                             /\ n.by = proc[p].by /\ n.row = proc[p].row,
         n.pc \in AddPCs => proc[p].pc \in AddPCs,
         n.pc \in DevAddPCs => proc[p].pc \in DevAddPCs,
         n.pc = "idle" => n.uuid = Nobody,
         n.pc \notin WritePCs \cup {"idle"} => n.uuid \in Uuids,
         proc' = [proc EXCEPT ![p] = n], UNCHANGED <<tables, torn, crowded>>,
         UNCHANGED workload
  PROVE  IInv'
<1> USE NamesAssumption, NoneAssumption
<1> USE DEF IInv, tables, Idle, Uuids,
            WritePCs, AddPCs, DelPCs, DevAddPCs, DevDelPCs, HalfPCs
<1>1. TypeOK'
  BY DEF TypeOK, PCs, RequestsRight
<1>2. RequestsRight'
  BY DEF TypeOK, PCs, RequestsRight
<1>3. OneWriter'
  BY DEF TypeOK, OneWriter
<1>4. AdminsSafe'
  BY DEF TypeOK, AdminsSafe, RequestsRight
<1>5. RowsTrack'
  BY DEF TypeOK, RowsTrack, RowsAgree, Settled, OneWriter, RequestsRight, AdminsSafe
<1>6. RowsAgree'
  BY DEF TypeOK, RowsAgree, RowsTrack, Settled, OneWriter, RequestsRight
<1>7. DevicesTrack'
  BY DEF TypeOK, DevicesTrack, DevicesAgree, Settled, OneWriter, RequestsRight
<1>8. DevicesAgree'
  BY DEF TypeOK, DevicesAgree, DevicesTrack, Settled, OneWriter, RequestsRight
<1>9. QED
  BY <1>1, <1>2, <1>3, <1>4, <1>5, <1>6, <1>7, <1>8

(* A create request starts. *)
LEMMA CreateInv ==
  ASSUME IInv, NEW p \in Processors, NEW a \in Admins, NEW u \in Uuids, Create(p, a, u),
         UNCHANGED workload
  PROVE  IInv'
<1> USE NamesAssumption, NoneAssumption
<1> USE DEF IInv, Create, Enter, Overlap, tables, Idle, Uuids,
            WritePCs, AddPCs, DelPCs, DevAddPCs, DevDelPCs, HalfPCs
<1>1. TypeOK'
  BY DEF TypeOK, PCs, RequestsRight
<1>2. RequestsRight'
  BY DEF TypeOK, RequestsRight, AdminsSafe
<1>3. OneWriter'
  BY DEF TypeOK, OneWriter
<1>4. AdminsSafe'
  BY DEF TypeOK, AdminsSafe, RequestsRight
<1>5. RowsTrack'
  BY DEF TypeOK, RowsTrack, RowsAgree, Settled, OneWriter, RequestsRight, AdminsSafe
<1>6. RowsAgree'
  BY DEF TypeOK, RowsAgree, RowsTrack, Settled, OneWriter, RequestsRight
<1>7. DevicesTrack'
  BY DEF TypeOK, DevicesTrack, DevicesAgree, Settled, OneWriter, RequestsRight
<1>8. DevicesAgree'
  BY DEF TypeOK, DevicesAgree, DevicesTrack, Settled, OneWriter, RequestsRight
<1>9. QED
  BY <1>1, <1>2, <1>3, <1>4, <1>5, <1>6, <1>7, <1>8

(* The account row of a new child is inserted, or not. *)
LEMMA AddBasicInv ==
  ASSUME IInv, NEW p \in Processors, AddBasic(p),
         UNCHANGED workload
  PROVE  IInv'
<1> USE NamesAssumption, NoneAssumption
<1> USE DEF IInv, AddBasic, Goto, Answer, tables, Idle, Uuids,
            WritePCs, AddPCs, DelPCs, DevAddPCs, DevDelPCs, HalfPCs
<1>1. TypeOK'
  BY DEF TypeOK, PCs, RequestsRight
<1>2. RequestsRight'
  BY DEF TypeOK, RequestsRight, AdminsSafe
<1>3. OneWriter'
  BY DEF TypeOK, OneWriter
<1>4. AdminsSafe'
  BY DEF TypeOK, AdminsSafe, RequestsRight
<1>5. RowsTrack'
  BY DEF TypeOK, RowsTrack, RowsAgree, Settled, OneWriter, RequestsRight, AdminsSafe
<1>6. RowsAgree'
  BY DEF TypeOK, RowsAgree, RowsTrack, Settled, OneWriter, RequestsRight
<1>7. DevicesTrack'
  BY DEF TypeOK, DevicesTrack, DevicesAgree, Settled, OneWriter, RequestsRight
<1>8. DevicesAgree'
  BY DEF TypeOK, DevicesAgree, DevicesTrack, Settled, OneWriter, RequestsRight
<1>9. QED
  BY <1>1, <1>2, <1>3, <1>4, <1>5, <1>6, <1>7, <1>8

(* The second row of a new child is inserted, or not. *)
LEMMA AddChildInv ==
  ASSUME IInv, NEW p \in Processors, AddChild(p),
         UNCHANGED workload
  PROVE  IInv'
<1> USE NamesAssumption, NoneAssumption
<1> USE DEF IInv, AddChild, Answer, Tear, tables, Idle, Uuids,
            WritePCs, AddPCs, DelPCs, DevAddPCs, DevDelPCs, HalfPCs
<1>1. TypeOK'
  BY DEF TypeOK, PCs, RequestsRight
<1>2. RequestsRight'
  BY DEF TypeOK, RequestsRight, AdminsSafe
<1>3. OneWriter'
  BY DEF TypeOK, OneWriter
<1>4. AdminsSafe'
  BY DEF TypeOK, AdminsSafe, RequestsRight
<1>5. RowsTrack'
  BY DEF TypeOK, RowsTrack, RowsAgree, Settled, OneWriter, RequestsRight, AdminsSafe
<1>6. RowsAgree'
  BY DEF TypeOK, RowsAgree, RowsTrack, Settled, OneWriter, RequestsRight
<1>7. DevicesTrack'
  BY DEF TypeOK, DevicesTrack, DevicesAgree, Settled, OneWriter, RequestsRight
<1>8. DevicesAgree'
  BY DEF TypeOK, DevicesAgree, DevicesTrack, Settled, OneWriter, RequestsRight
<1>9. QED
  BY <1>1, <1>2, <1>3, <1>4, <1>5, <1>6, <1>7, <1>8

(* A delete request has passed its checks. *)
LEMMA DeleteInv ==
  ASSUME IInv, NEW p \in Processors, NEW a \in Admins, NEW u \in Uuids, Delete(p, a, u),
         UNCHANGED workload
  PROVE  IInv'
<1> USE NamesAssumption, NoneAssumption
<1> USE DEF IInv, Delete, Enter, Overlap, IsChildOf, HasLicense, tables, Idle, Uuids,
            WritePCs, AddPCs, DelPCs, DevAddPCs, DevDelPCs, HalfPCs
<1>1. TypeOK'
  BY DEF TypeOK, PCs, RequestsRight
<1>2. RequestsRight'
  BY DEF TypeOK, RequestsRight, AdminsSafe
<1>3. OneWriter'
  BY DEF TypeOK, OneWriter
<1>4. AdminsSafe'
  BY DEF TypeOK, AdminsSafe, RequestsRight
<1>5. RowsTrack'
  BY DEF TypeOK, RowsTrack, RowsAgree, Settled, OneWriter, RequestsRight, AdminsSafe
<1>6. RowsAgree'
  BY DEF TypeOK, RowsAgree, RowsTrack, Settled, OneWriter, RequestsRight
<1>7. DevicesTrack'
  BY DEF TypeOK, DevicesTrack, DevicesAgree, Settled, OneWriter, RequestsRight
<1>8. DevicesAgree'
  BY DEF TypeOK, DevicesAgree, DevicesTrack, Settled, OneWriter, RequestsRight
<1>9. QED
  BY <1>1, <1>2, <1>3, <1>4, <1>5, <1>6, <1>7, <1>8

(* The child row is deleted, or not. *)
LEMMA DelChildInv ==
  ASSUME IInv, NEW p \in Processors, DelChild(p),
         UNCHANGED workload
  PROVE  IInv'
<1> USE NamesAssumption, NoneAssumption
<1> USE DEF IInv, DelChild, Goto, Tear, tables, Idle, Uuids,
            WritePCs, AddPCs, DelPCs, DevAddPCs, DevDelPCs, HalfPCs
<1>1. TypeOK'
  BY DEF TypeOK, PCs, RequestsRight
<1>2. RequestsRight'
  BY DEF TypeOK, RequestsRight, AdminsSafe
<1>3. OneWriter'
  BY DEF TypeOK, OneWriter
<1>4. AdminsSafe'
  BY DEF TypeOK, AdminsSafe, RequestsRight
<1>5. RowsTrack'
  BY DEF TypeOK, RowsTrack, RowsAgree, Settled, OneWriter, RequestsRight, AdminsSafe
<1>6. RowsAgree'
  BY DEF TypeOK, RowsAgree, RowsTrack, Settled, OneWriter, RequestsRight
<1>7. DevicesTrack'
  BY DEF TypeOK, DevicesTrack, DevicesAgree, Settled, OneWriter, RequestsRight
<1>8. DevicesAgree'
  BY DEF TypeOK, DevicesAgree, DevicesTrack, Settled, OneWriter, RequestsRight
<1>9. QED
  BY <1>1, <1>2, <1>3, <1>4, <1>5, <1>6, <1>7, <1>8

(* The account row is deleted, or not. *)
LEMMA DelBasicInv ==
  ASSUME IInv, NEW p \in Processors, DelBasic(p),
         UNCHANGED workload
  PROVE  IInv'
<1> USE NamesAssumption, NoneAssumption
<1> USE DEF IInv, DelBasic, Answer, Tear, tables, Idle, Uuids,
            WritePCs, AddPCs, DelPCs, DevAddPCs, DevDelPCs, HalfPCs
<1>1. TypeOK'
  BY DEF TypeOK, PCs, RequestsRight
<1>2. RequestsRight'
  BY DEF TypeOK, RequestsRight, AdminsSafe
<1>3. OneWriter'
  BY DEF TypeOK, OneWriter
<1>4. AdminsSafe'
  BY DEF TypeOK, AdminsSafe, RequestsRight
<1>5. RowsTrack'
  BY DEF TypeOK, RowsTrack, RowsAgree, Settled, OneWriter, RequestsRight, AdminsSafe
<1>6. RowsAgree'
  BY DEF TypeOK, RowsAgree, RowsTrack, Settled, OneWriter, RequestsRight
<1>7. DevicesTrack'
  BY DEF TypeOK, DevicesTrack, DevicesAgree, Settled, OneWriter, RequestsRight
<1>8. DevicesAgree'
  BY DEF TypeOK, DevicesAgree, DevicesTrack, Settled, OneWriter, RequestsRight
<1>9. QED
  BY <1>1, <1>2, <1>3, <1>4, <1>5, <1>6, <1>7, <1>8

(* A device create request has passed its first check. *)
LEMMA DevCreateInv ==
  ASSUME IInv, NEW p \in Processors, NEW a \in Admins, NEW d \in Devices, NEW r \in Rows, DevCreate(p, a, d, r),
         UNCHANGED workload
  PROVE  IInv'
<1> USE NamesAssumption, NoneAssumption
<1> USE DEF IInv, DevCreate, Enter, Overlap, tables, Idle, Uuids,
            WritePCs, AddPCs, DelPCs, DevAddPCs, DevDelPCs, HalfPCs
<1>1. TypeOK'
  BY DEF TypeOK, PCs, RequestsRight
<1>2. RequestsRight'
  BY DEF TypeOK, RequestsRight, AdminsSafe
<1>3. OneWriter'
  BY DEF TypeOK, OneWriter
<1>4. AdminsSafe'
  BY DEF TypeOK, AdminsSafe, RequestsRight
<1>5. RowsTrack'
  BY DEF TypeOK, RowsTrack, RowsAgree, Settled, OneWriter, RequestsRight, AdminsSafe
<1>6. RowsAgree'
  BY DEF TypeOK, RowsAgree, RowsTrack, Settled, OneWriter, RequestsRight
<1>7. DevicesTrack'
  BY DEF TypeOK, DevicesTrack, DevicesAgree, Settled, OneWriter, RequestsRight
<1>8. DevicesAgree'
  BY DEF TypeOK, DevicesAgree, DevicesTrack, Settled, OneWriter, RequestsRight
<1>9. QED
  BY <1>1, <1>2, <1>3, <1>4, <1>5, <1>6, <1>7, <1>8

(* The device row is inserted, or not. *)
LEMMA DevAddBasicInv ==
  ASSUME IInv, NEW p \in Processors, DevAddBasic(p),
         UNCHANGED workload
  PROVE  IInv'
<1> USE NamesAssumption, NoneAssumption
<1> USE DEF IInv, DevAddBasic, Goto, Answer, tables, Idle, Uuids,
            WritePCs, AddPCs, DelPCs, DevAddPCs, DevDelPCs, HalfPCs
<1>1. TypeOK'
  BY DEF TypeOK, PCs, RequestsRight
<1>2. RequestsRight'
  BY DEF TypeOK, RequestsRight, AdminsSafe
<1>3. OneWriter'
  BY DEF TypeOK, OneWriter
<1>4. AdminsSafe'
  BY DEF TypeOK, AdminsSafe, RequestsRight
<1>5. RowsTrack'
  BY DEF TypeOK, RowsTrack, RowsAgree, Settled, OneWriter, RequestsRight, AdminsSafe
<1>6. RowsAgree'
  BY DEF TypeOK, RowsAgree, RowsTrack, Settled, OneWriter, RequestsRight
<1>7. DevicesTrack'
  BY DEF TypeOK, DevicesTrack, DevicesAgree, Settled, OneWriter, RequestsRight
<1>8. DevicesAgree'
  <2>1. CASE UNCHANGED devBasic /\ Answer(p)
    BY <2>1 DEF TypeOK, DevicesAgree, Settled, RequestsRight
  <2>2. CASE devBasic' = [devBasic EXCEPT ![proc[p].uuid] = proc[p].row] /\ Goto(p, "devOwner")
    <3>1. proc'[p].pc = "devOwner" /\ proc'[p].uuid = proc[p].uuid
      BY <2>2 DEF TypeOK
    <3>2. ASSUME NEW d \in Devices, d # proc[p].uuid, Settled(d)' PROVE Settled(d)
      BY <2>2, <3>2 DEF TypeOK, Settled
    <3>3. ASSUME NEW d \in Devices, d # proc[p].uuid
          PROVE  devBasic'[d] = devBasic[d] /\ devOwner'[d] = devOwner[d]
      BY <2>2, <3>3 DEF TypeOK
    <3>4. QED
      BY <3>1, <3>2, <3>3 DEF DevicesAgree, Settled
  <2>3. QED
    BY <2>1, <2>2
<1>9. QED
  BY <1>1, <1>2, <1>3, <1>4, <1>5, <1>6, <1>7, <1>8

(* The row that gives the device to its admin is inserted, or not. *)
LEMMA DevAddOwnerInv ==
  ASSUME IInv, NEW p \in Processors, DevAddOwner(p),
         UNCHANGED workload
  PROVE  IInv'
<1> USE NamesAssumption, NoneAssumption
<1> USE DEF IInv, DevAddOwner, Answer, Tear, tables, Idle, Uuids,
            WritePCs, AddPCs, DelPCs, DevAddPCs, DevDelPCs, HalfPCs
<1>1. TypeOK'
  BY DEF TypeOK, PCs, RequestsRight
<1>2. RequestsRight'
  BY DEF TypeOK, RequestsRight, AdminsSafe
<1>3. OneWriter'
  BY DEF TypeOK, OneWriter
<1>4. AdminsSafe'
  BY DEF TypeOK, AdminsSafe, RequestsRight
<1>5. RowsTrack'
  BY DEF TypeOK, RowsTrack, RowsAgree, Settled, OneWriter, RequestsRight, AdminsSafe
<1>6. RowsAgree'
  BY DEF TypeOK, RowsAgree, RowsTrack, Settled, OneWriter, RequestsRight
<1>7. DevicesTrack'
  BY DEF TypeOK, DevicesTrack, DevicesAgree, Settled, OneWriter, RequestsRight
<1>8. DevicesAgree'
  BY DEF TypeOK, DevicesAgree, DevicesTrack, Settled, OneWriter, RequestsRight
<1>9. QED
  BY <1>1, <1>2, <1>3, <1>4, <1>5, <1>6, <1>7, <1>8

(* A device delete request has passed its checks. *)
LEMMA DevDeleteInv ==
  ASSUME IInv, NEW p \in Processors, NEW a \in Admins, NEW d \in Devices, DevDelete(p, a, d),
         UNCHANGED workload
  PROVE  IInv'
<1> USE NamesAssumption, NoneAssumption
<1> USE DEF IInv, DevDelete, Enter, Overlap, DevicesOf, tables, Idle, Uuids,
            WritePCs, AddPCs, DelPCs, DevAddPCs, DevDelPCs, HalfPCs
<1>1. TypeOK'
  BY DEF TypeOK, PCs, RequestsRight
<1>2. RequestsRight'
  BY DEF TypeOK, RequestsRight, AdminsSafe
<1>3. OneWriter'
  BY DEF TypeOK, OneWriter
<1>4. AdminsSafe'
  BY DEF TypeOK, AdminsSafe, RequestsRight
<1>5. RowsTrack'
  BY DEF TypeOK, RowsTrack, RowsAgree, Settled, OneWriter, RequestsRight, AdminsSafe
<1>6. RowsAgree'
  BY DEF TypeOK, RowsAgree, RowsTrack, Settled, OneWriter, RequestsRight
<1>7. DevicesTrack'
  BY DEF TypeOK, DevicesTrack, DevicesAgree, Settled, OneWriter, RequestsRight
<1>8. DevicesAgree'
  BY DEF TypeOK, DevicesAgree, DevicesTrack, Settled, OneWriter, RequestsRight
<1>9. QED
  BY <1>1, <1>2, <1>3, <1>4, <1>5, <1>6, <1>7, <1>8

(* The device row is deleted, or not. *)
LEMMA DevDelBasicInv ==
  ASSUME IInv, NEW p \in Processors, DevDelBasic(p),
         UNCHANGED workload
  PROVE  IInv'
<1> USE NamesAssumption, NoneAssumption
<1> USE DEF IInv, DevDelBasic, Goto, Tear, tables, Idle, Uuids,
            WritePCs, AddPCs, DelPCs, DevAddPCs, DevDelPCs, HalfPCs
<1>1. TypeOK'
  BY DEF TypeOK, PCs, RequestsRight
<1>2. RequestsRight'
  BY DEF TypeOK, RequestsRight, AdminsSafe
<1>3. OneWriter'
  BY DEF TypeOK, OneWriter
<1>4. AdminsSafe'
  BY DEF TypeOK, AdminsSafe, RequestsRight
<1>5. RowsTrack'
  BY DEF TypeOK, RowsTrack, RowsAgree, Settled, OneWriter, RequestsRight, AdminsSafe
<1>6. RowsAgree'
  BY DEF TypeOK, RowsAgree, RowsTrack, Settled, OneWriter, RequestsRight
<1>7. DevicesTrack'
  BY DEF TypeOK, DevicesTrack, DevicesAgree, Settled, OneWriter, RequestsRight
<1>8. DevicesAgree'
  BY DEF TypeOK, DevicesAgree, DevicesTrack, Settled, OneWriter, RequestsRight
<1>9. QED
  BY <1>1, <1>2, <1>3, <1>4, <1>5, <1>6, <1>7, <1>8

(* The row of the owner is deleted, or not. *)
LEMMA DevDelOwnerInv ==
  ASSUME IInv, NEW p \in Processors, DevDelOwner(p),
         UNCHANGED workload
  PROVE  IInv'
<1> USE NamesAssumption, NoneAssumption
<1> USE DEF IInv, DevDelOwner, Answer, Tear, tables, Idle, Uuids,
            WritePCs, AddPCs, DelPCs, DevAddPCs, DevDelPCs, HalfPCs
<1>1. TypeOK'
  BY DEF TypeOK, PCs, RequestsRight
<1>2. RequestsRight'
  BY DEF TypeOK, RequestsRight, AdminsSafe
<1>3. OneWriter'
  BY DEF TypeOK, OneWriter
<1>4. AdminsSafe'
  BY DEF TypeOK, AdminsSafe, RequestsRight
<1>5. RowsTrack'
  BY DEF TypeOK, RowsTrack, RowsAgree, Settled, OneWriter, RequestsRight, AdminsSafe
<1>6. RowsAgree'
  BY DEF TypeOK, RowsAgree, RowsTrack, Settled, OneWriter, RequestsRight
<1>7. DevicesTrack'
  BY DEF TypeOK, DevicesTrack, DevicesAgree, Settled, OneWriter, RequestsRight
<1>8. DevicesAgree'
  BY DEF TypeOK, DevicesAgree, DevicesTrack, Settled, OneWriter, RequestsRight
<1>9. QED
  BY <1>1, <1>2, <1>3, <1>4, <1>5, <1>6, <1>7, <1>8

(* The service dies and starts again: the uuids of half-done requests are torn. *)
LEMMA DieInv ==
  ASSUME IInv, Die,
         UNCHANGED workload
  PROVE  IInv'
<1> USE NamesAssumption, NoneAssumption
<1> USE DEF IInv, Die, tables, Idle, Uuids,
            WritePCs, AddPCs, DelPCs, DevAddPCs, DevDelPCs, HalfPCs
<1>1. TypeOK'
  BY DEF TypeOK, PCs, RequestsRight
<1>2. RequestsRight'
  BY DEF TypeOK, RequestsRight, AdminsSafe
<1>3. OneWriter'
  BY DEF TypeOK, OneWriter
<1>4. AdminsSafe'
  BY DEF TypeOK, AdminsSafe, RequestsRight
<1>5. RowsTrack'
  BY DEF TypeOK, RowsTrack, RowsAgree, Settled, OneWriter, RequestsRight, AdminsSafe
<1>6. RowsAgree'
  BY DEF TypeOK, RowsAgree, RowsTrack, Settled, OneWriter, RequestsRight
<1>7. DevicesTrack'
  BY DEF TypeOK, DevicesTrack, DevicesAgree, Settled, OneWriter, RequestsRight
<1>8. DevicesAgree'
  BY DEF TypeOK, DevicesAgree, DevicesTrack, Settled, OneWriter, RequestsRight
<1>9. QED
  BY <1>1, <1>2, <1>3, <1>4, <1>5, <1>6, <1>7, <1>8

(* The steps that only read. *)
Reads(p) ==
  /\ \/ \E u \in Uuids : Login(p, u) \/ Modify(p, u)
     \/ LoginExist(p) \/ LoginRef(p) \/ (LoginList(p) /\ LoginRow(p))
     \/ (proc[p].pc = "modify" /\ Answer(p))
     \/ DevUuid(p) \/ DevFolder(p) \/ DevAdd(p)
  /\ UNCHANGED <<tables, torn, crowded, workload>>

(* They preserve the invariant. *)
LEMMA ReadInv ==
  ASSUME IInv, NEW p \in Processors, Reads(p)
  PROVE  IInv'
<1> USE DEF PCs, WritePCs, AddPCs, DelPCs, DevAddPCs, DevDelPCs, HalfPCs
<1> UNCHANGED <<tables, torn, crowded, workload>>
  BY DEF Reads
<1>1. proc \in [Processors -> [pc : PCs, by : Admins \cup {Nobody},
                              uuid : Uuids \cup Devices \cup {Nobody},
                              row : Rows \cup {NoRow}]]
      /\ child \in [Uuids -> Admins \cup {Nobody}]
  BY DEF IInv, TypeOK
<1>2. ASSUME Answer(p), proc[p].pc \notin HalfPCs
      PROVE  IInv'
  <2>1. proc' = [proc EXCEPT ![p] = Idle]
    BY <1>2 DEF Answer
  <2>2. QED
    BY <1>2, <2>1, MoveInv DEF Idle
<1>3. ASSUME NEW u \in Uuids, Login(p, u) \/ Modify(p, u)
      PROVE  IInv'
  <2>1. PICK s \in {"loginExist", "modify"} :
          proc' = [proc EXCEPT ![p] = [pc |-> s, by |-> Nobody, uuid |-> u, row |-> NoRow]]
    BY <1>3 DEF Login, Modify, Enter
  <2>2. proc[p].pc = "idle"
    BY <1>3 DEF Login, Modify
  <2>3. QED
    BY <2>1, <2>2, MoveInv
<1>4. CASE LoginRef(p)
  <2>1. proc[p].pc = "loginRef" /\ proc[p].uuid \in Uuids
    BY <1>4 DEF LoginRef, IInv, RequestsRight
  <2>2. PICK a \in Admins \cup {Nobody} :
          proc' = [proc EXCEPT ![p] = [pc |-> "loginList", by |-> a,
                                       uuid |-> proc[p].uuid, row |-> NoRow]]
    BY <1>1, <1>4, <2>1 DEF LoginRef, Enter, HasLicense
  <2>3. QED
    BY <2>1, <2>2, MoveInv
<1>5. ASSUME NEW s \in {"loginRef", "loginFetch"}, Goto(p, s),
             proc[p].pc \in {"loginExist", "loginList"}
      PROVE  IInv'
  <2>1. PICK n : n = [proc[p] EXCEPT !.pc = s]
    OBVIOUS
  <2>2. /\ n = [pc |-> s, by |-> proc[p].by, uuid |-> proc[p].uuid, row |-> proc[p].row]
        /\ proc' = [proc EXCEPT ![p] = n]
    BY <1>1, <1>5, <2>1 DEF Goto
  <2>3. proc[p].uuid \in Uuids
    BY <1>5 DEF IInv, RequestsRight
  <2>4. QED
    BY <1>1, <1>5, <2>2, <2>3, MoveInv
<1>6. ASSUME NEW s \in {"devFolder", "devAdd", "devBasic"}, Goto(p, s),
             proc[p].pc \in {"devUuid", "devFolder", "devAdd"}
      PROVE  IInv'
  <2>1. PICK n : n = [proc[p] EXCEPT !.pc = s]
    OBVIOUS
  <2>2. /\ n = [pc |-> s, by |-> proc[p].by, uuid |-> proc[p].uuid, row |-> proc[p].row]
        /\ proc' = [proc EXCEPT ![p] = n]
    BY <1>1, <1>6, <2>1 DEF Goto
  <2>3. QED
    BY <1>1, <1>6, <2>2, MoveInv
<1>7. CASE LoginExist(p)
  BY <1>2, <1>5, <1>7 DEF LoginExist
<1>8. CASE LoginList(p) /\ LoginRow(p)
  BY <1>2, <1>5, <1>8 DEF LoginList
<1>9. CASE DevUuid(p) \/ DevFolder(p) \/ DevAdd(p)
  BY <1>2, <1>6, <1>9 DEF DevUuid, DevFolder, DevAdd
<1>10. QED
  BY <1>2, <1>3, <1>4, <1>7, <1>8, <1>9 DEF Reads

(* Every step preserves the invariant. *)
LEMMA AccountsStep == IInv /\ [Next]_vars => IInv'
<1> SUFFICES ASSUME IInv, [Next]_vars PROVE IInv'
  OBVIOUS
<1>1. CASE UNCHANGED vars
  BY <1>1 DEF IInv, vars, tables, TypeOK, RequestsRight, OneWriter, AdminsSafe, RowsTrack,
              RowsAgree, DevicesTrack, DevicesAgree, Settled
<1>2. CASE Next
  <2>1. UNCHANGED workload
    BY <1>2 DEF Next
  <2>2. CASE Die
    BY <2>1, <2>2, DieInv
  <2>3. ASSUME NEW p \in Processors, AccountRequest(p) PROVE IInv'
    <3>1. ASSUME NEW a \in Admins, NEW u \in Uuids, Create(p, a, u) \/ Delete(p, a, u)
          PROVE  IInv'
      BY <2>1, <3>1, CreateInv, DeleteInv
    <3>2. ASSUME NEW u \in Uuids, Login(p, u) \/ Modify(p, u)
          PROVE  IInv'
      <4>1. Reads(p)
        BY <2>1, <3>2 DEF Reads, Login, Modify
      <4>2. QED
        BY <4>1, ReadInv
    <3>3. QED
      BY <2>3, <3>1, <3>2 DEF AccountRequest
  <2>4. ASSUME NEW p \in Processors, AccountStep(p) PROVE IInv'
    <3>1. CASE AddBasic(p) \/ AddChild(p) \/ DelChild(p) \/ DelBasic(p)
      BY <2>1, <3>1, AddBasicInv, AddChildInv, DelChildInv, DelBasicInv
    <3>2. CASE LoginExist(p) \/ LoginRef(p)
      <4>1. Reads(p)
        BY <2>1, <3>2 DEF Reads, LoginExist, LoginRef
      <4>2. QED
        BY <4>1, ReadInv
    <3>3. CASE LoginList(p) /\ UNCHANGED <<tables, torn, crowded>> /\ LoginRow(p)
      <4>1. Reads(p)
        BY <2>1, <3>3 DEF Reads
      <4>2. QED
        BY <4>1, ReadInv
    <3>4. CASE Update(p) /\ UNCHANGED <<tables, torn, crowded>> /\ Answer(p)
      <4>1. Reads(p)
        BY <2>1, <3>4 DEF Reads, Update
      <4>2. QED
        BY <4>1, ReadInv
    <3>5. QED
      BY <2>2, <2>4, <3>1, <3>2, <3>3, <3>4 DEF AccountStep, LoginList, Update
  <2>5. ASSUME NEW p \in Processors, DeviceRequest(p) PROVE IInv'
    <3>1. ASSUME NEW a \in Admins, NEW d \in Devices, NEW r \in Rows, DevCreate(p, a, d, r)
          PROVE  IInv'
      BY <2>1, <3>1, DevCreateInv
    <3>2. ASSUME NEW a \in Admins, NEW d \in Devices, DevDelete(p, a, d)
          PROVE  IInv'
      BY <2>1, <3>2, DevDeleteInv
    <3>3. QED
      BY <2>5, <3>1, <3>2 DEF DeviceRequest
  <2>6. ASSUME NEW p \in Processors, DeviceStep(p) PROVE IInv'
    <3>1. CASE DevUuid(p) \/ DevFolder(p) \/ DevAdd(p)
      <4>1. Reads(p)
        BY <2>1, <3>1 DEF Reads, DevUuid, DevFolder, DevAdd
      <4>2. QED
        BY <4>1, ReadInv
    <3>2. CASE DevAddBasic(p) \/ DevAddOwner(p) \/ DevDelBasic(p) \/ DevDelOwner(p)
      BY <2>1, <3>2, DevAddBasicInv, DevAddOwnerInv, DevDelBasicInv, DevDelOwnerInv
    <3>3. QED
      BY <2>6, <3>1, <3>2 DEF DeviceStep
  <2>7. QED
    BY <1>2, <2>2, <2>3, <2>4, <2>5, <2>6 DEF Next
<1>3. QED
  BY <1>1, <1>2

(***************************************************************************)
(* The inductive invariant: while a request is between its writes, the     *)
(* rows of its uuid stand as that request left them, unless the uuid is    *)
(* torn.                                                                   *)
(***************************************************************************)
THEOREM Invariance == Spec => []IInv
  BY AccountsInit, AccountsStep, PTL DEF Spec

(* The tables and the requests keep their types. *)
THEOREM TypeCorrect == Spec => []TypeOK
<1>1. IInv => TypeOK
  BY DEF IInv
<1>2. QED
  BY <1>1, Invariance, PTL

(***************************************************************************)
(* req_account_delete's "should never happen" never happens: no mix of     *)
(* requests, failures and crashes deletes an admin account or gives it to  *)
(* another admin.                                                          *)
(***************************************************************************)
THEOREM AdminsStay == Spec => []AdminsSafe
<1>1. IInv => AdminsSafe
  BY DEF IInv
<1>2. QED
  BY <1>1, Invariance, PTL

(***************************************************************************)
(* db_account_child_add and db_account_child_del leave both rows of an     *)
(* account or none, unless a request failed between its writes or two      *)
(* requests changed the account at once.                                   *)
(***************************************************************************)
THEOREM AccountRowsAgree == Spec => []RowsAgree
<1>1. IInv => RowsAgree
  BY DEF IInv
<1>2. QED
  BY <1>1, Invariance, PTL

(* The same for db_account_device_add and db_account_device_del. *)
THEOREM DeviceRowsAgree == Spec => []DevicesAgree
<1>1. IInv => DevicesAgree
  BY DEF IInv
<1>2. QED
  BY <1>1, Invariance, PTL

-----------------------------------------------------------------------------
(* One device at a time *)

(* A request of the next state that creates a device did so before, and no  *)
(* check lies behind it that did not.                                       *)
CreatesOn ==
  \A q \in Processors : proc'[q].pc \in DevAddPCs =>
    /\ proc[q].pc \in DevAddPCs
    /\ proc'[q].by = proc[q].by /\ proc'[q].uuid = proc[q].uuid /\ proc'[q].row = proc[q].row
    /\ proc'[q].pc = "devOwner" => proc[q].pc = "devOwner"
    /\ proc'[q].pc \in {"devAdd", "devBasic"} => proc[q].pc \in {"devAdd", "devBasic"}

(* A step that adds no row and no owner of a device keeps DevicesInv, if it *)
(* leaves the rows alone that are about to get their owner.                 *)
LEMMA DevicesStay ==
  ASSUME IInv, DevicesInv, crowded' = crowded, torn \subseteq torn', CreatesOn,
         \A d \in Devices : /\ devBasic'[d] = devBasic[d] \/ devBasic'[d] = NoRow
                            /\ devOwner'[d] = devOwner[d] \/ devOwner'[d] = Nobody,
         \A q \in Processors : proc'[q].pc = "devOwner" /\ proc[q].uuid \notin torn' =>
                                 devBasic'[proc[q].uuid] = devBasic[proc[q].uuid]
  PROVE  DevicesInv'
<1> SUFFICES ASSUME ~crowded PROVE DevicesInv'
  BY DEF DevicesInv, DevicesApart
<1>1. CreatesAlone /\ PlaceFree /\ RowStored /\ FolderFree /\ DevicesApart
  BY DEF DevicesInv
<1>2. ASSUME NEW a \in Admins, NEW d \in DevicesOf(a)' PROVE d \in DevicesOf(a) /\ devBasic'[d] = devBasic[d]
  BY NoneAssumption DEF DevicesOf
<1>3. CreatesAlone'
  BY <1>1 DEF CreatesAlone, CreatesOn
<1>4. PlaceFree'
  <2> SUFFICES ASSUME NEW p \in Processors, proc'[p].pc \in DevAddPCs, NEW e \in DevicesOf(proc[p].by)', e \notin torn'
               PROVE  ~(devBasic'[e].port = proc[p].row.port /\ devBasic'[e].channel = proc[p].row.channel)
    BY DEF PlaceFree, CreatesOn, DevicesOf
  <2>1. proc[p].pc \in DevAddPCs /\ proc[p].by \in Admins /\ proc'[p].by = proc[p].by
    BY DEF CreatesOn, IInv, RequestsRight, WritePCs
  <2>2. e \in DevicesOf(proc[p].by) /\ devBasic'[e] = devBasic[e]
    BY <2>1, NoneAssumption DEF DevicesOf
  <2>3. QED
    BY <1>1, <2>1, <2>2 DEF PlaceFree
<1>5. RowStored'
  <2> SUFFICES ASSUME NEW p \in Processors, proc'[p].pc = "devOwner", proc'[p].uuid \notin torn'
               PROVE  devBasic'[proc'[p].uuid] = proc'[p].row
    BY DEF RowStored
  <2>1. proc[p].pc = "devOwner" /\ proc'[p].uuid = proc[p].uuid /\ proc'[p].row = proc[p].row
    BY DEF CreatesOn, DevAddPCs
  <2>2. QED
    BY <1>1, <2>1 DEF RowStored
<1>6. FolderFree'
  <2> SUFFICES ASSUME NEW p \in Processors, proc'[p].pc \in {"devAdd", "devBasic"},
                      NEW e \in Devices, devBasic'[e] # NoRow
               PROVE  devBasic'[e].folder # proc'[p].row.folder
    BY DEF FolderFree
  <2>1. proc[p].pc \in {"devAdd", "devBasic"} /\ proc'[p].row = proc[p].row
    BY DEF CreatesOn, DevAddPCs
  <2>2. QED
    BY <1>1, <2>1 DEF FolderFree
<1>7. DevicesApart'
  <2>1. ASSUME NEW a \in Admins, NEW d \in DevicesOf(a)' \ torn', NEW e \in DevicesOf(a)' \ torn',
               devBasic'[d].port = devBasic'[e].port, devBasic'[d].channel = devBasic'[e].channel
        PROVE  d = e
    BY <1>1, <1>2, <2>1 DEF DevicesApart
  <2>2. ASSUME NEW d \in Devices, NEW e \in Devices, devBasic'[d] # NoRow, devBasic'[e] # NoRow,
               devBasic'[d].folder = devBasic'[e].folder
        PROVE  d = e
    BY <1>1, <2>2 DEF DevicesApart
  <2>3. QED
    BY <2>1, <2>2 DEF DevicesApart, DevicesOf
<1>8. QED
  BY <1>3, <1>4, <1>5, <1>6, <1>7 DEF DevicesInv

(* A processor that answers, or goes on with a request that creates nothing *)
LEMMA MoveCreates ==
  ASSUME IInv, NEW p \in Processors, NEW n, proc' = [proc EXCEPT ![p] = n],
         \/ n.pc \notin DevAddPCs
         \/ /\ n.by = proc[p].by /\ n.uuid = proc[p].uuid /\ n.row = proc[p].row
            /\ <<proc[p].pc, n.pc>> \in {<<"devUuid", "devFolder">>, <<"devAdd", "devBasic">>}
  PROVE  CreatesOn
<1>1. proc'[p] = n /\ \A q \in Processors : q # p => proc'[q] = proc[q]
  BY DEF IInv, TypeOK
<1>2. QED
  BY <1>1 DEF CreatesOn, DevAddPCs

(* The same for an answer *)
LEMMA AnswerCreates ==
  ASSUME IInv, NEW p \in Processors, Answer(p)
  PROVE  CreatesOn
<1>1. Idle.pc \notin DevAddPCs
  BY DEF Idle, DevAddPCs
<1>2. QED
  BY <1>1, MoveCreates DEF Answer

(* Going on to the next statement *)
LEMMA GotoCreates ==
  ASSUME IInv, NEW p \in Processors, NEW s, Goto(p, s),
         s \notin DevAddPCs \/ <<proc[p].pc, s>> \in {<<"devUuid", "devFolder">>, <<"devAdd", "devBasic">>}
  PROVE  CreatesOn
<1>1. PICK n : n = [proc[p] EXCEPT !.pc = s]
  OBVIOUS
<1>2. proc' = [proc EXCEPT ![p] = n]
  BY <1>1 DEF Goto, IInv, TypeOK
<1>3. proc[p] \in [pc : PCs, by : Admins \cup {Nobody}, uuid : Uuids \cup Devices \cup {Nobody},
                   row : Rows \cup {NoRow}]
  BY DEF IInv, TypeOK
<1>4. n.pc = s /\ n.by = proc[p].by /\ n.uuid = proc[p].uuid /\ n.row = proc[p].row
  BY <1>1, <1>3
<1>5. QED
  BY <1>2, <1>4, MoveCreates

(* Starting a request that creates no device *)
LEMMA EnterCreates ==
  ASSUME IInv, NEW p \in Processors, NEW s, NEW a, NEW x, NEW r, Enter(p, s, a, x, r), s \notin DevAddPCs
  PROVE  CreatesOn
<1>1. PICK n : n = [pc |-> s, by |-> a, uuid |-> x, row |-> r]
  OBVIOUS
<1>2. proc' = [proc EXCEPT ![p] = n] /\ n.pc = s
  BY <1>1 DEF Enter
<1>3. QED
  BY <1>2, MoveCreates

(* The account requests leave the device tables alone and create no device. *)
LEMMA DevicesOther ==
  ASSUME IInv, DevicesInv, NEW p \in Processors, AccountRequest(p) \/ AccountStep(p)
  PROVE  DevicesInv'
<1>1. CASE AccountRequest(p)
  <2>1. UNCHANGED <<devBasic, devOwner, crowded>> /\ torn \subseteq torn'
    BY <1>1 DEF AccountRequest, Create, Delete, Login, Modify, tables, Overlap
  <2>2. \E s \in {"addBasic", "delChild", "loginExist", "modify"} : \E a, u : Enter(p, s, a, u, NoRow)
    BY <1>1 DEF AccountRequest, Create, Delete, Login, Modify
  <2>3. CreatesOn
    BY <2>2, EnterCreates DEF DevAddPCs
  <2>4. QED
    BY <2>1, <2>3, DevicesStay
<1>2. CASE AccountStep(p)
  <2>1. UNCHANGED <<devBasic, devOwner, crowded>> /\ torn \subseteq torn'
    BY <1>2 DEF AccountStep, AddBasic, AddChild, DelChild, DelBasic, LoginExist, LoginRef, LoginList,
                Update, Die, tables, Tear
  <2>2. \/ Answer(p) \/ (\E s \in {"addChild", "delBasic", "loginRef", "loginFetch"} : Goto(p, s))
        \/ (\E a, u : Enter(p, "loginList", a, u, NoRow)) \/ Die
    BY <1>2 DEF AccountStep, AddBasic, AddChild, DelChild, DelBasic, LoginExist, LoginRef, LoginList, Update
  <2>3. CASE Die
    <3>1. CreatesOn
      BY <2>3 DEF Die, CreatesOn, Idle, DevAddPCs
    <3>2. QED
      BY <2>1, <3>1, DevicesStay
  <2>4. CASE \/ Answer(p) \/ (\E s \in {"addChild", "delBasic", "loginRef", "loginFetch"} : Goto(p, s))
             \/ (\E a, u : Enter(p, "loginList", a, u, NoRow))
    <3>1. CreatesOn
      BY <2>4, AnswerCreates, GotoCreates, EnterCreates DEF DevAddPCs
    <3>2. QED
      BY <2>1, <3>1, DevicesStay
  <2>5. QED
    BY <2>2, <2>3, <2>4
<1>3. QED
  BY <1>1, <1>2

(* A device is about to be created: its place is free, and nobody else      *)
(* creates one, or it is crowded from now on.                               *)
LEMMA DevCreateDevices ==
  ASSUME IInv, DevicesInv, NEW p \in Processors, NEW a \in Admins, NEW d \in Devices, NEW r \in Rows,
         DevCreate(p, a, d, r)
  PROVE  DevicesInv'
<1> DEFINE n == [pc |-> "devUuid", by |-> a, uuid |-> d, row |-> r]
<1>1. /\ proc'[p] = n /\ \A q \in Processors : q # p => proc'[q] = proc[q]
      /\ devBasic' = devBasic /\ devOwner' = devOwner /\ torn \subseteq torn'
  BY DEF DevCreate, Enter, IInv, TypeOK, tables, Overlap
<1>2. n.pc = "devUuid" /\ n.by = a /\ n.uuid = d /\ n.row = r
  OBVIOUS
<1> HIDE DEF n
<1> SUFFICES ASSUME ~crowded' PROVE DevicesInv'
  BY DEF DevicesInv, DevicesApart
<1>3. ~crowded /\ \A q \in Processors : proc[q].pc \notin DevAddPCs
  BY DEF DevCreate
<1>4. \A q \in Processors : proc'[q].pc \in DevAddPCs => q = p
  BY <1>1, <1>3
<1>5. CreatesAlone'
  BY <1>4 DEF CreatesAlone
<1>6. PlaceFree'
  <2>1. \A e \in DevicesOf(a) : ~(devBasic[e].port = r.port /\ devBasic[e].channel = r.channel)
    BY DEF DevCreate, PlaceTaken
  <2>2. \A e \in DevicesOf(proc[p].by)' : e \in DevicesOf(a)
    BY <1>1, <1>2 DEF DevicesOf
  <2>3. QED
    BY <1>1, <1>2, <1>4, <2>1, <2>2 DEF PlaceFree
<1>7. RowStored' /\ FolderFree'
  BY <1>1, <1>2, <1>3 DEF RowStored, FolderFree, DevAddPCs
<1>8. DevicesApart'
  BY <1>1, <1>3 DEF DevicesInv, DevicesApart, DevicesOf
<1>9. QED
  BY <1>5, <1>6, <1>7, <1>8 DEF DevicesInv

(* The folder was looked for among all devices. *)
LEMMA DevFolderDevices ==
  ASSUME IInv, DevicesInv, NEW p \in Processors, DevFolder(p)
  PROVE  DevicesInv'
<1>1. UNCHANGED <<devBasic, devOwner, crowded, torn>>
  BY DEF DevFolder, tables
<1>2. CASE Answer(p)
  BY <1>1, <1>2, AnswerCreates, DevicesStay
<1>3. CASE Goto(p, "devAdd") /\ ~\E d \in Devices : devBasic[d] # NoRow /\ devBasic[d].folder = proc[p].row.folder
  <2>1. proc[p] \in [pc : PCs, by : Admins \cup {Nobody}, uuid : Uuids \cup Devices \cup {Nobody},
                     row : Rows \cup {NoRow}]
    BY DEF IInv, TypeOK
  <2>2. /\ proc'[p].pc = "devAdd" /\ proc'[p].by = proc[p].by /\ proc'[p].row = proc[p].row
        /\ \A q \in Processors : q # p => proc'[q] = proc[q]
    BY <1>3, <2>1 DEF Goto, IInv, TypeOK
  <2>3. proc[p].pc \in DevAddPCs
    BY DEF DevFolder, DevAddPCs
  <2> SUFFICES ASSUME ~crowded PROVE DevicesInv'
    BY <1>1 DEF DevicesInv, DevicesApart
  <2>4. CreatesAlone'
    BY <2>2, <2>3 DEF DevicesInv, CreatesAlone
  <2>5. PlaceFree'
    <3> SUFFICES ASSUME NEW q \in Processors, proc'[q].pc \in DevAddPCs, NEW e \in DevicesOf(proc[q].by)', e \notin torn'
                 PROVE  ~(devBasic'[e].port = proc'[q].row.port /\ devBasic'[e].channel = proc'[q].row.channel)
      BY DEF PlaceFree
    <3>1. proc[q].pc \in DevAddPCs /\ proc'[q].by = proc[q].by /\ proc'[q].row = proc[q].row
      BY <2>2, <2>3
    <3>2. e \in DevicesOf(proc[q].by)
      BY <1>1, <3>1 DEF DevicesOf
    <3>3. QED
      BY <1>1, <3>1, <3>2 DEF DevicesInv, PlaceFree
  <2>6. RowStored'
    BY <1>1, <2>2 DEF DevicesInv, RowStored
  <2>7. FolderFree'
    BY <1>1, <1>3, <2>2 DEF DevicesInv, FolderFree
  <2>8. DevicesApart'
    BY <1>1 DEF DevicesInv, DevicesApart, DevicesOf
  <2>9. QED
    BY <2>4, <2>5, <2>6, <2>7, <2>8 DEF DevicesInv
<1>4. QED
  BY <1>2, <1>3 DEF DevFolder

(* No other request is between two writes about the uuid of p, unless it is torn. *)
LEMMA WriterSettled ==
  ASSUME IInv, NEW p \in Processors, proc[p].pc \in WritePCs \ HalfPCs, proc[p].uuid \notin torn
  PROVE  Settled(proc[p].uuid)
BY DEF IInv, OneWriter, Settled, HalfPCs, WritePCs, AddPCs, DelPCs, DevAddPCs, DevDelPCs

(* The first INSERT: the device has a row, and no owner yet. *)
LEMMA DevAddBasicDevices ==
  ASSUME IInv, DevicesInv, NEW p \in Processors, DevAddBasic(p)
  PROVE  DevicesInv'
<1>1. UNCHANGED <<devOwner, crowded, torn>> /\ proc[p].pc = "devBasic"
  BY DEF DevAddBasic
<1>2. CASE Answer(p) /\ UNCHANGED devBasic
  BY <1>1, <1>2, AnswerCreates, DevicesStay
<1>3. CASE /\ devBasic[proc[p].uuid] = NoRow
           /\ devBasic' = [devBasic EXCEPT ![proc[p].uuid] = proc[p].row]
           /\ Goto(p, "devOwner")
  <2> DEFINE x == proc[p].uuid
             r == proc[p].row
  <2>1. proc[p] \in [pc : PCs, by : Admins \cup {Nobody}, uuid : Uuids \cup Devices \cup {Nobody},
                     row : Rows \cup {NoRow}]
    BY DEF IInv, TypeOK
  <2>2. /\ proc'[p].pc = "devOwner" /\ proc'[p].by = proc[p].by /\ proc'[p].row = r /\ proc'[p].uuid = x
        /\ \A q \in Processors : q # p => proc'[q] = proc[q]
    BY <1>3, <2>1 DEF Goto, IInv, TypeOK
  <2>3. x \in Devices /\ r \in Rows /\ r # NoRow /\ proc[p].pc \in DevAddPCs
    BY <1>1, NoneAssumption DEF IInv, RequestsRight, DevAddPCs
  <2>4. devBasic'[x] = r /\ \A d \in Devices : d # x => devBasic'[d] = devBasic[d]
    BY <1>3, <2>3 DEF IInv, TypeOK
  <2>5. x \in torn \/ devOwner[x] = Nobody
    <3>1. x \notin torn => Settled(x)
      BY <1>1, WriterSettled DEF WritePCs, HalfPCs, DevAddPCs
    <3>2. QED
      BY <1>3, <2>3, <3>1 DEF IInv, DevicesAgree
  <2> SUFFICES ASSUME ~crowded PROVE DevicesInv'
    BY <1>1 DEF DevicesInv, DevicesApart
  <2>6. /\ \A q \in Processors : proc[q].pc \in DevAddPCs => q = p
        /\ \A q \in Processors : proc'[q].pc \in DevAddPCs => q = p
    BY <2>2, <2>3 DEF DevicesInv, CreatesAlone
  <2>7. \A a \in Admins : \A e \in DevicesOf(a)' \ torn : e \in DevicesOf(a) /\ e # x
    BY <1>1, <2>4, <2>5, NoneAssumption DEF DevicesOf
  <2>8. CreatesAlone'
    BY <2>6 DEF CreatesAlone
  <2>9. PlaceFree'
    <3> SUFFICES ASSUME NEW e \in DevicesOf(proc[p].by)', e \notin torn
                 PROVE  ~(devBasic'[e].port = r.port /\ devBasic'[e].channel = r.channel)
      BY <1>1, <2>2, <2>6 DEF PlaceFree
    <3>1. proc[p].by \in Admins
      BY <2>3 DEF IInv, RequestsRight, WritePCs
    <3>2. e \in DevicesOf(proc[p].by) /\ e # x
      BY <1>1, <2>2, <2>4, <2>5, <3>1, NoneAssumption DEF DevicesOf
    <3>3. e \in Devices
      BY <3>2 DEF DevicesOf
    <3>4. QED
      BY <2>3, <2>4, <3>2, <3>3 DEF DevicesInv, PlaceFree
  <2>10. RowStored'
    BY <2>2, <2>4, <2>6 DEF RowStored, DevAddPCs
  <2>11. FolderFree'
    BY <2>2, <2>6 DEF FolderFree, DevAddPCs
  <2>12. \A e \in Devices : devBasic[e] # NoRow => devBasic[e].folder # r.folder
    BY <1>1 DEF DevicesInv, FolderFree
  <2>13. DevicesApart'
    <3>1. ASSUME NEW a \in Admins, NEW d \in DevicesOf(a)' \ torn', NEW e \in DevicesOf(a)' \ torn',
                 devBasic'[d].port = devBasic'[e].port, devBasic'[d].channel = devBasic'[e].channel
          PROVE  d = e
      <4>1. d \in DevicesOf(a) \ torn /\ e \in DevicesOf(a) \ torn /\ d # x /\ e # x
        BY <1>1, <2>7
      <4>2. devBasic'[d] = devBasic[d] /\ devBasic'[e] = devBasic[e]
        BY <2>4, <4>1 DEF DevicesOf
      <4>3. QED
        BY <3>1, <4>1, <4>2 DEF DevicesInv, DevicesApart
    <3>2. ASSUME NEW d \in Devices, NEW e \in Devices, devBasic'[d] # NoRow, devBasic'[e] # NoRow,
                 devBasic'[d].folder = devBasic'[e].folder
          PROVE  d = e
      BY <2>4, <2>12, <3>2 DEF DevicesInv, DevicesApart
    <3>3. QED
      BY <3>1, <3>2 DEF DevicesApart, DevicesOf
  <2>14. QED
    BY <2>8, <2>9, <2>10, <2>11, <2>13 DEF DevicesInv
<1>4. QED
  BY <1>2, <1>3 DEF DevAddBasic

(* The second INSERT: the place the device gets is still free. *)
LEMMA DevAddOwnerDevices ==
  ASSUME IInv, DevicesInv, NEW p \in Processors, DevAddOwner(p)
  PROVE  DevicesInv'
<1> DEFINE x == proc[p].uuid
<1>1. UNCHANGED <<devBasic, crowded>> /\ proc[p].pc = "devOwner" /\ Answer(p) /\ torn \subseteq torn'
  BY DEF DevAddOwner, Tear
<1>2. CreatesOn
  BY <1>1, AnswerCreates
<1>3. CASE UNCHANGED devOwner
  BY <1>1, <1>2, <1>3, DevicesStay
<1>4. CASE devOwner' = [devOwner EXCEPT ![proc[p].uuid] = proc[p].by] /\ torn' = torn
  <2>1. x \in Devices /\ proc[p].by \in Admins /\ proc[p].pc \in DevAddPCs
    BY <1>1 DEF IInv, RequestsRight, DevAddPCs, WritePCs
  <2>2. devOwner'[x] = proc[p].by /\ \A d \in Devices : d # x => devOwner'[d] = devOwner[d]
    BY <1>4, <2>1 DEF IInv, TypeOK
  <2>3. proc'[p].pc = "idle" /\ \A q \in Processors : q # p => proc'[q] = proc[q]
    BY <1>1 DEF Answer, Idle, IInv, TypeOK
  <2> SUFFICES ASSUME ~crowded PROVE DevicesInv'
    BY <1>1 DEF DevicesInv, DevicesApart
  <2>4. \A q \in Processors : proc'[q].pc \notin DevAddPCs
    BY <2>1, <2>3 DEF DevicesInv, CreatesAlone, DevAddPCs
  <2>5. CreatesAlone' /\ PlaceFree' /\ RowStored' /\ FolderFree'
    BY <2>4 DEF CreatesAlone, PlaceFree, RowStored, FolderFree, DevAddPCs
  <2>6. x \notin torn => devBasic[x] = proc[p].row
    BY <1>1 DEF DevicesInv, RowStored
  <2>7. \A e \in DevicesOf(proc[p].by) \ torn :
          ~(devBasic[e].port = proc[p].row.port /\ devBasic[e].channel = proc[p].row.channel)
    BY <2>1 DEF DevicesInv, PlaceFree
  <2>8. \A a \in Admins : \A e \in DevicesOf(a)' : e \in DevicesOf(a) \/ (e = x /\ a = proc[p].by)
    BY <1>1, <2>2 DEF DevicesOf
  <2>9. ASSUME NEW a \in Admins, NEW d \in DevicesOf(a)' \ torn', NEW e \in DevicesOf(a)' \ torn',
               devBasic'[d].port = devBasic'[e].port, devBasic'[d].channel = devBasic'[e].channel
        PROVE  d = e
    <3>1. d \notin torn /\ e \notin torn /\ devBasic' = devBasic
      BY <1>1, <1>4
    <3>2. CASE d \in DevicesOf(a) /\ e \in DevicesOf(a)
      BY <2>9, <3>1, <3>2 DEF DevicesInv, DevicesApart
    <3>3. CASE d = x /\ a = proc[p].by /\ e \in DevicesOf(a)
      BY <2>6, <2>7, <2>9, <3>1, <3>3
    <3>4. CASE e = x /\ a = proc[p].by /\ d \in DevicesOf(a)
      BY <2>6, <2>7, <2>9, <3>1, <3>4
    <3>5. QED
      BY <2>8, <3>2, <3>3, <3>4
  <2>10. DevicesApart'
    <3>1. \A d, e \in Devices : devBasic'[d] # NoRow /\ devBasic'[e] # NoRow
                                /\ devBasic'[d].folder = devBasic'[e].folder => d = e
      BY <1>1 DEF DevicesInv, DevicesApart
    <3>2. QED
      BY <2>9, <3>1 DEF DevicesApart, DevicesOf
  <2>11. QED
    BY <2>5, <2>10 DEF DevicesInv
<1>5. QED
  BY <1>3, <1>4 DEF DevAddOwner

(* The DELETEs: a row that waits for its owner is not among them, or torn. *)
LEMMA DevDelDevices ==
  ASSUME IInv, DevicesInv, NEW p \in Processors,
         DevDelBasic(p) \/ DevDelOwner(p) \/ DevUuid(p) \/ DevAdd(p)
         \/ \E a \in Admins, d \in Devices : DevDelete(p, a, d)
  PROVE  DevicesInv'
<1>1. CASE DevUuid(p) \/ DevAdd(p) \/ \E a \in Admins, d \in Devices : DevDelete(p, a, d)
  <2>1. UNCHANGED <<devBasic, devOwner, crowded>> /\ torn \subseteq torn'
    BY <1>1 DEF DevUuid, DevAdd, DevDelete, tables, Overlap
  <2>2. \/ Answer(p) \/ (\E a, d : Enter(p, "devDelBasic", a, d, NoRow))
        \/ (proc[p].pc = "devUuid" /\ Goto(p, "devFolder")) \/ (proc[p].pc = "devAdd" /\ Goto(p, "devBasic"))
    BY <1>1 DEF DevUuid, DevAdd, DevDelete
  <2>3. CreatesOn
    BY <2>2, AnswerCreates, GotoCreates, EnterCreates DEF DevAddPCs
  <2>4. QED
    BY <2>1, <2>3, DevicesStay
<1>2. CASE DevDelOwner(p)
  <2>1. UNCHANGED <<devBasic, crowded>> /\ Answer(p) /\ torn \subseteq torn'
    BY <1>2 DEF DevDelOwner, Tear
  <2>2. \A d \in Devices : devOwner'[d] = devOwner[d] \/ devOwner'[d] = Nobody
    BY <1>2 DEF DevDelOwner, IInv, TypeOK
  <2>3. QED
    BY <2>1, <2>2, AnswerCreates, DevicesStay
<1>3. CASE DevDelBasic(p)
  <2>1. UNCHANGED <<devOwner, crowded>> /\ Goto(p, "devDelOwner") /\ torn \subseteq torn' /\ proc[p].pc = "devDelBasic"
    BY <1>3 DEF DevDelBasic, Tear
  <2>2. CreatesOn
    BY <2>1, GotoCreates DEF DevAddPCs
  <2>3. /\ \A d \in Devices : devBasic'[d] = devBasic[d] \/ devBasic'[d] = NoRow
        /\ \A d \in Devices : d # proc[p].uuid => devBasic'[d] = devBasic[d]
    BY <1>3 DEF DevDelBasic, IInv, TypeOK
  <2>4. ASSUME NEW q \in Processors, proc'[q].pc = "devOwner", proc[q].uuid \notin torn'
        PROVE  devBasic'[proc[q].uuid] = devBasic[proc[q].uuid]
    <3>1. proc[q].pc = "devOwner" /\ q # p /\ proc[q].uuid \notin torn
      BY <2>1, <2>2, <2>4 DEF CreatesOn, DevAddPCs
    <3>2. proc[q].uuid # proc[p].uuid /\ proc[q].uuid \in Devices
      BY <2>1, <3>1 DEF IInv, OneWriter, RequestsRight, WritePCs, DevAddPCs, DevDelPCs
    <3>3. QED
      BY <2>3, <3>2
  <2>5. QED
    BY <2>1, <2>2, <2>3, <2>4, DevicesStay
<1>4. QED
  BY <1>1, <1>2, <1>3

(* Every step keeps DevicesInv. *)
LEMMA DevicesStep == IInv /\ DevicesInv /\ [Next]_vars => DevicesInv'
<1> SUFFICES ASSUME IInv, DevicesInv, [Next]_vars PROVE DevicesInv'
  OBVIOUS
<1>1. CASE UNCHANGED vars
  <2>1. CreatesOn /\ torn' = torn /\ UNCHANGED <<devBasic, devOwner, crowded>>
    BY <1>1 DEF CreatesOn, vars, tables
  <2>2. QED
    BY <2>1, DevicesStay
<1>2. CASE Die
  <2>1. CreatesOn /\ torn \subseteq torn' /\ UNCHANGED <<devBasic, devOwner, crowded>>
    BY <1>2 DEF CreatesOn, Die, Idle, tables, DevAddPCs
  <2>2. QED
    BY <2>1, DevicesStay
<1>3. ASSUME NEW p \in Processors, DeviceRequest(p) \/ DeviceStep(p) PROVE DevicesInv'
  BY <1>3, DevCreateDevices, DevFolderDevices, DevAddBasicDevices, DevAddOwnerDevices, DevDelDevices
     DEF DeviceRequest, DeviceStep
<1>4. QED
  BY <1>1, <1>2, <1>3, DevicesOther DEF Next

(***************************************************************************)
(* The checks of req_device_create and db_account_device_add keep the      *)
(* devices apart when one device is created at a time, whatever else is    *)
(* deleted, fails or dies meanwhile, although the second comparison of     *)
(* port and channel is given the port twice.                               *)
(***************************************************************************)
THEOREM DevicesStayApart == Spec => []DevicesApart
<1>1. Init => DevicesInv
  <2> SUFFICES ASSUME Init PROVE DevicesInv
    OBVIOUS
  <2>1. \A p \in Processors : proc[p].pc = "idle"
    BY DEF Init, Idle
  <2>2. \A d \in Devices : devBasic[d] = NoRow
    BY DEF Init
  <2>3. CreatesAlone /\ PlaceFree /\ RowStored /\ FolderFree
    BY <2>1 DEF CreatesAlone, PlaceFree, RowStored, FolderFree, DevAddPCs
  <2>4. DevicesApart
    BY <2>2 DEF DevicesApart, DevicesOf
  <2>5. QED
    BY <2>3, <2>4 DEF DevicesInv
<1>2. DevicesInv => DevicesApart
  BY DEF DevicesInv
<1>3. QED
  BY <1>1, <1>2, DevicesStep, Invariance, PTL DEF Spec
=============================================================================
