---------------------------- MODULE ServerProofs ----------------------------
(***************************************************************************)
(* Machine-checked proofs about parts of the server: the database and its  *)
(* lock (AdminDb), the list of children (ChildList), the devices that are  *)
(* played (DeviceSession), start and stop (Service) and the hours of a     *)
(* recording (DayHours).                                                   *)
(***************************************************************************)
EXTENDS AdminDb, ChildList, DeviceSession, Service, DayHours, FiniteSetTheorems, SequenceTheorems, WellFoundedInduction, TLAPS

-----------------------------------------------------------------------------
(* The calls of the database and its lock (AdminDb) *)

(* The statements that write or find, and the two queries of a list *)
RowType == [uuid : Owners \cup Others \cup Cameras, ref : Owners \cup {NoOne}]
PlainStatements ==
  [op : {"insert"}, table : AllTables, row : RowType, must : BOOLEAN]
    \cup [op : {"delete"}, table : AllTables, from : AllTables, column : {"uuid", "ref"}, value : Owners, must : BOOLEAN]
    \cup [op : {"find"}, table : AllTables, uuid : Owners, iffound : Nat, ifnone : Nat]
    \cup [op : {"create", "drop"}, table : AllTables]
ListStatements == [op : {"count", "fetch"}, table : AllTables, from : AllTables, of : Owners \cup {NoOne}]
Statements == PlainStatements \cup ListStatements

Scripts == Seq(Statements)
Names == {"none", "tables", "add", "delete", "child", "device", "list"}

CallType ==
  [todo : Scripts, at : {"wait", "locked", "executed"}, then : Scripts,
   about : Owners \cup {NoOne}, name : Names,
   count : Nat, left : SUBSET (Owners \cup Others \cup Cameras),
   got : SUBSET (Owners \cup Others \cup Cameras), stale : BOOLEAN]

DbTypes ==
  /\ lock \in Threads \cup {NoOne}
  /\ thr \in [Threads -> CallType]
  /\ rowsOf \in [AllTables -> SUBSET RowType]

(* What Head, Tail and Skip give of a sequence of statements *)
LEMMA SuffixFacts ==
  ASSUME NEW S, NEW s \in Seq(S)
  PROVE  /\ s # <<>> => Head(s) \in S /\ Tail(s) \in Seq(S)
         /\ \A n \in Nat : Skip(s, n) \in Seq(S)
<1>1. s # <<>> => Head(s) \in S /\ Tail(s) \in Seq(S)
  OBVIOUS
<1>2. ASSUME NEW n \in Nat PROVE Skip(s, n) \in Seq(S)
  BY DEF Skip
<1>3. QED
  BY <1>1, <1>2

(* The two queries of a list *)
ListScript(s) ==
  \E table \in AllTables, from \in AllTables, a \in Owners \cup {NoOne} :
    s = <<Select("count", table, from, a), Select("fetch", table, from, a)>>

(* What the calls of thread t are: a name, whom it is about, and its statements *)
Begins(t) ==
  \E name \in Names, a \in Owners \cup {NoOne}, s \in Scripts :
    Call(t, name, a, s) /\ (s \in Seq(PlainStatements) \/ ListScript(s))

(* Sequences of S, one after the other *)
LEMMA ConcatFacts ==
  ASSUME NEW S, NEW s \in Seq(S), NEW r \in Seq(S)
  PROVE  s \o r \in Seq(S)
OBVIOUS

(* Pieces of scripts are sequences of statements. *)
LEMMA Pieces ==
  ASSUME NEW a \in Owners
  PROVE  license_del(a) \in Seq(PlainStatements) /\ license_set(a) \in Seq(PlainStatements)
           /\ child_del_all(a) \in Seq(PlainStatements) /\ device_del_all(a) \in Seq(PlainStatements)
<1>1. license_del(a) \in Seq(PlainStatements)
  BY DEF license_del, Find, DeleteRows, DeleteIn, PlainStatements, AllTables
<1>2. <<Find("admin", a, 0, 2)>> \in Seq(PlainStatements)
  BY DEF Find, PlainStatements, AllTables
<1>3. <<Insert("admin", a, NoOne, FALSE)>> \in Seq(PlainStatements)
  BY DEF Insert, Row, RowType, PlainStatements, AllTables
<1>4. child_del_all(a) \in Seq(PlainStatements)
  BY DEF child_del_all, DeleteRows, DeleteIn, PlainStatements, AllTables
<1>5. device_del_all(a) \in Seq(PlainStatements)
  BY DEF device_del_all, DeleteRows, DeleteIn, PlainStatements, AllTables
<1>6. license_set(a) \in Seq(PlainStatements)
  <2>1. <<Find("admin", a, 0, 2)>> \o license_del(a) \in Seq(PlainStatements)
    BY <1>1, <1>2, ConcatFacts
  <2>2. QED
    BY <1>3, <2>1, ConcatFacts DEF license_set
<1>7. QED
  BY <1>1, <1>4, <1>5, <1>6

(* Plain statements make a script. *)
LEMMA PlainSeq ==
  ASSUME NEW s \in Seq(PlainStatements)
  PROVE  s \in Scripts
BY DEF Scripts, Statements

(* Each call of a manager starts with a script and takes no lock yet. *)
LEMMA ManageBegins ==
  ASSUME NEW t \in Managers, Manage(t)
  PROVE  Begins(t)
<1>1. CASE db_account_ensure_table_exist(t)
  <2>1. <<CreateTable("basic"), CreateTable("admin"), CreateTable("child"), CreateTable("devBasic"), CreateTable("devOwner")>>
          \in Seq(PlainStatements)
    BY DEF CreateTable, PlainStatements, AllTables
  <2>2. QED
    BY <1>1, <2>1, PlainSeq DEF db_account_ensure_table_exist, Begins, Names
<1>2. CASE db_account_reset(t)
  <2>1. <<Drop("admin"), Drop("admin"), Drop("child"), Drop("devBasic"), Drop("devOwner")>> \in Seq(PlainStatements)
    BY DEF Drop, PlainStatements, AllTables
  <2>2. QED
    BY <1>2, <2>1, PlainSeq DEF db_account_reset, Begins, Names
<1>3. ASSUME NEW a \in Owners, db_account_admin_add(t, a) PROVE Begins(t)
  <2>1. <<Find("admin", a, 5, 0), Insert("basic", a, NoOne, FALSE)>> \in Seq(PlainStatements)
    BY DEF Find, Insert, Row, RowType, PlainStatements, AllTables
  <2>2. <<Find("admin", a, 5, 0), Insert("basic", a, NoOne, FALSE)>> \o license_set(a) \in Seq(PlainStatements)
    BY <2>1, Pieces, ConcatFacts
  <2>3. QED
    BY <1>3, <2>2, PlainSeq DEF db_account_admin_add, Begins, Names
<1>4. ASSUME NEW a \in Owners, db_account_license_set(t, a) PROVE Begins(t)
  BY <1>4, Pieces, PlainSeq DEF db_account_license_set, Begins, Names
<1>5. ASSUME NEW a \in Owners, db_account_admin_del(t, a) PROVE Begins(t)
  <2>1. <<DeleteRows("basic", "uuid", a, FALSE), DeleteRows("admin", "uuid", a, TRUE)>> \in Seq(PlainStatements)
    BY DEF DeleteRows, DeleteIn, PlainStatements, AllTables
  <2>2. <<DeleteRows("basic", "uuid", a, FALSE), DeleteRows("admin", "uuid", a, TRUE)>>
          \o license_del(a) \o child_del_all(a) \o device_del_all(a) \in Seq(PlainStatements)
    <3>1. <<DeleteRows("basic", "uuid", a, FALSE), DeleteRows("admin", "uuid", a, TRUE)>> \o license_del(a)
            \in Seq(PlainStatements)
      BY <2>1, Pieces, ConcatFacts
    <3>2. (<<DeleteRows("basic", "uuid", a, FALSE), DeleteRows("admin", "uuid", a, TRUE)>> \o license_del(a))
            \o child_del_all(a) \in Seq(PlainStatements)
      BY <3>1, Pieces, ConcatFacts
    <3>3. QED
      BY <3>2, Pieces, ConcatFacts
  <2>3. QED
    BY <1>5, <2>2, PlainSeq DEF db_account_admin_del, Begins, Names
<1>6. QED
  BY <1>1, <1>2, <1>3, <1>4, <1>5 DEF Manage

(* So does a list, ... *)
LEMMA ListBegins ==
  ASSUME NEW t \in Threads, NEW a \in Owners \cup {NoOne}, NEW table \in AllTables, NEW from \in AllTables,
         List(t, a, table, from)
  PROVE  Begins(t)
<1>1. <<Select("count", table, from, a), Select("fetch", table, from, a)>> \in Scripts
  BY DEF Select, Scripts, Statements, ListStatements
<1>2. QED
  BY <1>1 DEF List, Begins, Names, ListScript

(* ... and each call of a request. *)
LEMMA ServeBegins ==
  ASSUME NEW t \in Threads, Serve(t)
  PROVE  Begins(t)
<1>1. ASSUME NEW a \in Owners, NEW u \in Others, db_account_child_add(t, a, u) PROVE Begins(t)
  <2>1. <<Find("basic", a, 0, 2), Insert("basic", u, NoOne, TRUE), Insert("child", u, a, TRUE)>> \in Seq(PlainStatements)
    BY DEF Find, Insert, Row, RowType, PlainStatements, AllTables
  <2>2. QED
    BY <1>1, <2>1, PlainSeq DEF db_account_child_add, Begins, Names
<1>2. ASSUME NEW a \in Owners, NEW d \in Cameras, db_account_device_add(t, a, d) PROVE Begins(t)
  <2>1. <<Find("basic", a, 0, 3), Find("admin", a, 0, 2),
          Insert("devBasic", d, NoOne, TRUE), Insert("devOwner", d, a, TRUE)>> \in Seq(PlainStatements)
    BY DEF Find, Insert, Row, RowType, PlainStatements, AllTables
  <2>2. QED
    BY <1>2, <2>1, PlainSeq DEF db_account_device_add, Begins, Names
<1>3. ASSUME NEW a \in Owners, db_account_list_child_get(t, a) \/ db_account_device_get(t, a) PROVE Begins(t)
  BY <1>3, ListBegins DEF db_account_list_child_get, db_account_device_get, AllTables
<1>4. CASE db_account_list_admin_get(t)
  BY <1>4, ListBegins DEF db_account_list_admin_get, AllTables
<1>5. QED
  BY <1>1, <1>2, <1>3, <1>4 DEF Serve


(* The rows a statement that writes leaves are rows. *)
LEMMA AfterFacts ==
  ASSUME DbTypes, NEW s \in PlainStatements, s.op \in {"insert", "delete", "create", "drop"}
  PROVE  s.table \in AllTables /\ After(s) \in SUBSET RowType
<1>1. CASE s.op = "insert"
  BY <1>1 DEF DbTypes, PlainStatements, After
<1>2. CASE s.op = "delete"
  BY <1>2 DEF DbTypes, PlainStatements, After
<1>3. CASE s.op \in {"create", "drop"}
  BY <1>3 DEF DbTypes, PlainStatements, After
<1>4. QED
  BY <1>1, <1>2, <1>3

(* The current statement of a call that has one *)
LEMMA HeadFacts ==
  ASSUME DbTypes, NEW t \in Threads, Busy(t)
  PROVE  /\ thr[t] \in CallType
         /\ Head(thr[t].todo) \in Statements
         /\ Tail(thr[t].todo) \in Scripts
BY SuffixFacts DEF DbTypes, CallType, Busy, Scripts

(* A call that begins, and one that goes on, is a call. *)
LEMMA EmptyScript == <<>> \in Scripts
BY DEF Scripts

(* A thread that calls nothing *)
LEMMA NoCallType == NoCall \in CallType
<1>1. PICK no \in BOOLEAN : no = FALSE
  OBVIOUS
<1>2. NoCall = [todo |-> <<>>, at |-> "wait", then |-> <<>>, about |-> NoOne, name |-> "none",
                count |-> 0, left |-> {}, got |-> {}, stale |-> no]
  BY <1>1, Zenon DEF NoCall
<1>3. QED
  BY <1>2, EmptyScript DEF CallType, Names

(* The fields that the steps of a call change *)
LEMMA CallUpdates ==
  ASSUME NEW c \in CallType
  PROVE  /\ [c EXCEPT !.at = "locked"] \in CallType
         /\ \A s \in Scripts, a \in Owners \cup {NoOne}, name \in Names :
              [c EXCEPT !.todo = s, !.about = a, !.name = name] \in CallType
         /\ \A s \in Scripts : [c EXCEPT !.at = "executed", !.then = s] \in CallType
         /\ \A s \in Scripts : [c EXCEPT !.todo = s, !.at = "wait", !.then = <<>>] \in CallType
         /\ \A l \in SUBSET (Owners \cup Others \cup Cameras) : [c EXCEPT !.left = l] \in CallType
         /\ \A l, g \in SUBSET (Owners \cup Others \cup Cameras), n \in Nat :
              [c EXCEPT !.left = l, !.count = n, !.got = g] \in CallType
<1>1. [c EXCEPT !.at = "locked"] \in CallType
  BY DEF CallType
<1>2. ASSUME NEW s \in Scripts, NEW a \in Owners \cup {NoOne}, NEW name \in Names
      PROVE  [c EXCEPT !.todo = s, !.about = a, !.name = name] \in CallType
  BY DEF CallType
<1>3. ASSUME NEW s \in Scripts PROVE [c EXCEPT !.at = "executed", !.then = s] \in CallType
  BY DEF CallType
<1>4. ASSUME NEW s \in Scripts PROVE [c EXCEPT !.todo = s, !.at = "wait", !.then = <<>>] \in CallType
  BY EmptyScript DEF CallType
<1>5. ASSUME NEW l \in SUBSET (Owners \cup Others \cup Cameras) PROVE [c EXCEPT !.left = l] \in CallType
  BY DEF CallType
<1>6. ASSUME NEW l \in SUBSET (Owners \cup Others \cup Cameras), NEW g \in SUBSET (Owners \cup Others \cup Cameras),
             NEW n \in Nat
      PROVE  [c EXCEPT !.left = l, !.count = n, !.got = g] \in CallType
  BY DEF CallType
<1>7. QED
  BY <1>1, <1>2, <1>3, <1>4, <1>5, <1>6

(* The record of one thread changes. *)
LEMMA ThrUpdate ==
  ASSUME DbTypes, NEW t \in Threads, NEW c \in CallType, thr' = [thr EXCEPT ![t] = c],
         lock' \in Threads \cup {NoOne}, rowsOf' = rowsOf
  PROVE  DbTypes'
BY DEF DbTypes

(* The types hold at the start. *)
LEMMA DbTypesInit == DbInit => DbTypes
BY NoCallType DEF DbInit, DbTypes

(* Every step keeps the types. *)
LEMMA DbTypesStep == DbTypes /\ [DbNext]_dbVars => DbTypes'
<1> SUFFICES ASSUME DbTypes, [DbNext]_dbVars PROVE DbTypes'
  OBVIOUS
<1>1. ASSUME NEW t \in Threads, Begins(t) PROVE DbTypes'
  <2>1. PICK name \in Names, a \in Owners \cup {NoOne}, s \in Scripts : Call(t, name, a, s)
    BY <1>1 DEF Begins
  <2>2. [NoCall EXCEPT !.todo = s, !.about = a, !.name = name] \in CallType
    BY NoCallType, CallUpdates
  <2>3. QED
    BY <2>1, <2>2 DEF Call, DbTypes
<1>2. CASE sql_init_sqlite \/ sql_clean_sqlite \/ UNCHANGED dbVars
  BY <1>2 DEF sql_init_sqlite, sql_clean_sqlite, dbVars, DbTypes
<1>3. ASSUME NEW t \in Threads, sql_create_new_sqlite(t) PROVE DbTypes'
  BY <1>3, CallUpdates DEF sql_create_new_sqlite, DbTypes
<1>4. ASSUME NEW t \in Threads, NoHandle(t) PROVE DbTypes'
  BY <1>4, NoCallType DEF NoHandle, DbTypes
<1>5. ASSUME NEW t \in Threads, Write(t) PROVE DbTypes'
  <2> DEFINE s == Head(thr[t].todo)
  <2>1. Busy(t) /\ s.op \in {"insert", "delete", "create", "drop"}
    BY <1>5 DEF Write
  <2>2. s \in PlainStatements
    BY <2>1, HeadFacts DEF Statements, ListStatements
  <2>3. rowsOf' \in [AllTables -> SUBSET RowType]
    BY <1>5, <2>1, <2>2, AfterFacts DEF Write, DbTypes
  <2>4. Executed(t, Tail(thr[t].todo)) \in CallType
    BY <2>1, HeadFacts DEF Executed, CallType
  <2>5. \A q \in Threads : \A b \in BOOLEAN : [thr[q] EXCEPT !.stale = b] \in CallType
    BY DEF DbTypes, CallType
  <2>6. ASSUME NEW q \in Threads
        PROVE  [thr[q] EXCEPT !.stale = @ \/ (Busy(q) /\ Head(thr[q].todo).op = "fetch")] \in CallType
    <3>1. (thr[q].stale \/ (Busy(q) /\ Head(thr[q].todo).op = "fetch")) \in BOOLEAN
      OBVIOUS
    <3>2. QED
      BY <2>5, <3>1
  <2>7. thr' \in [Threads -> CallType]
    BY <1>5, <2>4, <2>6 DEF Write
  <2>8. QED
    BY <1>5, <2>3, <2>7 DEF Write, DbTypes
<1>6. ASSUME NEW t \in Threads, WriteFails(t) PROVE DbTypes'
  <2> DEFINE r == IF Head(thr[t].todo).must THEN <<>> ELSE Tail(thr[t].todo)
  <2>1. r \in Scripts /\ thr' = [thr EXCEPT ![t] = Executed(t, r)]
    BY <1>6, HeadFacts, EmptyScript DEF WriteFails
  <2> HIDE DEF r
  <2>2. Executed(t, r) \in CallType
    BY <2>1, CallUpdates DEF Executed, DbTypes
  <2>3. QED
    BY <1>6, <2>1, <2>2 DEF WriteFails, DbTypes
<1>7. ASSUME NEW t \in Threads, FindRow(t) PROVE DbTypes'
  <2> DEFINE s == Head(thr[t].todo)
  <2>1. s \in Statements /\ s.op = "find" /\ Tail(thr[t].todo) \in Scripts
    BY <1>7, HeadFacts DEF FindRow
  <2>2. s.iffound \in Nat /\ s.ifnone \in Nat
    BY <2>1 DEF Statements, PlainStatements, ListStatements
  <2>3. PICK r \in Scripts : thr' = [thr EXCEPT ![t] = Executed(t, r)]
    BY <1>7, <2>1, <2>2, SuffixFacts DEF FindRow, Scripts
  <2>4. Executed(t, r) \in CallType
    BY <2>3, CallUpdates DEF Executed, DbTypes
  <2>5. QED
    BY <1>7, <2>3, <2>4 DEF FindRow, DbTypes
<1>8. ASSUME NEW t \in Threads, QueryRows(t) PROVE DbTypes'
  <2> DEFINE s == Head(thr[t].todo)
  <2>1. s \in Statements /\ s.op \in {"count", "fetch"} /\ Tail(thr[t].todo) \in Scripts
    BY <1>8, HeadFacts DEF QueryRows
  <2>2. Result(s) \in SUBSET (Owners \cup Others \cup Cameras)
    BY <2>1 DEF Statements, PlainStatements, ListStatements, Result, UuidsOf, DbTypes, RowType
  <2> DEFINE r == IF Result(s) = {} THEN <<>> ELSE Tail(thr[t].todo)
  <2>3. r \in Scripts /\ thr' = [thr EXCEPT ![t] = [Executed(t, r) EXCEPT !.left = Result(s)]]
    BY <1>8, <2>1, EmptyScript DEF QueryRows
  <2> HIDE DEF r
  <2>4. Executed(t, r) \in CallType
    BY <2>3, CallUpdates DEF Executed, DbTypes
  <2>5. [Executed(t, r) EXCEPT !.left = Result(s)] \in CallType
    BY <2>2, <2>4, CallUpdates
  <2>6. QED
    BY <1>8, <2>3, <2>5 DEF QueryRows, DbTypes
<1>9. ASSUME NEW t \in Threads, sql_fetch_row_sqlite(t) PROVE DbTypes'
  <2>1. PICK u \in thr[t].left :
          thr' = [thr EXCEPT ![t].left = @ \ {u}, ![t].count = IF Head(thr[t].todo).op = "count" THEN @ + 1 ELSE @,
                             ![t].got = IF Head(thr[t].todo).op = "fetch" THEN @ \cup {u} ELSE @]
    BY <1>9 DEF sql_fetch_row_sqlite
  <2>2. thr[t] \in CallType /\ u \in Owners \cup Others \cup Cameras
    BY <2>1 DEF DbTypes, CallType
  <2>3. PICK n \in Nat : n = IF Head(thr[t].todo).op = "count" THEN thr[t].count + 1 ELSE thr[t].count
    BY <2>2 DEF CallType
  <2>4. PICK g \in SUBSET (Owners \cup Others \cup Cameras) :
           g = IF Head(thr[t].todo).op = "fetch" THEN thr[t].got \cup {u} ELSE thr[t].got
    BY <2>2 DEF CallType
  <2>5. thr' = [thr EXCEPT ![t] = [thr[t] EXCEPT !.left = thr[t].left \ {u}, !.count = n, !.got = g]]
    BY <2>1, <2>3, <2>4
  <2>6. thr[t].left \ {u} \in SUBSET (Owners \cup Others \cup Cameras)
    BY <2>2 DEF CallType
  <2>7. [thr[t] EXCEPT !.left = thr[t].left \ {u}, !.count = n, !.got = g] \in CallType
    BY <2>2, <2>6, CallUpdates
  <2>8. QED
    BY <1>9, <2>5, <2>7 DEF sql_fetch_row_sqlite, DbTypes
<1>10. ASSUME NEW t \in Threads, sql_free_sqlite(t) PROVE DbTypes'
  <2>1. thr[t] \in CallType /\ thr[t].then \in Scripts
    BY DEF DbTypes, CallType
  <2>2. [thr[t] EXCEPT !.todo = thr[t].then, !.at = "wait", !.then = <<>>] \in CallType
    BY <2>1, CallUpdates
  <2>3. QED
    BY <1>10, <2>2, NoCallType DEF sql_free_sqlite, Over, DbTypes
<1>11. QED
  BY <1>1, <1>2, <1>3, <1>4, <1>5, <1>6, <1>7, <1>8, <1>9, <1>10, ManageBegins, ServeBegins, ManagersAssumption
  DEF DbNext, Statement

(* Where a step moves thread t, and with it the lock *)
LEMMA LockMoves ==
  ASSUME DbTypes, LockOwned, NEW t \in Threads,
         \A q \in Threads \ {t} : thr'[q].todo = thr[q].todo /\ thr'[q].at = thr[q].at,
         \/ lock' = lock /\ (Busy(t) /\ thr[t].at # "wait") = (Busy(t)' /\ thr'[t].at # "wait")
         \/ lock = NoOne /\ lock' = t /\ Busy(t)' /\ thr'[t].at = "locked"
         \/ lock = t /\ lock' = NoOne /\ ~(Busy(t)' /\ thr'[t].at # "wait"),
         thr'[t].at \in {"wait", "locked", "executed"}
  PROVE  LockOwned'
<1>1. \A q \in Threads : thr[q].at \in {"wait", "locked", "executed"}
  BY DEF DbTypes, CallType
<1>2. NoOne \notin Threads
  BY UuidsAssumption
<1>3. QED
  BY <1>1, <1>2 DEF LockOwned, Busy

(* Every step keeps the lock with its owner. *)
LEMMA LockStep == DbTypes /\ LockOwned /\ [DbNext]_dbVars => LockOwned'
<1> SUFFICES ASSUME DbTypes, LockOwned, [DbNext]_dbVars PROVE LockOwned'
  OBVIOUS
<1>1. ASSUME NEW t \in Threads, Begins(t) PROVE LockOwned'
  <2>1. PICK name \in Names, a \in Owners \cup {NoOne}, s \in Scripts : Call(t, name, a, s)
    BY <1>1 DEF Begins
  <2>2. [NoCall EXCEPT !.todo = s, !.about = a, !.name = name].at = "wait"
    BY DEF NoCall
  <2>3. ~Busy(t) /\ lock' = lock /\ thr' = [thr EXCEPT ![t] = [NoCall EXCEPT !.todo = s, !.about = a, !.name = name]]
    BY <2>1 DEF Call
  <2>4. thr'[t].at = "wait" /\ \A q \in Threads \ {t} : thr'[q] = thr[q]
    BY <2>2, <2>3 DEF DbTypes
  <2>5. QED
    BY <2>3, <2>4, LockMoves
<1>2. CASE sql_init_sqlite \/ sql_clean_sqlite \/ UNCHANGED dbVars
  BY <1>2 DEF sql_init_sqlite, sql_clean_sqlite, dbVars, LockOwned, Busy
<1>3. ASSUME NEW t \in Threads, sql_create_new_sqlite(t) PROVE LockOwned'
  <2>1. thr'[t].at = "locked" /\ thr'[t].todo = thr[t].todo /\ \A q \in Threads \ {t} : thr'[q] = thr[q]
    BY <1>3 DEF sql_create_new_sqlite, DbTypes, CallType
  <2>2. Busy(t)'
    BY <1>3, <2>1 DEF sql_create_new_sqlite, Busy
  <2>3. QED
    BY <1>3, <2>1, <2>2, LockMoves DEF sql_create_new_sqlite
<1>4. ASSUME NEW t \in Threads, NoHandle(t) PROVE LockOwned'
  <2>1. thr'[t].at = "wait" /\ \A q \in Threads \ {t} : thr'[q] = thr[q]
    BY <1>4 DEF NoHandle, DbTypes, NoCall
  <2>2. QED
    BY <1>4, <2>1, LockMoves DEF NoHandle
<1>5. ASSUME NEW t \in Threads, Write(t) \/ WriteFails(t) \/ FindRow(t) \/ QueryRows(t) PROVE LockOwned'
  <2>1. Busy(t) /\ thr[t].at = "locked" /\ lock' = lock
    BY <1>5 DEF Write, WriteFails, FindRow, QueryRows
  <2>2. \A r : Executed(t, r).at = "executed" /\ Executed(t, r).todo = thr[t].todo
    BY DEF Executed, DbTypes, CallType
  <2>3. \A r, l : [Executed(t, r) EXCEPT !.left = l].at = "executed" /\ [Executed(t, r) EXCEPT !.left = l].todo = thr[t].todo
    BY DEF Executed, DbTypes, CallType
  <2>4. thr'[t].at = "executed" /\ thr'[t].todo = thr[t].todo
    <3>1. CASE Write(t)
      BY <2>2, <3>1 DEF Write
    <3>2. CASE WriteFails(t) \/ FindRow(t)
      BY <2>2, <3>2 DEF WriteFails, FindRow, DbTypes
    <3>3. CASE QueryRows(t)
      BY <2>3, <3>3 DEF QueryRows, DbTypes
    <3>4. QED
      BY <1>5, <3>1, <3>2, <3>3
  <2>5. \A q \in Threads \ {t} : thr'[q].todo = thr[q].todo /\ thr'[q].at = thr[q].at
    <3>1. CASE Write(t)
      BY <3>1 DEF Write, DbTypes, CallType
    <3>2. CASE WriteFails(t) \/ FindRow(t) \/ QueryRows(t)
      BY <3>2 DEF WriteFails, FindRow, QueryRows, DbTypes
    <3>3. QED
      BY <1>5, <3>1, <3>2
  <2>6. QED
    BY <2>1, <2>4, <2>5, LockMoves DEF Busy
<1>6. ASSUME NEW t \in Threads, sql_fetch_row_sqlite(t) PROVE LockOwned'
  <2>1. thr'[t].at = thr[t].at /\ thr'[t].todo = thr[t].todo /\ lock' = lock /\ \A q \in Threads \ {t} : thr'[q] = thr[q]
    BY <1>6 DEF sql_fetch_row_sqlite, DbTypes, CallType
  <2>2. thr'[t].at \in {"wait", "locked", "executed"}
    BY <2>1 DEF DbTypes, CallType
  <2>3. QED
    BY <2>1, <2>2, LockMoves DEF Busy
<1>7. ASSUME NEW t \in Threads, sql_free_sqlite(t) PROVE LockOwned'
  <2>1. thr'[t].at = "wait" /\ \A q \in Threads \ {t} : thr'[q] = thr[q]
    BY <1>7 DEF sql_free_sqlite, Over, NoCall, DbTypes, CallType
  <2>2. lock = t
    BY <1>7 DEF sql_free_sqlite, LockOwned
  <2>3. QED
    BY <1>7, <2>1, <2>2, LockMoves DEF sql_free_sqlite
<1>8. QED
  BY <1>1, <1>2, <1>3, <1>4, <1>5, <1>6, <1>7, ManageBegins, ServeBegins, ManagersAssumption DEF DbNext, Statement

(***************************************************************************)
(* For all sets of threads, admins, accounts and devices: access_lock      *)
(* belongs to the thread whose statement is being executed and to nobody   *)
(* else, on all paths of all calls.                                        *)
(***************************************************************************)
THEOREM LockIsOwned == DbSpec => []LockOwned
<1>1. DbInit => LockOwned
  BY UuidsAssumption DEF DbInit, LockOwned, Busy, NoCall
<1>2. QED
  BY <1>1, DbTypesInit, DbTypesStep, LockStep, PTL DEF DbSpec

(* The two queries of one list *)
Pair(s1, s2) ==
  /\ s1 \in ListStatements /\ s1.op = "count"
  /\ s2 \in ListStatements /\ s2.op = "fetch"
  /\ s1.table = s2.table /\ s1.from = s2.from /\ s1.of = s2.of

(* Call c is about to count, or counts, the rows R. *)
CountingAt(c, s1, s2, R) ==
  /\ c.todo = <<s1, s2>> /\ c.got = {}
  /\ \/ c.at \in {"wait", "locked"} /\ c.left = {} /\ c.count = 0
     \/ /\ c.at = "executed" /\ c.then \in {<<>>, <<s2>>}
        /\ IsFiniteSet(c.left) /\ c.count + Cardinality(c.left) = Cardinality(R)

(* It has counted them and is about to fetch, or fetches, them. *)
FetchingAt(c, s2, R) ==
  /\ c.todo = <<s2>> /\ c.then = <<>>
  /\ c.at = "executed" \/ (c.left = {} /\ c.got = {})
  /\ c.stale = FALSE => c.count = Cardinality(R) /\ (c.at = "executed" => c.got \cup c.left = R)

PlainCall(c) == c.todo \in Seq(PlainStatements) /\ c.then \in Seq(PlainStatements) /\ c.left = {}

(***************************************************************************)
(* The invariant ListWhole needs, beside LockOwned: what each thread has   *)
(* counted and fetched is what its query has, from the query to the count, *)
(* over the gap in which the lock is free, to the end.  A thread in the    *)
(* count holds the lock, so that no other one writes meanwhile.            *)
(***************************************************************************)
ListOk(t) ==
  \/ PlainCall(thr[t])
  \/ \E s1, s2 \in ListStatements :
       Pair(s1, s2) /\ (CountingAt(thr[t], s1, s2, Result(s2)) \/ FetchingAt(thr[t], s2, Result(s2)))

ListInv ==
  /\ \A table \in AllTables : IsFiniteSet(rowsOf[table])
  /\ \A t \in Threads : ListOk(t)

(* A statement selects finitely many rows. *)
LEMMA ResultFinite ==
  ASSUME DbTypes, ListInv, NEW s \in ListStatements
  PROVE  IsFiniteSet(Result(s)) /\ Cardinality(Result(s)) \in Nat
<1>1. s.table \in AllTables
  BY DEF ListStatements
<1>2. IsFiniteSet(UuidsOf(s.table))
  <2> DEFINE f == [r \in rowsOf[s.table] |-> r.uuid]
  <2>1. f \in Surjection(rowsOf[s.table], UuidsOf(s.table))
    BY DEF UuidsOf, Surjection
  <2>2. QED
    BY <1>1, <2>1, FS_Surjection DEF ListInv
<1>3. Result(s) \subseteq UuidsOf(s.table)
  BY DEF Result
<1>4. QED
  BY <1>2, <1>3, FS_Subset, FS_CardinalityType

(* A list has the same rows in both of its queries. *)
LEMMA SameResult ==
  ASSUME NEW s1, NEW s2, Pair(s1, s2)
  PROVE  Result(s1) = Result(s2)
BY DEF Pair, Result

(* A step that leaves the rows alone leaves the others' lists alone. *)
LEMMA ListFrame ==
  ASSUME ListInv, rowsOf' = rowsOf, NEW t \in Threads,
         \A q \in Threads \ {t} : thr'[q] = thr[q],
         ListOk(t)'
  PROVE  ListInv'
<1>1. \A s : Result(s)' = Result(s)
  BY DEF Result, UuidsOf
<1>2. ASSUME NEW q \in Threads, q # t PROVE ListOk(q)'
  BY <1>1, <1>2 DEF ListInv, ListOk
<1>3. QED
  BY <1>2 DEF ListInv

(* What the head of a call says about its kind *)
LEMMA KindOfCall ==
  ASSUME DbTypes, ListInv, NEW t \in Threads, Busy(t)
  PROVE  /\ Head(thr[t].todo).op \in {"insert", "delete", "create", "drop", "find"} => PlainCall(thr[t])
         /\ Head(thr[t].todo).op \in {"count", "fetch"} => ~PlainCall(thr[t])
<1>1. \A s1, s2 : Head(<<s1, s2>>) = s1 /\ Head(<<s2>>) = s2
  OBVIOUS
<1>2. Head(thr[t].todo).op \in {"insert", "delete", "create", "drop", "find"} => PlainCall(thr[t])
  <2>1. ASSUME ~PlainCall(thr[t]) PROVE Head(thr[t].todo).op \in {"count", "fetch"}
    <3>1. PICK s1, s2 \in ListStatements : Pair(s1, s2) /\ (thr[t].todo = <<s1, s2>> \/ thr[t].todo = <<s2>>)
      BY <2>1 DEF ListInv, ListOk, CountingAt, FetchingAt
    <3>2. QED
      BY <1>1, <3>1 DEF Pair
  <2>2. QED
    BY <2>1
<1>3. PlainCall(thr[t]) => Head(thr[t].todo) \in PlainStatements
  BY SuffixFacts DEF PlainCall, Busy
<1>4. QED
  BY <1>2, <1>3 DEF PlainStatements

(* The statement of a plain call was executed: the rest of the call is plain. *)
LEMMA PlainGoesOn ==
  ASSUME DbTypes, NEW t \in Threads, PlainCall(thr[t]), NEW r \in Seq(PlainStatements), NEW c, c = Executed(t, r)
  PROVE  PlainCall(c)
BY DEF Executed, PlainCall, DbTypes, CallType

(* What is left of a call that lists nothing lists nothing. *)
LEMMA PlainSuffix ==
  ASSUME NEW t \in Threads, PlainCall(thr[t]), Busy(t)
  PROVE  /\ <<>> \in Seq(PlainStatements) /\ Tail(thr[t].todo) \in Seq(PlainStatements)
         /\ \A n \in Nat : Skip(Tail(thr[t].todo), n) \in Seq(PlainStatements)
<1>1. Tail(thr[t].todo) \in Seq(PlainStatements)
  BY SuffixFacts DEF PlainCall, Busy
<1>2. <<>> \in Seq(PlainStatements)
  OBVIOUS
<1>3. \A n \in Nat : Skip(Tail(thr[t].todo), n) \in Seq(PlainStatements)
  BY <1>1, SuffixFacts
<1>4. QED
  BY <1>1, <1>2, <1>3

(* A thread that writes is alone with the tables; lists that were counted before become stale. *)
LEMMA WriteKeepsLists ==
  ASSUME DbTypes, LockOwned, ListInv, NEW t \in Threads, Write(t)
  PROVE  ListInv'
<1> DEFINE s == Head(thr[t].todo)
<1>1. Busy(t) /\ thr[t].at = "locked" /\ s.op \in {"insert", "delete", "create", "drop"}
  BY DEF Write
<1>2. PlainCall(thr[t]) /\ s \in PlainStatements
  BY <1>1, KindOfCall, SuffixFacts DEF PlainCall, Busy
<1>3. \A table \in AllTables : IsFiniteSet(rowsOf'[table])
  <2>1. rowsOf' = [rowsOf EXCEPT ![s.table] = After(s)]
    BY DEF Write
  <2>2. s.table \in AllTables /\ IsFiniteSet(rowsOf[s.table])
    BY <1>1, <1>2, AfterFacts DEF ListInv
  <2>3. IsFiniteSet(After(s))
    <3>1. CASE s.op = "insert"
      BY <2>2, <3>1, FS_AddElement DEF After
    <3>2. CASE s.op = "delete"
      <4>1. After(s) \subseteq rowsOf[s.table]
        BY <3>2 DEF After
      <4>2. QED
        BY <2>2, <4>1, FS_Subset
    <3>3. CASE s.op \in {"create", "drop"}
      BY <2>2, <3>3, FS_EmptySet DEF After
    <3>4. QED
      BY <1>1, <3>1, <3>2, <3>3
  <2>4. QED
    BY <2>1, <2>2, <2>3 DEF DbTypes, ListInv
<1>4. ListOk(t)'
  <2>1. thr'[t] = Executed(t, Tail(thr[t].todo))
    BY DEF Write
  <2>2. PlainCall(thr'[t])
    BY <1>1, <1>2, <2>1, PlainSuffix, PlainGoesOn
  <2>3. QED
    BY <2>2 DEF ListOk
<1>5. ASSUME NEW q \in Threads, q # t PROVE ListOk(q)'
  <2>1. thr'[q] = [thr[q] EXCEPT !.stale = @ \/ (Busy(q) /\ Head(thr[q].todo).op = "fetch")]
    BY <1>5 DEF Write
  <2>2. /\ thr'[q].todo = thr[q].todo /\ thr'[q].at = thr[q].at /\ thr'[q].then = thr[q].then
        /\ thr'[q].left = thr[q].left /\ thr'[q].got = thr[q].got /\ thr'[q].count = thr[q].count
    BY <2>1 DEF DbTypes, CallType
  <2>3. CASE PlainCall(thr[q])
    BY <2>2, <2>3 DEF PlainCall, ListOk
  <2>4. CASE ~PlainCall(thr[q])
    <3>1. PICK s1, s2 \in ListStatements :
            Pair(s1, s2) /\ (CountingAt(thr[q], s1, s2, Result(s2)) \/ FetchingAt(thr[q], s2, Result(s2)))
      BY <2>4 DEF ListInv, ListOk
    <3>2. CASE CountingAt(thr[q], s1, s2, Result(s2))
      <4>1. Busy(q)
        BY <3>2 DEF CountingAt, Busy
      <4>2. thr[q].at # "executed"
        BY <1>1, <1>5, <4>1 DEF LockOwned
      <4>3. CountingAt(thr'[q], s1, s2, Result(s2)')
        BY <2>2, <3>2, <4>2 DEF CountingAt
      <4>4. QED
        BY <3>1, <4>3 DEF ListOk
    <3>3. CASE FetchingAt(thr[q], s2, Result(s2))
      <4>1. Busy(q) /\ Head(thr[q].todo) = s2
        BY <3>3 DEF FetchingAt, Busy
      <4>2. (thr[q].stale \/ (Busy(q) /\ Head(thr[q].todo).op = "fetch")) = TRUE
        BY <3>1, <4>1 DEF Pair
      <4>3. thr'[q].stale # FALSE
        BY <2>1, <4>2 DEF DbTypes, CallType
      <4>4. FetchingAt(thr'[q], s2, Result(s2)')
        BY <2>2, <3>3, <4>3 DEF FetchingAt
      <4>5. QED
        BY <3>1, <4>4 DEF ListOk
    <3>4. QED
      BY <3>1, <3>2, <3>3
  <2>5. QED
    BY <2>3, <2>4
<1>6. QED
  BY <1>3, <1>4, <1>5 DEF ListInv

(* A list that is over, and a call that begins *)
LEMMA NoCallOk ==
  ASSUME NEW t \in Threads, thr'[t] = NoCall
  PROVE  ListOk(t)'
<1>1. <<>> \in Seq(PlainStatements)
  OBVIOUS
<1>2. PlainCall(NoCall)
  BY <1>1 DEF PlainCall, NoCall
<1>3. QED
  BY <1>2 DEF ListOk

(* A call that starts keeps the lists. *)
LEMMA BeginsOk ==
  ASSUME DbTypes, ListInv, NEW t \in Threads, Begins(t)
  PROVE  ListInv'
<1>1. PICK name \in Names, a \in Owners \cup {NoOne}, s \in Scripts :
        Call(t, name, a, s) /\ (s \in Seq(PlainStatements) \/ ListScript(s))
  BY DEF Begins
<1> DEFINE c == [NoCall EXCEPT !.todo = s, !.about = a, !.name = name]
<1>2. /\ c.todo = s /\ c.then = <<>> /\ c.at = "wait" /\ c.left = {} /\ c.got = {} /\ c.count = 0
  BY DEF NoCall
<1>3. thr'[t] = c /\ rowsOf' = rowsOf /\ \A q \in Threads \ {t} : thr'[q] = thr[q]
  BY <1>1 DEF Call, DbTypes
<1> HIDE DEF c
<1>4. ListOk(t)'
  <2>1. CASE s \in Seq(PlainStatements)
    <3>1. <<>> \in Seq(PlainStatements)
      OBVIOUS
    <3>2. PlainCall(thr'[t])
      BY <1>2, <1>3, <2>1, <3>1 DEF PlainCall
    <3>3. QED
      BY <3>2 DEF ListOk
  <2>2. CASE ListScript(s)
    <3>1. PICK table \in AllTables, from \in AllTables, of \in Owners \cup {NoOne} :
            s = <<Select("count", table, from, of), Select("fetch", table, from, of)>>
      BY <2>2 DEF ListScript
    <3> DEFINE s1 == Select("count", table, from, of)
               s2 == Select("fetch", table, from, of)
    <3>2. Pair(s1, s2)
      BY DEF Pair, Select, ListStatements
    <3>3. CountingAt(thr'[t], s1, s2, Result(s2)')
      BY <1>2, <1>3, <3>1 DEF CountingAt
    <3> HIDE DEF s1, s2
    <3>4. QED
      BY <3>2, <3>3 DEF ListOk, Pair
  <2>3. QED
    BY <1>1, <2>1, <2>2
<1>5. QED
  BY <1>3, <1>4, ListFrame

(* The query of a list: its rows are there to be counted or fetched. *)
LEMMA QueryOk ==
  ASSUME DbTypes, ListInv, NEW t \in Threads, QueryRows(t)
  PROVE  ListInv'
<1> DEFINE s == Head(thr[t].todo)
<1>1. Busy(t) /\ thr[t].at = "locked" /\ s.op \in {"count", "fetch"}
  BY DEF QueryRows
<1>2. PICK s1, s2 \in ListStatements :
        Pair(s1, s2) /\ (CountingAt(thr[t], s1, s2, Result(s2)) \/ FetchingAt(thr[t], s2, Result(s2)))
  BY <1>1, KindOfCall DEF ListInv, ListOk
<1>3. rowsOf' = rowsOf /\ \A q \in Threads \ {t} : thr'[q] = thr[q]
  BY DEF QueryRows, DbTypes
<1>4. Result(s2)' = Result(s2)
  BY <1>3 DEF Result, UuidsOf
<1> DEFINE r == IF Result(s) = {} THEN <<>> ELSE Tail(thr[t].todo)
<1>5. /\ thr'[t].todo = thr[t].todo /\ thr'[t].at = "executed" /\ thr'[t].then = r
      /\ thr'[t].left = Result(s) /\ thr'[t].got = thr[t].got /\ thr'[t].count = thr[t].count
      /\ thr'[t].stale = thr[t].stale
  BY DEF QueryRows, Executed, DbTypes, CallType
<1>6. CASE CountingAt(thr[t], s1, s2, Result(s2))
  <2>1. s = s1 /\ Tail(thr[t].todo) = <<s2>>
    BY <1>6 DEF CountingAt
  <2>2. Result(s) = Result(s2)
    BY <1>2, <2>1, SameResult
  <2>3. IsFiniteSet(Result(s2)) /\ Cardinality(Result(s2)) \in Nat
    BY ResultFinite
  <2>4. thr[t].count = 0 /\ thr[t].todo = <<s1, s2>> /\ thr[t].got = {}
    BY <1>1, <1>6 DEF CountingAt
  <2>5. r \in {<<>>, <<s2>>}
    BY <2>1
  <2> HIDE DEF r
  <2>6. CountingAt(thr'[t], s1, s2, Result(s2)')
    BY <1>4, <1>5, <2>2, <2>3, <2>4, <2>5 DEF CountingAt
  <2>7. ListOk(t)'
    BY <1>2, <2>6 DEF ListOk
  <2>8. QED
    BY <1>3, <2>7, ListFrame
<1>7. CASE FetchingAt(thr[t], s2, Result(s2))
  <2>1. s = s2 /\ Tail(thr[t].todo) = <<>>
    BY <1>7 DEF FetchingAt
  <2>2. r = <<>> /\ thr[t].got = {}
    BY <1>1, <1>7, <2>1 DEF FetchingAt
  <2> HIDE DEF r
  <2>3. FetchingAt(thr'[t], s2, Result(s2)')
    BY <1>4, <1>5, <1>7, <2>1, <2>2 DEF FetchingAt
  <2>4. ListOk(t)'
    BY <1>2, <2>3 DEF ListOk
  <2>5. QED
    BY <1>3, <2>4, ListFrame
<1>8. QED
  BY <1>2, <1>6, <1>7

(* One row is counted or fetched. *)
LEMMA FetchOk ==
  ASSUME DbTypes, ListInv, NEW t \in Threads, sql_fetch_row_sqlite(t)
  PROVE  ListInv'
<1> DEFINE s == Head(thr[t].todo)
<1>1. PICK u \in thr[t].left :
        thr' = [thr EXCEPT ![t].left = @ \ {u}, ![t].count = IF s.op = "count" THEN @ + 1 ELSE @,
                           ![t].got = IF s.op = "fetch" THEN @ \cup {u} ELSE @]
  BY DEF sql_fetch_row_sqlite
<1>2. PICK s1, s2 \in ListStatements :
        Pair(s1, s2) /\ (CountingAt(thr[t], s1, s2, Result(s2)) \/ FetchingAt(thr[t], s2, Result(s2)))
  BY <1>1 DEF ListInv, ListOk, PlainCall
<1>3. rowsOf' = rowsOf /\ \A q \in Threads \ {t} : thr'[q] = thr[q]
  BY DEF sql_fetch_row_sqlite, DbTypes
<1>4. Result(s2)' = Result(s2)
  BY <1>3 DEF Result, UuidsOf
<1>5. /\ thr'[t].todo = thr[t].todo /\ thr'[t].at = thr[t].at /\ thr'[t].then = thr[t].then
      /\ thr'[t].left = thr[t].left \ {u} /\ thr'[t].stale = thr[t].stale
      /\ s.op = "count" => thr'[t].count = thr[t].count + 1 /\ thr'[t].got = thr[t].got
      /\ s.op = "fetch" => thr'[t].count = thr[t].count /\ thr'[t].got = thr[t].got \cup {u}
  BY <1>1 DEF DbTypes, CallType
<1>6. CASE CountingAt(thr[t], s1, s2, Result(s2))
  <2>1. s = s1 /\ s.op = "count"
    BY <1>2, <1>6 DEF CountingAt, Pair
  <2>2. IsFiniteSet(thr[t].left) /\ thr[t].at = "executed" /\ thr[t].count + Cardinality(thr[t].left) = Cardinality(Result(s2))
    BY <1>1, <1>6 DEF CountingAt
  <2>3. IsFiniteSet(thr[t].left \ {u}) /\ Cardinality(thr[t].left \ {u}) = Cardinality(thr[t].left) - 1
    BY <1>1, <2>2, FS_RemoveElement
  <2>4. Cardinality(thr[t].left) \in Nat /\ thr[t].count \in Nat
    BY <2>2, FS_CardinalityType DEF DbTypes, CallType
  <2>5. thr'[t].count + Cardinality(thr'[t].left) = Cardinality(Result(s2))
    BY <1>5, <2>1, <2>2, <2>3, <2>4
  <2>6. CountingAt(thr'[t], s1, s2, Result(s2)')
    BY <1>4, <1>5, <1>6, <2>1, <2>2, <2>3, <2>5 DEF CountingAt
  <2>7. ListOk(t)'
    BY <1>2, <2>6 DEF ListOk
  <2>8. QED
    BY <1>3, <2>7, ListFrame
<1>7. CASE FetchingAt(thr[t], s2, Result(s2))
  <2>1. s = s2 /\ s.op = "fetch"
    BY <1>2, <1>7 DEF FetchingAt, Pair
  <2>2. thr[t].at = "executed"
    BY <1>1, <1>7 DEF FetchingAt
  <2>3. thr'[t].got \cup thr'[t].left = thr[t].got \cup thr[t].left
    BY <1>1, <1>5, <2>1
  <2>4. FetchingAt(thr'[t], s2, Result(s2)')
    <3>1. thr[t].stale = FALSE => thr[t].count = Cardinality(Result(s2)) /\ thr[t].got \cup thr[t].left = Result(s2)
      BY <1>7, <2>2 DEF FetchingAt
    <3>2. thr'[t].todo = <<s2>> /\ thr'[t].then = <<>> /\ thr'[t].at = "executed"
      BY <1>5, <1>7, <2>2 DEF FetchingAt
    <3>3. thr'[t].stale = thr[t].stale /\ thr'[t].count = thr[t].count
      BY <1>5, <2>1
    <3>4. thr'[t].stale = FALSE
             => thr'[t].count = Cardinality(Result(s2)') /\ thr'[t].got \cup thr'[t].left = Result(s2)'
      BY <1>4, <2>3, <3>1, <3>3, Zenon
    <3>5. QED
      BY <3>2, <3>4, Zenon DEF FetchingAt
  <2>5. ListOk(t)'
    BY <1>2, <2>4 DEF ListOk
  <2>6. QED
    BY <1>3, <2>5, ListFrame
<1>8. QED
  BY <1>2, <1>6, <1>7

(* A statement is over: the list goes on to its second query, or ends. *)
LEMMA FreeOk ==
  ASSUME DbTypes, ListInv, NEW t \in Threads, sql_free_sqlite(t)
  PROVE  ListInv'
<1>1. thr[t].at = "executed" /\ thr[t].left = {}
  BY DEF sql_free_sqlite
<1>2. rowsOf' = rowsOf /\ \A q \in Threads \ {t} : thr'[q] = thr[q]
  BY DEF sql_free_sqlite, Over, DbTypes
<1>3. CASE thr[t].then = <<>>
  <2>1. thr'[t] = NoCall
    BY <1>3 DEF sql_free_sqlite, Over, DbTypes
  <2>2. QED
    BY <1>2, <2>1, NoCallOk, ListFrame
<1>4. CASE thr[t].then # <<>>
  <2>1. /\ thr'[t].todo = thr[t].then /\ thr'[t].at = "wait" /\ thr'[t].then = <<>> /\ thr'[t].left = {}
        /\ thr'[t].got = thr[t].got /\ thr'[t].count = thr[t].count /\ thr'[t].stale = thr[t].stale
    BY <1>1, <1>4 DEF sql_free_sqlite, Over, DbTypes, CallType
  <2>2. CASE PlainCall(thr[t])
    <3>1. <<>> \in Seq(PlainStatements)
      OBVIOUS
    <3>2. PlainCall(thr'[t])
      BY <2>1, <2>2, <3>1 DEF PlainCall
    <3>3. QED
      BY <1>2, <3>2, ListFrame DEF ListOk
  <2>3. CASE ~PlainCall(thr[t])
    <3>1. PICK s1, s2 \in ListStatements :
            Pair(s1, s2) /\ (CountingAt(thr[t], s1, s2, Result(s2)) \/ FetchingAt(thr[t], s2, Result(s2)))
      BY <2>3 DEF ListInv, ListOk
    <3>2. /\ thr[t].then = <<s2>> /\ thr[t].got = {}
          /\ thr[t].count + Cardinality(thr[t].left) = Cardinality(Result(s2))
      BY <1>1, <1>4, <3>1 DEF CountingAt, FetchingAt
    <3>3. thr[t].count = Cardinality(Result(s2))
      BY <1>1, <3>2, FS_EmptySet DEF DbTypes, CallType
    <3>4. Result(s2)' = Result(s2)
      BY <1>2 DEF Result, UuidsOf
    <3>5. FetchingAt(thr'[t], s2, Result(s2)')
      BY <2>1, <3>2, <3>3, <3>4 DEF FetchingAt
    <3>6. QED
      BY <1>2, <3>1, <3>5, ListFrame DEF ListOk
  <2>4. QED
    BY <2>2, <2>3
<1>5. QED
  BY <1>3, <1>4

(* Every step keeps the lists. *)
LEMMA ListStep == DbTypes /\ LockOwned /\ ListInv /\ [DbNext]_dbVars => ListInv'
<1> SUFFICES ASSUME DbTypes, LockOwned, ListInv, [DbNext]_dbVars PROVE ListInv'
  OBVIOUS
<1>1. CASE sql_init_sqlite \/ sql_clean_sqlite \/ UNCHANGED dbVars
  <2>1. thr' = thr /\ rowsOf' = rowsOf
    BY <1>1 DEF sql_init_sqlite, sql_clean_sqlite, dbVars
  <2>2. \A s : Result(s)' = Result(s)
    BY <2>1 DEF Result, UuidsOf
  <2>3. QED
    BY <2>1, <2>2 DEF ListInv, ListOk
<1>2. ASSUME NEW t \in Threads, sql_create_new_sqlite(t) PROVE ListInv'
  <2>1. rowsOf' = rowsOf /\ \A q \in Threads \ {t} : thr'[q] = thr[q]
    BY <1>2 DEF sql_create_new_sqlite, DbTypes
  <2>2. /\ thr'[t].todo = thr[t].todo /\ thr[t].at = "wait" /\ thr'[t].at = "locked" /\ thr'[t].then = thr[t].then
        /\ thr'[t].left = thr[t].left /\ thr'[t].got = thr[t].got /\ thr'[t].count = thr[t].count
        /\ thr'[t].stale = thr[t].stale
    BY <1>2 DEF sql_create_new_sqlite, DbTypes, CallType
  <2>3. \A s : Result(s)' = Result(s)
    BY <2>1 DEF Result, UuidsOf
  <2>4. CASE PlainCall(thr[t])
    BY <2>1, <2>2, <2>4, ListFrame DEF ListOk, PlainCall
  <2>5. CASE ~PlainCall(thr[t])
    <3>1. PICK s1, s2 \in ListStatements :
            Pair(s1, s2) /\ (CountingAt(thr[t], s1, s2, Result(s2)) \/ FetchingAt(thr[t], s2, Result(s2)))
      BY <2>5 DEF ListInv, ListOk
    <3>2. CountingAt(thr[t], s1, s2, Result(s2)) => CountingAt(thr'[t], s1, s2, Result(s2)')
      BY <2>2, <2>3 DEF CountingAt
    <3>3. FetchingAt(thr[t], s2, Result(s2)) => FetchingAt(thr'[t], s2, Result(s2)')
      BY <2>2, <2>3 DEF FetchingAt
    <3>4. ListOk(t)'
      BY <3>1, <3>2, <3>3 DEF ListOk
    <3>5. QED
      BY <2>1, <3>4, ListFrame
  <2>6. QED
    BY <2>4, <2>5
<1>3. ASSUME NEW t \in Threads, NoHandle(t) PROVE ListInv'
  <2>1. thr'[t] = NoCall /\ rowsOf' = rowsOf /\ \A q \in Threads \ {t} : thr'[q] = thr[q]
    BY <1>3 DEF NoHandle, DbTypes
  <2>2. QED
    BY <2>1, NoCallOk, ListFrame
<1>4. ASSUME NEW t \in Threads, WriteFails(t) \/ FindRow(t) PROVE ListInv'
  <2>1. Busy(t) /\ Head(thr[t].todo).op \in {"insert", "delete", "find"}
    BY <1>4 DEF WriteFails, FindRow
  <2>2. PlainCall(thr[t])
    BY <2>1, KindOfCall
  <2>3. rowsOf' = rowsOf /\ \A q \in Threads \ {t} : thr'[q] = thr[q]
    BY <1>4 DEF WriteFails, FindRow, DbTypes
  <2>4. \E r \in Seq(PlainStatements) : thr'[t] = Executed(t, r)
    <3>1. CASE WriteFails(t)
      <4>1. thr'[t] = Executed(t, <<>>) \/ thr'[t] = Executed(t, Tail(thr[t].todo))
        BY <3>1 DEF WriteFails, DbTypes
      <4>2. QED
        BY <2>1, <2>2, <4>1, PlainSuffix
    <3>2. CASE FindRow(t)
      <4>1. Head(thr[t].todo) \in PlainStatements /\ Head(thr[t].todo).op = "find"
        BY <2>1, <2>2, <3>2, SuffixFacts DEF FindRow, PlainCall, Busy
      <4>2. Head(thr[t].todo).iffound \in Nat /\ Head(thr[t].todo).ifnone \in Nat
        BY <4>1 DEF PlainStatements
      <4>3. PICK n \in Nat : thr'[t] = Executed(t, Skip(Tail(thr[t].todo), n))
        BY <3>2, <4>2 DEF FindRow, DbTypes
      <4>4. QED
        BY <2>1, <2>2, <4>3, PlainSuffix
    <3>3. QED
      BY <1>4, <3>1, <3>2
  <2>5. PlainCall(thr'[t])
    BY <2>2, <2>4, PlainGoesOn
  <2>6. QED
    BY <2>3, <2>5, ListFrame DEF ListOk
<1>5. QED
  BY <1>1, <1>2, <1>3, <1>4, BeginsOk, ManageBegins, ServeBegins, ManagersAssumption, WriteKeepsLists, QueryOk, FetchOk, FreeOk
  DEF DbNext, Statement

(***************************************************************************)
(* For all sets of threads, admins, accounts and devices: a list has as    *)
(* many entries as were counted, the rows of the table, unless a table     *)
(* changed between its two queries.                                        *)
(***************************************************************************)
THEOREM ListsAreWhole == DbSpec => []ListWhole
<1>1. DbInit => LockOwned
  BY UuidsAssumption DEF DbInit, LockOwned, Busy, NoCall
<1>2. ASSUME DbInit PROVE ListInv
  <2>1. <<>> \in Seq(PlainStatements)
    OBVIOUS
  <2>2. PlainCall(NoCall)
    BY <2>1 DEF PlainCall, NoCall
  <2>3. QED
    BY <1>2, <2>2, FS_EmptySet DEF DbInit, ListInv, ListOk
<1>3. ASSUME DbTypes, ListInv PROVE ListWhole
  <2> SUFFICES ASSUME NEW t \in Threads, Busy(t), thr[t].at = "executed", thr[t].left = {},
                      Head(thr[t].todo).op = "fetch", ~thr[t].stale
               PROVE  thr[t].got = Result(Head(thr[t].todo)) /\ thr[t].count = Cardinality(thr[t].got)
    BY DEF ListWhole
  <2>1. PICK s1, s2 \in ListStatements :
          Pair(s1, s2) /\ (CountingAt(thr[t], s1, s2, Result(s2)) \/ FetchingAt(thr[t], s2, Result(s2)))
    BY <1>3, KindOfCall DEF ListInv, ListOk
  <2>2. ~CountingAt(thr[t], s1, s2, Result(s2))
    BY <2>1 DEF CountingAt, Pair
  <2>3. Head(thr[t].todo) = s2
    BY <2>1, <2>2 DEF FetchingAt
  <2>4. thr[t].stale = FALSE
    BY <1>3 DEF DbTypes, CallType
  <2>5. QED
    BY <2>1, <2>2, <2>3, <2>4 DEF FetchingAt
<1>4. QED
  BY <1>1, <1>2, <1>3, DbTypesInit, DbTypesStep, LockStep, ListStep, PTL DEF DbSpec

-----------------------------------------------------------------------------
(* What db_account_admin_del leaves (AdminDb) *)

(* What is left of script s from its statement k on *)
Suffix(s, k) == SubSeq(s, k, Len(s))

DeleteScript(a) ==
  <<DeleteRows("basic", "uuid", a, FALSE), DeleteRows("admin", "uuid", a, TRUE)>>
    \o license_del(a) \o child_del_all(a) \o device_del_all(a)
CreateScript ==
  <<CreateTable("basic"), CreateTable("admin"), CreateTable("child"), CreateTable("devBasic"), CreateTable("devOwner")>>
DropScript == <<Drop("admin"), Drop("admin"), Drop("child"), Drop("devBasic"), Drop("devOwner")>>

(* The statements a call of this name about admin a may have: only some    *)
(* calls add rows, and those are rows of a or of accounts that are no      *)
(* admins; the tables are made and dropped by calls about all admins.      *)
Allowed(name, a) ==
  {s \in Statements :
     /\ s.op = "insert" =>
          /\ name \in {"add", "child", "device"} /\ a \in Owners
          /\ s.table \in {"basic", "admin"} => s.row.ref = NoOne /\ s.row.uuid \in Others \cup {a}
          /\ s.table = "devBasic" => s.row.ref = NoOne
          /\ s.table \in {"child", "devOwner"} => s.row.ref = a
     /\ s.op \in {"create", "drop"} => name = "tables"
     /\ s.op \in {"count", "fetch"} <=> name = "list"}

CallSound(c) ==
  /\ c.todo \in Seq(Allowed(c.name, c.about)) /\ c.then \in Seq(Allowed(c.name, c.about))
  /\ c.name = "tables" => c.about = NoOne
  /\ c.name = "delete" => c.about # NoOne

(* A table that does not exist has no rows, and only children and devices  *)
(* refer to an admin.                                                      *)
RowsSound ==
  /\ \A table \in AllTables \ tabs : rowsOf[table] = {}
  /\ \A table \in {"basic", "admin", "devBasic"} : \A r \in rowsOf[table] : r.ref = NoOne

(* No row of admin a in one of the tables *)
NoUuid(table, a) == \A r \in rowsOf[table] : r.uuid # a
NoRef(table, a) == \A r \in rowsOf[table] : r.ref # a
Gone(a) == NoUuid("basic", a) /\ NoUuid("admin", a) /\ NoRef("child", a) /\ NoRef("devOwner", a)

(* What the statements of DeleteScript before the k-th have removed *)
Cleared(a, k) ==
  /\ k > 1 => NoUuid("basic", a)
  /\ k > 2 => NoUuid("admin", a)
  /\ k > 5 => NoRef("child", a)
  /\ k > 8 => NoRef("devOwner", a)

Deleting(c, a) ==
  \/ c.at \in {"wait", "locked"} /\ \E k \in 1..8 : c.todo = Suffix(DeleteScript(a), k) /\ Cleared(a, k)
  \/ c.at = "executed" /\ \E k \in 2..9 : c.then = Suffix(DeleteScript(a), k) /\ Cleared(a, k)

(* Without licenses there are no children and no devices: then the second  *)
(* statement of DeleteScript fails and ends the call.                      *)
Agreed == "admin" \notin tabs => "child" \notin tabs /\ "devOwner" \notin tabs

Created(k) == Agreed /\ (k > 2 => "admin" \in tabs)
Dropped(k) ==
  /\ k > 3 => "child" \notin tabs
  /\ k > 5 => "devOwner" \notin tabs

Tabling(c) ==
  \/ c.at = "wait" /\ Agreed /\ c.todo \in {CreateScript, DropScript}
  \/ /\ db /\ c.at \in {"wait", "locked"}
     /\ \E k \in 1..5 : \/ c.todo = Suffix(CreateScript, k) /\ Created(k)
                        \/ c.todo = Suffix(DropScript, k) /\ Dropped(k)
  \/ /\ db /\ c.at = "executed"
     /\ \E k \in 2..6 : \/ c.then = Suffix(CreateScript, k) /\ Created(k)
                        \/ c.then = Suffix(DropScript, k) /\ Dropped(k)

(* A call that adds a child or a device to an admin that is gone looks for *)
(* the admin first, and then ends.                                         *)
TurnedAway(c, a) ==
  \/ c.at \in {"wait", "locked"} /\ c.todo # <<>> /\ Head(c.todo) = Find("basic", a, 0, Len(c.todo) - 1)
  \/ c.at = "executed" /\ c.then = <<>>

(* Calls that may change the rows of admin a come one after the other. *)
Concerns(t, a) == Busy(t) /\ thr[t].about \in {a, NoOne}
Alone(a) == \A t, q \in Threads : Concerns(t, a) /\ Concerns(q, a) => t = q

Settled == (\A t \in Threads : Busy(t) => thr[t].name # "tables") => Agreed

ThreadOk(t, a) ==
  Busy(t) =>
    /\ thr[t].name = "tables" => Tabling(thr[t])
    /\ thr[t].name = "delete" /\ thr[t].about = a => Deleting(thr[t], a)
    /\ a \in deleted /\ thr[t].about = a =>
         /\ thr[t].name # "add"
         /\ thr[t].name \in {"child", "device"} => TurnedAway(thr[t], a)

OwnerOk(a) == Alone(a) /\ Settled /\ (a \in deleted => Gone(a)) /\ \A t \in Threads : ThreadOk(t, a)

(***************************************************************************)
(* The invariant AdminGone needs: what a call that deletes an admin has    *)
(* removed after each of its statements, that whoever comes after it finds *)
(* no admin to add something to, and how the tables stand when statements  *)
(* fail because there are none.                                            *)
(***************************************************************************)
GoneInv ==
  /\ RowsSound
  /\ deleted \subseteq Owners
  /\ \A t \in Threads : CallSound(thr[t])
  /\ \A a \in Owners \ unsure : OwnerOk(a)

(* Two sequences with the same elements *)
LEMMA SameElements ==
  ASSUME NEW S, NEW p \in Seq(S), NEW q \in Seq(S), Len(p) = Len(q), \A i \in 1..Len(p) : p[i] = q[i]
  PROVE  p = q
OBVIOUS

(* The elements of a suffix *)
LEMMA SuffixFields ==
  ASSUME NEW S, NEW s \in Seq(S), NEW k \in Nat, 1 <= k, k <= Len(s) + 1
  PROVE  /\ Suffix(s, k) \in Seq(S) /\ Len(Suffix(s, k)) = Len(s) + 1 - k
         /\ \A i \in Nat : 1 <= i /\ i <= Len(s) + 1 - k => Suffix(s, k)[i] = s[k + i - 1]
<1>1. PICK n \in Nat : n = Len(s)
  OBVIOUS
<1>2. \A i \in k..n : s[i] \in S
  BY <1>1
<1>3. PICK q : q = Suffix(s, k)
  OBVIOUS
<1>4. /\ q \in Seq(S) /\ Len(q) = (IF k <= n THEN n - k + 1 ELSE 0)
      /\ \A i \in 1..n - k + 1 : q[i] = s[k + i - 1]
  BY <1>1, <1>2, <1>3, SubSeqProperties DEF Suffix
<1>5. Len(q) = n + 1 - k
  BY <1>1, <1>4
<1>6. \A i \in Nat : 1 <= i /\ i <= n + 1 - k => i \in 1..n - k + 1
  OBVIOUS
<1>7. \A i \in Nat : 1 <= i /\ i <= n + 1 - k => q[i] = s[k + i - 1]
  BY <1>4, <1>6
<1>8. QED
  BY <1>1, <1>3, <1>4, <1>5, <1>7

(* Going on by one statement, ... *)
LEMMA SuffixStep ==
  ASSUME NEW S, NEW s \in Seq(S), NEW k \in Nat, 1 <= k, k <= Len(s)
  PROVE  Suffix(s, k) # <<>> /\ Head(Suffix(s, k)) = s[k] /\ Tail(Suffix(s, k)) = Suffix(s, k + 1)
<1>1. PICK n \in Nat : n = Len(s)
  OBVIOUS
<1>2. PICK k1 \in Nat : k1 = k + 1
  OBVIOUS
<1>3. PICK q : q = Suffix(s, k)
  OBVIOUS
<1>4. PICK p : p = Suffix(s, k1)
  OBVIOUS
<1>5. k <= n /\ 1 <= k1 /\ k1 <= n + 1 /\ k <= n + 1
  BY <1>1, <1>2
<1>6. q \in Seq(S) /\ Len(q) = n + 1 - k /\ \A i \in Nat : 1 <= i /\ i <= n + 1 - k => q[i] = s[k + i - 1]
  <2>1. 1 <= k /\ k <= Len(s) + 1
    BY <1>1, <1>5
  <2>2. /\ Suffix(s, k) \in Seq(S) /\ Len(Suffix(s, k)) = Len(s) + 1 - k
        /\ \A i \in Nat : 1 <= i /\ i <= Len(s) + 1 - k => Suffix(s, k)[i] = s[k + i - 1]
    BY <2>1, SuffixFields, Zenon
  <2>3. QED
    BY <1>1, <1>3, <2>2, Zenon
<1>7. p \in Seq(S) /\ Len(p) = n + 1 - k1 /\ \A i \in Nat : 1 <= i /\ i <= n + 1 - k1 => p[i] = s[k1 + i - 1]
  <2>1. k1 \in Nat /\ 1 <= k1 /\ k1 <= Len(s) + 1
    BY <1>1, <1>2, <1>5
  <2>2. /\ Suffix(s, k1) \in Seq(S) /\ Len(Suffix(s, k1)) = Len(s) + 1 - k1
        /\ \A i \in Nat : 1 <= i /\ i <= Len(s) + 1 - k1 => Suffix(s, k1)[i] = s[k1 + i - 1]
    BY <2>1, SuffixFields, Zenon
  <2>3. QED
    BY <1>1, <1>4, <2>2, Zenon
<1>8. q # <<>> /\ Head(q) = q[1]
  BY <1>1, <1>5, <1>6
<1>9. q[1] = s[k]
  BY <1>1, <1>5, <1>6, SMTT(30)
<1>10. Tail(q) \in Seq(S) /\ Len(Tail(q)) = n + 1 - k1 /\ \A i \in 1..n + 1 - k1 : Tail(q)[i] = q[i + 1]
  BY <1>1, <1>2, <1>6, <1>8
<1>11. ASSUME NEW i \in 1..n + 1 - k1 PROVE Tail(q)[i] = p[i]
  <2>1. i + 1 \in Nat /\ 1 <= i + 1 /\ i + 1 <= n + 1 - k /\ k + (i + 1) - 1 = k1 + i - 1
    BY <1>1, <1>2
  <2>2. Tail(q)[i] = s[k + (i + 1) - 1]
    BY <1>6, <1>10, <2>1
  <2>3. i \in Nat /\ 1 <= i /\ i <= n + 1 - k1
    BY <1>1, <1>2
  <2>4. p[i] = s[k1 + i - 1]
    BY <1>7, <2>3
  <2>5. QED
    BY <2>1, <2>2, <2>4
<1>12. Tail(q) = p
  BY <1>7, <1>10, <1>11, SameElements
<1>13. QED
  BY <1>2, <1>3, <1>4, <1>8, <1>9, <1>12

(* ... by two, and to the end *)
LEMMA SkipFacts ==
  ASSUME NEW S, NEW s \in Seq(S)
  PROVE  /\ s # <<>> => Skip(s, 1) = Tail(s)
         /\ Skip(s, Len(s)) = <<>>
<1>1. ASSUME s # <<>> PROVE Skip(s, 1) = Tail(s)
  BY <1>1 DEF Skip
<1>2. Skip(s, Len(s)) = <<>>
  BY DEF Skip
<1>3. QED
  BY <1>1, <1>2

(* The whole script, and nothing of it *)
LEMMA SuffixEnds ==
  ASSUME NEW S, NEW s \in Seq(S)
  PROVE  Suffix(s, 1) = s /\ Suffix(s, Len(s) + 1) = <<>>
BY DEF Suffix

(* Two pieces of a script *)
LEMMA Joined ==
  ASSUME NEW S, NEW p \in Seq(S), NEW q \in Seq(S)
  PROVE  /\ p \o q \in Seq(S) /\ Len(p \o q) = Len(p) + Len(q)
         /\ \A i \in 1..Len(p) : (p \o q)[i] = p[i]
         /\ \A i \in 1..Len(q) : (p \o q)[Len(p) + i] = q[i]
OBVIOUS

(* The statements of the scripts *)
LEMMA DeleteStatements ==
  ASSUME NEW a \in Owners
  PROVE  LET s == DeleteScript(a) IN
         /\ s \in Seq(PlainStatements) /\ Len(s) = 8
         /\ s[1] = DeleteRows("basic", "uuid", a, FALSE) /\ s[2] = DeleteRows("admin", "uuid", a, TRUE)
         /\ s[3] = Find("basic", a, 0, 1) /\ s[4] = DeleteRows("admin", "uuid", a, FALSE)
         /\ s[5] = DeleteRows("child", "ref", a, FALSE) /\ s[6] = DeleteIn("basic", "admin", "uuid", a, FALSE)
         /\ s[7] = DeleteIn("devBasic", "devOwner", "ref", a, FALSE) /\ s[8] = DeleteRows("devOwner", "ref", a, FALSE)
<1>0. PICK s : s = DeleteScript(a)
  OBVIOUS
<1>1. PICK p : p = <<DeleteRows("basic", "uuid", a, FALSE), DeleteRows("admin", "uuid", a, TRUE)>>
  OBVIOUS
<1>2. PICK q1 : q1 = license_del(a)
  OBVIOUS
<1>3. PICK q2 : q2 = child_del_all(a)
  OBVIOUS
<1>4. PICK q3 : q3 = device_del_all(a)
  OBVIOUS
<1>5. PICK r1 : r1 = p \o q1
  OBVIOUS
<1>6. PICK r2 : r2 = r1 \o q2
  OBVIOUS
<1>7. s = r2 \o q3
  BY <1>0, <1>1, <1>2, <1>3, <1>4, <1>5, <1>6 DEF DeleteScript
<1>8. /\ p \in Seq(PlainStatements) /\ Len(p) = 2
      /\ p[1] = DeleteRows("basic", "uuid", a, FALSE) /\ p[2] = DeleteRows("admin", "uuid", a, TRUE)
  BY <1>1 DEF DeleteRows, DeleteIn, PlainStatements, AllTables
<1>9. /\ q1 \in Seq(PlainStatements) /\ Len(q1) = 2
      /\ q1[1] = Find("basic", a, 0, 1) /\ q1[2] = DeleteRows("admin", "uuid", a, FALSE)
  BY <1>2, Pieces DEF license_del
<1>10. /\ q2 \in Seq(PlainStatements) /\ Len(q2) = 2
       /\ q2[1] = DeleteRows("child", "ref", a, FALSE) /\ q2[2] = DeleteIn("basic", "admin", "uuid", a, FALSE)
  BY <1>3, Pieces DEF child_del_all
<1>11. /\ q3 \in Seq(PlainStatements) /\ Len(q3) = 2
       /\ q3[1] = DeleteIn("devBasic", "devOwner", "ref", a, FALSE) /\ q3[2] = DeleteRows("devOwner", "ref", a, FALSE)
  BY <1>4, Pieces DEF device_del_all
<1>12. /\ r1 \in Seq(PlainStatements) /\ Len(r1) = 4
       /\ r1[1] = p[1] /\ r1[2] = p[2] /\ r1[3] = q1[1] /\ r1[4] = q1[2]
  <2>1. /\ r1 \in Seq(PlainStatements) /\ Len(r1) = Len(p) + Len(q1)
        /\ \A i \in 1..Len(p) : r1[i] = p[i]
        /\ \A i \in 1..Len(q1) : r1[Len(p) + i] = q1[i]
    <3>1. p \in Seq(PlainStatements)
      BY <1>8
    <3>2. q1 \in Seq(PlainStatements)
      BY <1>9
    <3>3. QED
      BY <1>5, <3>1, <3>2, Joined
  <2>2. Len(p) = 2 /\ Len(q1) = 2
    BY <1>8, <1>9
  <2>3. QED
    BY <2>1, <2>2
<1>13. /\ r2 \in Seq(PlainStatements) /\ Len(r2) = 6
       /\ r2[1] = r1[1] /\ r2[2] = r1[2] /\ r2[3] = r1[3] /\ r2[4] = r1[4] /\ r2[5] = q2[1] /\ r2[6] = q2[2]
  <2>1. /\ r2 \in Seq(PlainStatements) /\ Len(r2) = Len(r1) + Len(q2)
        /\ \A i \in 1..Len(r1) : r2[i] = r1[i]
        /\ \A i \in 1..Len(q2) : r2[Len(r1) + i] = q2[i]
    <3>1. r1 \in Seq(PlainStatements)
      BY <1>12
    <3>2. q2 \in Seq(PlainStatements)
      BY <1>10
    <3>3. QED
      BY <1>6, <3>1, <3>2, Joined
  <2>2. Len(r1) = 4 /\ Len(q2) = 2
    BY <1>12, <1>10
  <2>3. QED
    BY <2>1, <2>2
<1>14. /\ s \in Seq(PlainStatements) /\ Len(s) = 8
       /\ s[1] = r2[1] /\ s[2] = r2[2] /\ s[3] = r2[3] /\ s[4] = r2[4] /\ s[5] = r2[5] /\ s[6] = r2[6]
       /\ s[7] = q3[1] /\ s[8] = q3[2]
  <2>1. /\ s \in Seq(PlainStatements) /\ Len(s) = Len(r2) + Len(q3)
        /\ \A i \in 1..Len(r2) : s[i] = r2[i]
        /\ \A i \in 1..Len(q3) : s[Len(r2) + i] = q3[i]
    <3>1. r2 \in Seq(PlainStatements)
      BY <1>13
    <3>2. q3 \in Seq(PlainStatements)
      BY <1>11
    <3>3. QED
      BY <1>7, <3>1, <3>2, Joined
  <2>2. Len(r2) = 6 /\ Len(q3) = 2
    BY <1>13, <1>11
  <2>3. QED
    BY <2>1, <2>2
<1>15. QED
  BY <1>0, <1>8, <1>9, <1>10, <1>11, <1>12, <1>13, <1>14

(* Those that make and drop the tables *)
LEMMA TableStatements ==
  /\ CreateScript \in Seq(PlainStatements) /\ Len(CreateScript) = 5
  /\ CreateScript[1] = CreateTable("basic") /\ CreateScript[2] = CreateTable("admin")
  /\ CreateScript[3] = CreateTable("child") /\ CreateScript[4] = CreateTable("devBasic")
  /\ CreateScript[5] = CreateTable("devOwner")
  /\ DropScript \in Seq(PlainStatements) /\ Len(DropScript) = 5
  /\ DropScript[1] = Drop("admin") /\ DropScript[2] = Drop("admin") /\ DropScript[3] = Drop("child")
  /\ DropScript[4] = Drop("devBasic") /\ DropScript[5] = Drop("devOwner")
<1>1. \A table \in AllTables : CreateTable(table) \in PlainStatements /\ Drop(table) \in PlainStatements
  BY DEF CreateTable, Drop, PlainStatements
<1>2. QED
  BY <1>1 DEF CreateScript, DropScript, AllTables

(* Which statements which calls have *)
LEMMA AllowedStatements ==
  ASSUME NEW a \in Owners
  PROVE  /\ \A name \in Names \ {"list"} :
              /\ \A table \in AllTables, i \in Nat, j \in Nat : Find(table, a, i, j) \in Allowed(name, a)
              /\ \A table, from \in AllTables, column \in {"uuid", "ref"}, must \in BOOLEAN :
                   DeleteIn(table, from, column, a, must) \in Allowed(name, a)
         /\ \A name \in {"add", "child", "device"}, must \in BOOLEAN :
              /\ \A u \in Others \cup {a} : Insert("basic", u, NoOne, must) \in Allowed(name, a)
              /\ Insert("admin", a, NoOne, must) \in Allowed(name, a)
              /\ \A u \in Others : Insert("child", u, a, must) \in Allowed(name, a)
              /\ \A d \in Cameras : /\ Insert("devBasic", d, NoOne, must) \in Allowed(name, a)
                                    /\ Insert("devOwner", d, a, must) \in Allowed(name, a)
<1>1. ASSUME NEW name \in Names \ {"list"}, NEW table \in AllTables, NEW i \in Nat, NEW j \in Nat
      PROVE  Find(table, a, i, j) \in Allowed(name, a)
  <2>1. Find(table, a, i, j) \in Statements /\ Find(table, a, i, j).op = "find"
    BY DEF Find, Statements, PlainStatements
  <2>2. QED
    BY <2>1 DEF Allowed
<1>2. ASSUME NEW name \in Names \ {"list"}, NEW table \in AllTables, NEW from \in AllTables,
             NEW column \in {"uuid", "ref"}, NEW must \in BOOLEAN
      PROVE  DeleteIn(table, from, column, a, must) \in Allowed(name, a)
  <2>1. /\ DeleteIn(table, from, column, a, must) \in Statements
        /\ DeleteIn(table, from, column, a, must).op = "delete"
    BY DEF DeleteIn, Statements, PlainStatements
  <2>2. QED
    BY <2>1 DEF Allowed
<1>3. ASSUME NEW name \in {"add", "child", "device"}, NEW must \in BOOLEAN,
             NEW table \in AllTables, NEW u \in Owners \cup Others \cup Cameras, NEW b \in Owners \cup {NoOne},
             table \in {"basic", "admin"} => b = NoOne /\ u \in Others \cup {a},
             table = "devBasic" => b = NoOne, table \in {"child", "devOwner"} => b = a
      PROVE  Insert(table, u, b, must) \in Allowed(name, a)
  <2>1. PICK s : s = Insert(table, u, b, must)
    OBVIOUS
  <2>2. s \in Statements /\ s.op = "insert" /\ s.table = table /\ s.row.uuid = u /\ s.row.ref = b
    BY <2>1 DEF Insert, Row, RowType, Statements, PlainStatements
  <2>3. s \in Allowed(name, a)
    BY <1>3, <2>2 DEF Allowed
  <2>4. QED
    BY <2>1, <2>3
<1>4. ASSUME NEW name \in {"add", "child", "device"}, NEW must \in BOOLEAN
      PROVE  /\ \A u \in Others \cup {a} : Insert("basic", u, NoOne, must) \in Allowed(name, a)
             /\ Insert("admin", a, NoOne, must) \in Allowed(name, a)
             /\ \A u \in Others : Insert("child", u, a, must) \in Allowed(name, a)
             /\ \A d \in Cameras : /\ Insert("devBasic", d, NoOne, must) \in Allowed(name, a)
                                   /\ Insert("devOwner", d, a, must) \in Allowed(name, a)
  <2>1. {"basic", "admin", "child", "devBasic", "devOwner"} \subseteq AllTables
    BY DEF AllTables
  <2>2. QED
    BY <1>3, <2>1
<1>5. QED
  BY <1>1, <1>2, <1>4

(* Statements, one after the other *)
LEMMA Tuples ==
  ASSUME NEW S, NEW x \in S, NEW y \in S, NEW z \in S, NEW w \in S
  PROVE  <<x>> \in Seq(S) /\ <<x, y>> \in Seq(S) /\ <<x, y, z>> \in Seq(S) /\ <<x, y, z, w>> \in Seq(S)
OBVIOUS

(* How each call begins *)
Starts(t) ==
  \E name \in Names, a \in Owners \cup {NoOne}, s \in Scripts :
    /\ Call(t, name, a, s) /\ s \in Seq(Allowed(name, a))
    /\ name = "tables" => a = NoOne /\ s \in {CreateScript, DropScript}
    /\ name = "delete" => a \in Owners /\ s = DeleteScript(a)
    /\ name \in {"child", "device"} => a \in Owners /\ s # <<>> /\ Head(s) = Find("basic", a, 0, Len(s) - 1)

(* Statements that are allowed make a script. *)
LEMMA AllowedSeq ==
  ASSUME NEW name, NEW a, NEW s \in Seq(Allowed(name, a))
  PROVE  s \in Scripts
BY DEF Allowed, Scripts

(* The calls of a manager *)
LEMMA ManageStarts ==
  ASSUME NEW t \in Managers, Manage(t)
  PROVE  Starts(t)
<1>1. ASSUME NEW a \in Owners, NEW name \in Names \ {"list"}
      PROVE  license_del(a) \in Seq(Allowed(name, a)) /\ child_del_all(a) \in Seq(Allowed(name, a))
               /\ device_del_all(a) \in Seq(Allowed(name, a))
  <2>1. {"basic", "admin", "child", "devBasic", "devOwner"} \subseteq AllTables /\ {0, 1} \subseteq Nat
    BY DEF AllTables
  <2>2. PICK no \in BOOLEAN : no = FALSE
    OBVIOUS
  <2>3. /\ Find("basic", a, 0, 1) \in Allowed(name, a) /\ DeleteIn("admin", "admin", "uuid", a, no) \in Allowed(name, a)
        /\ DeleteIn("child", "child", "ref", a, no) \in Allowed(name, a)
        /\ DeleteIn("basic", "admin", "uuid", a, no) \in Allowed(name, a)
        /\ DeleteIn("devBasic", "devOwner", "ref", a, no) \in Allowed(name, a)
        /\ DeleteIn("devOwner", "devOwner", "ref", a, no) \in Allowed(name, a)
    BY <2>1, AllowedStatements
  <2>4. QED
    BY <2>2, <2>3, Tuples DEF license_del, child_del_all, device_del_all, DeleteRows
<1>2. ASSUME NEW a \in Owners PROVE license_set(a) \in Seq(Allowed("add", a))
  <2>1. <<Find("admin", a, 0, 2)>> \in Seq(Allowed("add", a)) /\ <<Insert("admin", a, NoOne, FALSE)>> \in Seq(Allowed("add", a))
    <3>1. Find("admin", a, 0, 2) \in Allowed("add", a) /\ Insert("admin", a, NoOne, FALSE) \in Allowed("add", a)
      BY AllowedStatements DEF AllTables, Names
    <3>2. QED
      BY <3>1, Tuples
  <2>2. <<Find("admin", a, 0, 2)>> \o license_del(a) \in Seq(Allowed("add", a))
    BY <1>1, <2>1, ConcatFacts DEF Names
  <2>3. QED
    BY <2>1, <2>2, ConcatFacts DEF license_set
<1>3. CASE db_account_ensure_table_exist(t) \/ db_account_reset(t)
  <2>1. \A table \in AllTables : CreateTable(table) \in Allowed("tables", NoOne) /\ Drop(table) \in Allowed("tables", NoOne)
    <3>1. ASSUME NEW table \in AllTables
          PROVE  /\ CreateTable(table) \in Statements /\ CreateTable(table).op = "create"
                 /\ Drop(table) \in Statements /\ Drop(table).op = "drop"
      BY DEF CreateTable, Drop, Statements, PlainStatements
    <3>2. QED
      BY <3>1 DEF Allowed
  <2>2. CreateScript \in Seq(Allowed("tables", NoOne)) /\ DropScript \in Seq(Allowed("tables", NoOne))
    BY <2>1 DEF CreateScript, DropScript, AllTables
  <2>3. Call(t, "tables", NoOne, CreateScript) \/ Call(t, "tables", NoOne, DropScript)
    BY <1>3 DEF db_account_ensure_table_exist, db_account_reset, CreateScript, DropScript
  <2>4. PICK s \in {CreateScript, DropScript} : Call(t, "tables", NoOne, s)
    BY <2>3
  <2>5. s \in Seq(Allowed("tables", NoOne)) /\ s \in Scripts
    BY <2>2, <2>4, AllowedSeq
  <2>6. QED
    BY <2>4, <2>5 DEF Starts, Names
<1>4. ASSUME NEW a \in Owners, db_account_admin_add(t, a) PROVE Starts(t)
  <2>1. <<Find("admin", a, 5, 0), Insert("basic", a, NoOne, FALSE)>> \in Seq(Allowed("add", a))
    <3>1. Find("admin", a, 5, 0) \in Allowed("add", a) /\ Insert("basic", a, NoOne, FALSE) \in Allowed("add", a)
      BY AllowedStatements DEF AllTables, Names
    <3>2. QED
      BY <3>1, Tuples
  <2>2. PICK s : s = <<Find("admin", a, 5, 0), Insert("basic", a, NoOne, FALSE)>> \o license_set(a)
    OBVIOUS
  <2>3. s \in Seq(Allowed("add", a)) /\ s \in Scripts
    BY <1>2, <2>1, <2>2, ConcatFacts, AllowedSeq
  <2>4. QED
    BY <1>4, <2>2, <2>3 DEF db_account_admin_add, Starts, Names
<1>5. ASSUME NEW a \in Owners, db_account_license_set(t, a) PROVE Starts(t)
  <2>1. license_set(a) \in Seq(Allowed("add", a)) /\ license_set(a) \in Scripts
    BY <1>2, AllowedSeq
  <2>2. QED
    BY <1>5, <2>1 DEF db_account_license_set, Starts, Names
<1>6. ASSUME NEW a \in Owners, db_account_admin_del(t, a) PROVE Starts(t)
  <2>1. <<DeleteRows("basic", "uuid", a, FALSE), DeleteRows("admin", "uuid", a, TRUE)>> \in Seq(Allowed("delete", a))
    <3>1. PICK no, yes \in BOOLEAN : no = FALSE /\ yes = TRUE
      OBVIOUS
    <3>2. DeleteIn("basic", "basic", "uuid", a, no) \in Allowed("delete", a)
          /\ DeleteIn("admin", "admin", "uuid", a, yes) \in Allowed("delete", a)
      BY AllowedStatements DEF AllTables, Names
    <3>3. QED
      BY <3>1, <3>2, Tuples DEF DeleteRows
  <2>2. <<DeleteRows("basic", "uuid", a, FALSE), DeleteRows("admin", "uuid", a, TRUE)>> \o license_del(a)
          \in Seq(Allowed("delete", a))
    BY <1>1, <2>1, ConcatFacts DEF Names
  <2>3. (<<DeleteRows("basic", "uuid", a, FALSE), DeleteRows("admin", "uuid", a, TRUE)>> \o license_del(a))
          \o child_del_all(a) \in Seq(Allowed("delete", a))
    BY <1>1, <2>2, ConcatFacts DEF Names
  <2>4. DeleteScript(a) \in Seq(Allowed("delete", a))
    BY <1>1, <2>3, ConcatFacts DEF Names, DeleteScript
  <2>5. Call(t, "delete", a, DeleteScript(a))
    BY <1>6 DEF db_account_admin_del, DeleteScript
  <2>6. QED
    BY <2>4, <2>5, AllowedSeq DEF Starts, Names
<1>7. QED
  BY <1>3, <1>4, <1>5, <1>6 DEF Manage

(* The calls of a request *)
LEMMA ServeStarts ==
  ASSUME NEW t \in Threads, Serve(t)
  PROVE  Starts(t)
<1>1. ASSUME NEW a \in Owners, NEW u \in Others, db_account_child_add(t, a, u) PROVE Starts(t)
  <2>1. PICK s : s = <<Find("basic", a, 0, 2), Insert("basic", u, NoOne, TRUE), Insert("child", u, a, TRUE)>>
    OBVIOUS
  <2>2. s # <<>> /\ Head(s) = Find("basic", a, 0, Len(s) - 1)
    BY <2>1
  <2>3. /\ Find("basic", a, 0, 2) \in Allowed("child", a) /\ Insert("basic", u, NoOne, TRUE) \in Allowed("child", a)
        /\ Insert("child", u, a, TRUE) \in Allowed("child", a)
    BY AllowedStatements DEF AllTables, Names
  <2>4. s \in Seq(Allowed("child", a)) /\ s \in Scripts
    BY <2>1, <2>3, Tuples, AllowedSeq
  <2>5. Call(t, "child", a, s)
    BY <1>1, <2>1 DEF db_account_child_add
  <2>6. QED
    BY <2>2, <2>4, <2>5 DEF Starts, Names
<1>2. ASSUME NEW a \in Owners, NEW d \in Cameras, db_account_device_add(t, a, d) PROVE Starts(t)
  <2>1. PICK s : s = <<Find("basic", a, 0, 3), Find("admin", a, 0, 2),
                       Insert("devBasic", d, NoOne, TRUE), Insert("devOwner", d, a, TRUE)>>
    OBVIOUS
  <2>2. s # <<>> /\ Head(s) = Find("basic", a, 0, Len(s) - 1)
    BY <2>1
  <2>3. /\ Find("basic", a, 0, 3) \in Allowed("device", a) /\ Find("admin", a, 0, 2) \in Allowed("device", a)
        /\ Insert("devBasic", d, NoOne, TRUE) \in Allowed("device", a)
        /\ Insert("devOwner", d, a, TRUE) \in Allowed("device", a)
    BY AllowedStatements DEF AllTables, Names
  <2>4. s \in Seq(Allowed("device", a)) /\ s \in Scripts
    BY <2>1, <2>3, Tuples, AllowedSeq
  <2>5. Call(t, "device", a, s)
    BY <1>2, <2>1 DEF db_account_device_add
  <2>6. QED
    BY <2>2, <2>4, <2>5 DEF Starts, Names
<1>3. ASSUME NEW a \in Owners \cup {NoOne}, NEW table \in AllTables, NEW from \in AllTables, List(t, a, table, from)
      PROVE  Starts(t)
  <2>1. \A op \in {"count", "fetch"} : Select(op, table, from, a) \in Allowed("list", a)
    <3>1. ASSUME NEW op \in {"count", "fetch"}
          PROVE  Select(op, table, from, a) \in Statements /\ Select(op, table, from, a).op = op
      BY DEF Select, Statements, ListStatements
    <3>2. QED
      BY <3>1 DEF Allowed
  <2>2. PICK s : s = <<Select("count", table, from, a), Select("fetch", table, from, a)>>
    OBVIOUS
  <2>3. s \in Seq(Allowed("list", a)) /\ s \in Scripts
    BY <2>1, <2>2, Tuples, AllowedSeq
  <2>4. QED
    BY <1>3, <2>2, <2>3 DEF List, Starts, Names
<1>4. QED
  BY <1>1, <1>2, <1>3 DEF Serve, db_account_list_child_get, db_account_device_get, db_account_list_admin_get, AllTables

(* Calls that differ at most in the rows of a list *)
SameCall(c, d) == c.todo = d.todo /\ c.at = d.at /\ c.then = d.then /\ c.about = d.about /\ c.name = d.name

(* What a step of thread t changes that calls about admin a look at *)
Undone(a) ==
  /\ db' = db /\ tabs' = tabs /\ (a \in deleted' => a \in deleted)
  /\ \A k \in 1..9 : Cleared(a, k) => Cleared(a, k)'

(* A call of thread q stands as it did. *)
LEMMA CallStays ==
  ASSUME NEW a \in Owners, NEW q \in Threads, ThreadOk(q, a), SameCall(thr'[q], thr[q]), Undone(a)
  PROVE  ThreadOk(q, a)'
<1> SUFFICES ASSUME Busy(q)' PROVE ThreadOk(q, a)'
  BY DEF ThreadOk
<1>0. Busy(q)
  BY DEF Busy, SameCall
<1>1. thr'[q].name = "tables" => Tabling(thr[q])'
  <2>1. ASSUME thr'[q].name = "tables" PROVE Tabling(thr[q])'
    <3>1. Tabling(thr[q])
      BY <1>0, <2>1 DEF ThreadOk, SameCall
    <3>2. db' = db /\ tabs' = tabs
      BY DEF Undone
    <3>3. QED
      BY <3>1, <3>2 DEF Tabling, Agreed, Created, Dropped, SameCall
  <2>2. QED
    BY <2>1
<1>2. thr'[q].name = "delete" /\ thr'[q].about = a => Deleting(thr[q], a)'
  <2>1. ASSUME thr'[q].name = "delete", thr'[q].about = a PROVE Deleting(thr[q], a)'
    <3>1. Deleting(thr[q], a)
      BY <1>0, <2>1 DEF ThreadOk, SameCall
    <3>2. \A k \in 1..9 : Cleared(a, k) => Cleared(a, k)'
      BY DEF Undone
    <3>3. 1..8 \subseteq 1..9 /\ 2..9 \subseteq 1..9
      OBVIOUS
    <3>4. CASE thr[q].at \in {"wait", "locked"}
      <4>1. PICK k \in 1..8 : thr[q].todo = Suffix(DeleteScript(a), k) /\ Cleared(a, k)
        BY <3>1, <3>4 DEF Deleting
      <4>2. thr'[q].at \in {"wait", "locked"} /\ thr'[q].todo = Suffix(DeleteScript(a), k) /\ Cleared(a, k)'
        BY <3>2, <3>3, <3>4, <4>1 DEF SameCall
      <4>3. QED
        BY <4>2 DEF Deleting
    <3>5. CASE thr[q].at \notin {"wait", "locked"}
      <4>1. PICK k \in 2..9 : thr[q].at = "executed" /\ thr[q].then = Suffix(DeleteScript(a), k) /\ Cleared(a, k)
        BY <3>1, <3>5 DEF Deleting
      <4>2. thr'[q].at = "executed" /\ thr'[q].then = Suffix(DeleteScript(a), k) /\ Cleared(a, k)'
        BY <3>2, <3>3, <4>1 DEF SameCall
      <4>3. QED
        BY <4>2 DEF Deleting
    <3>6. QED
      BY <3>4, <3>5
  <2>2. QED
    BY <2>1
<1>3. a \in deleted' /\ thr'[q].about = a =>
        thr'[q].name # "add" /\ (thr'[q].name \in {"child", "device"} => TurnedAway(thr[q], a)')
  BY <1>0 DEF Undone, ThreadOk, TurnedAway, SameCall
<1>4. QED
  BY <1>1, <1>2, <1>3 DEF ThreadOk

(* So does that of another thread. *)
LEMMA OthersOk ==
  ASSUME NEW a \in Owners, NEW t \in Threads, NEW q \in Threads, q # t,
         Alone(a), CallSound(thr[q]), ThreadOk(q, a), SameCall(thr'[q], thr[q]),
         Concerns(t, a) \/ Undone(a)
  PROVE  ThreadOk(q, a)'
<1> SUFFICES ASSUME Busy(q)', Concerns(t, a) PROVE ThreadOk(q, a)'
  BY CallStays DEF ThreadOk
<1>1. Busy(q)
  BY DEF Busy, SameCall
<1>2. thr[q].about # a /\ thr[q].about # NoOne
  BY <1>1 DEF Alone, Concerns
<1>3. thr'[q].about # a /\ thr'[q].name # "tables"
  BY <1>2 DEF CallSound, SameCall
<1>4. QED
  BY <1>3 DEF ThreadOk

(* A step of thread t keeps OwnerOk if it does so where the thread is concerned. *)
LEMMA OwnerMoves ==
  ASSUME NEW a \in Owners, NEW t \in Threads, OwnerOk(a), \A q \in Threads : CallSound(thr[q]),
         \A q \in Threads \ {t} : SameCall(thr'[q], thr[q]),
         Concerns(t, a) \/ Undone(a),
         Concerns(t, a)' => Concerns(t, a) \/ \A q \in Threads : ~Concerns(q, a),
         \/ Busy(t)' /\ thr'[t].name = "tables"
         \/ Agreed'
         \/ tabs' = tabs /\ (Busy(t) => thr[t].name # "tables"),
         a \in deleted' => Gone(a)',
         ThreadOk(t, a)'
  PROVE  OwnerOk(a)'
<1>1. Alone(a) /\ Settled /\ \A q \in Threads : ThreadOk(q, a)
  BY DEF OwnerOk
<1>2. \A q \in Threads \ {t} : (Busy(q)' <=> Busy(q)) /\ (Concerns(q, a)' <=> Concerns(q, a)) /\ thr'[q].name = thr[q].name
  BY DEF SameCall, Busy, Concerns
<1>3. Alone(a)'
  <2> SUFFICES ASSUME NEW p \in Threads, NEW q \in Threads, Concerns(p, a)', Concerns(q, a)' PROVE p = q
    BY DEF Alone
  <2>1. CASE p = t /\ q # t
    BY <1>1, <1>2, <2>1 DEF Alone
  <2>2. CASE p # t /\ q = t
    BY <1>1, <1>2, <2>2 DEF Alone
  <2>3. CASE p # t /\ q # t
    BY <1>1, <1>2, <2>3 DEF Alone
  <2>4. QED
    BY <2>1, <2>2, <2>3
<1>4. Settled'
  <2> SUFFICES ASSUME \A q \in Threads : Busy(q)' => thr'[q].name # "tables" PROVE Agreed'
    BY DEF Settled
  <2>1. CASE tabs' = tabs /\ (Busy(t) => thr[t].name # "tables")
    <3>1. \A q \in Threads : Busy(q) => thr[q].name # "tables"
      BY <1>2, <2>1
    <3>2. Agreed
      BY <1>1, <3>1 DEF Settled
    <3>3. QED
      BY <2>1, <3>2 DEF Agreed
  <2>2. QED
    BY <2>1
<1>5. ASSUME NEW q \in Threads PROVE ThreadOk(q, a)'
  BY <1>1, OthersOk
<1>6. QED
  BY <1>3, <1>4, <1>5 DEF OwnerOk

(* What of the admin is gone stays gone, unless a row of it is added. *)
LEMMA RowsStay ==
  ASSUME DbTypes, NEW t \in Threads, Write(t), CallSound(thr[t]), NEW a \in Owners,
         thr[t].about # a \/ Head(thr[t].todo).op # "insert"
  PROVE  /\ \A table \in {"basic", "admin"} : NoUuid(table, a) => NoUuid(table, a)'
         /\ \A table \in {"child", "devOwner"} : NoRef(table, a) => NoRef(table, a)'
<1>1. PICK s : s = Head(thr[t].todo)
  OBVIOUS
<1>2. s \in Allowed(thr[t].name, thr[t].about)
  BY <1>1, SuffixFacts DEF Write, Busy, CallSound
<1>3. rowsOf' = [rowsOf EXCEPT ![s.table] = After(s)] /\ s.op \in {"insert", "delete", "create", "drop"}
  BY <1>1 DEF Write
<1>4. s.table \in AllTables
  BY <1>2 DEF Allowed, Statements, PlainStatements, ListStatements
<1>5. \A table \in AllTables : table # s.table => rowsOf'[table] = rowsOf[table]
  BY <1>3, <1>4 DEF DbTypes
<1>6. rowsOf'[s.table] = After(s)
  BY <1>3, <1>4 DEF DbTypes
<1>7. {"basic", "admin", "child", "devOwner"} \subseteq AllTables
  BY DEF AllTables
<1>8. CASE s.op # "insert"
  <2>1. After(s) \subseteq rowsOf[s.table]
    BY <1>3, <1>8 DEF After
  <2>2. \A table \in AllTables : rowsOf'[table] \subseteq rowsOf[table]
    BY <1>5, <1>6, <2>1
  <2>3. QED
    BY <1>7, <2>2 DEF NoUuid, NoRef
<1>9. CASE s.op = "insert"
  <2>1. After(s) = rowsOf[s.table] \cup {s.row}
    BY <1>9 DEF After
  <2>2. thr[t].about \in Owners /\ thr[t].about # a
    BY <1>1, <1>2, <1>9 DEF Allowed
  <2>3. /\ s.table \in {"basic", "admin"} => s.row.uuid # a
        /\ s.table \in {"child", "devOwner"} => s.row.ref # a
    BY <1>2, <1>9, <2>2, UuidsAssumption DEF Allowed
  <2>4. \A table \in AllTables : table # s.table => rowsOf'[table] = rowsOf[table]
    BY <1>5
  <2>5. QED
    BY <1>6, <1>7, <2>1, <2>3, <2>4 DEF NoUuid, NoRef
<1>10. QED
  BY <1>8, <1>9

(* What was cleared *)
LEMMA ClearedStays ==
  ASSUME NEW a,
         \A table \in {"basic", "admin"} : NoUuid(table, a) => NoUuid(table, a)',
         \A table \in {"child", "devOwner"} : NoRef(table, a) => NoRef(table, a)'
  PROVE  /\ \A k \in 1..9 : Cleared(a, k) => Cleared(a, k)'
         /\ Gone(a) => Gone(a)'
BY DEF Cleared, Gone

(* Where a call that deletes an admin is, ... *)
LEMMA DeleteAt ==
  ASSUME NEW a \in Owners
  PROVE  LET s == DeleteScript(a) IN
         /\ \A k \in 1..8 : Suffix(s, k) # <<>> /\ Head(Suffix(s, k)) = s[k] /\ Tail(Suffix(s, k)) = Suffix(s, k + 1)
         /\ Suffix(s, 1) = s /\ Suffix(s, 9) = <<>>
<1>0. PICK s : s = DeleteScript(a)
  OBVIOUS
<1>1. s \in Seq(PlainStatements) /\ Len(s) = 8
  BY <1>0, DeleteStatements
<1>2. ASSUME NEW k \in 1..8
      PROVE  Suffix(s, k) # <<>> /\ Head(Suffix(s, k)) = s[k] /\ Tail(Suffix(s, k)) = Suffix(s, k + 1)
  <2>1. k \in Nat /\ 1 <= k /\ k <= Len(s)
    BY <1>1
  <2>2. QED
    BY <1>1, <2>1, SuffixStep
<1>3. Suffix(s, 1) = s /\ Suffix(s, 9) = <<>>
  <2>1. Suffix(s, 1) = s /\ Suffix(s, Len(s) + 1) = <<>>
    BY <1>1, SuffixEnds
  <2>2. Len(s) + 1 = 9
    BY <1>1
  <2>3. QED
    BY <2>1, <2>2
<1>4. QED
  BY <1>0, <1>2, <1>3

(* ... and one that makes or drops the tables *)
LEMMA TableAt ==
  ASSUME NEW s \in {CreateScript, DropScript}
  PROVE  /\ \A k \in 1..5 : Suffix(s, k) # <<>> /\ Head(Suffix(s, k)) = s[k] /\ Tail(Suffix(s, k)) = Suffix(s, k + 1)
         /\ Suffix(s, 1) = s /\ Suffix(s, 6) = <<>>
<1>1. s \in Seq(PlainStatements) /\ Len(s) = 5
  BY TableStatements
<1>2. ASSUME NEW k \in 1..5
      PROVE  Suffix(s, k) # <<>> /\ Head(Suffix(s, k)) = s[k] /\ Tail(Suffix(s, k)) = Suffix(s, k + 1)
  <2>1. k \in Nat /\ 1 <= k /\ k <= Len(s)
    BY <1>1
  <2>2. QED
    BY <1>1, <2>1, SuffixStep
<1>3. Suffix(s, 1) = s /\ Suffix(s, 6) = <<>>
  <2>1. Suffix(s, 1) = s /\ Suffix(s, Len(s) + 1) = <<>>
    BY <1>1, SuffixEnds
  <2>2. Len(s) + 1 = 6
    BY <1>1
  <2>3. QED
    BY <2>1, <2>2
<1>4. QED
  BY <1>2, <1>3

(* DELETE FROM table WHERE column = a *)
Deletes(s, table, column, a) ==
  s.op = "delete" /\ s.table = table /\ s.from = table /\ s.column = column /\ s.value = a

(* It leaves no row that it is about. *)
LEMMA DeletesRows ==
  ASSUME NEW table, NEW a, NEW s
  PROVE  /\ Deletes(s, table, "uuid", a) => \A r \in After(s) : r.uuid # a
         /\ Deletes(s, table, "ref", a) => \A r \in After(s) : r.ref # a
<1>1. ASSUME NEW column \in {"uuid", "ref"}, Deletes(s, table, column, a), NEW r \in After(s) PROVE r[column] # a
  <2>1. s.op = "delete" /\ s.table = table /\ s.from = table /\ s.column = column /\ s.value = a
    BY <1>1 DEF Deletes
  <2>2. After(s) = {x \in rowsOf[table] : ~\E f \in rowsOf[table] : f.uuid = x.uuid /\ f[column] = a}
    BY <2>1 DEF After
  <2>3. QED
    BY <1>1, <2>2
<1>2. QED
  BY <1>1

(* The statements of DeleteScript that clear a table *)
LEMMA Clearing ==
  ASSUME NEW a \in Owners
  PROVE  LET s == DeleteScript(a) IN
         /\ Deletes(s[1], "basic", "uuid", a) /\ Deletes(s[2], "admin", "uuid", a)
         /\ Deletes(s[5], "child", "ref", a) /\ Deletes(s[8], "devOwner", "ref", a)
<1>1. \A table, column, must : Deletes(DeleteRows(table, column, a, must), table, column, a)
  BY DEF Deletes, DeleteRows, DeleteIn
<1>2. QED
  BY <1>1, DeleteStatements, Zenon

(* What statement k of DeleteScript leaves when it is executed, ... *)
LEMMA ClearedMore ==
  ASSUME NEW a \in Owners, NEW k \in 1..8, k # 3, Cleared(a, k)',
         NEW s, s = DeleteScript(a)[k], rowsOf'[s.table] = After(s)
  PROVE  Cleared(a, k + 1)'
<1>1. /\ k = 1 => Deletes(s, "basic", "uuid", a)
      /\ k = 2 => Deletes(s, "admin", "uuid", a)
      /\ k = 5 => Deletes(s, "child", "ref", a)
      /\ k = 8 => Deletes(s, "devOwner", "ref", a)
  BY Clearing
<1>2. \A table, column : Deletes(s, table, column, a) => s.table = table
  BY DEF Deletes
<1>3. \A table : /\ Deletes(s, table, "uuid", a) => NoUuid(table, a)'
                 /\ Deletes(s, table, "ref", a) => NoRef(table, a)'
  BY <1>2, DeletesRows DEF NoUuid, NoRef
<1>4. /\ k + 1 > 1 => k > 1 \/ k = 1
      /\ k + 1 > 2 => k > 2 \/ k = 2
      /\ k + 1 > 5 => k > 5 \/ k = 5
      /\ k + 1 > 8 => k > 8 \/ k = 8
  OBVIOUS
<1>5. /\ k = 1 => NoUuid("basic", a)'
      /\ k = 2 => NoUuid("admin", a)'
      /\ k = 5 => NoRef("child", a)'
      /\ k = 8 => NoRef("devOwner", a)'
  BY <1>1, <1>3
<1>6. QED
  BY <1>4, <1>5 DEF Cleared

(* ... and when it fails because there is no table. *)
LEMMA ClearedFails ==
  ASSUME RowsSound, NEW a \in Owners, NEW k \in 1..8, k # 3, Cleared(a, k),
         Agreed, ~Possible(DeleteScript(a)[k])
  PROVE  IF k = 2 THEN Cleared(a, 9) ELSE Cleared(a, k + 1)
<1>1. PICK s : s = DeleteScript(a)[k]
  OBVIOUS
<1>2. /\ k = 1 => Deletes(s, "basic", "uuid", a)
      /\ k = 2 => Deletes(s, "admin", "uuid", a)
      /\ k = 5 => Deletes(s, "child", "ref", a)
      /\ k = 8 => Deletes(s, "devOwner", "ref", a)
  BY <1>1, Clearing
<1>3. \A table, column : Deletes(s, table, column, a) => table \notin tabs
  BY <1>1 DEF Deletes, Possible
<1>4. \A table \in {"basic", "admin", "child", "devOwner"} : table \notin tabs => rowsOf[table] = {}
  BY DEF RowsSound, AllTables
<1>5. k = 1 => NoUuid("basic", a)
  BY <1>1, <1>2, <1>3, <1>4 DEF NoUuid
<1>6. k = 2 => NoUuid("admin", a) /\ NoRef("child", a) /\ NoRef("devOwner", a)
  BY <1>1, <1>2, <1>3, <1>4 DEF NoUuid, NoRef, Agreed
<1>7. k = 5 => NoRef("child", a)
  BY <1>1, <1>2, <1>3, <1>4 DEF NoRef
<1>8. k = 8 => NoRef("devOwner", a)
  BY <1>1, <1>2, <1>3, <1>4 DEF NoRef
<1>9. CASE k = 2
  <2>1. NoUuid("basic", a)
    BY <1>9 DEF Cleared
  <2>2. QED
    BY <1>6, <1>9, <2>1 DEF Cleared
<1>10. CASE k # 2
  <2>1. /\ k + 1 > 1 => k > 1 \/ k = 1
        /\ k + 1 > 2 => k > 2
        /\ k + 1 > 5 => k > 5 \/ k = 5
        /\ k + 1 > 8 => k > 8 \/ k = 8
    BY <1>10
  <2>2. Cleared(a, k + 1)
    BY <1>5, <1>7, <1>8, <2>1 DEF Cleared
  <2>3. QED
    BY <1>10, <2>2
<1>11. QED
  BY <1>9, <1>10

(* The fields of a call whose statement was executed *)
LEMMA ExecutedFields ==
  ASSUME DbTypes, NEW t \in Threads, NEW s, NEW c, c = Executed(t, s)
  PROVE  /\ c.todo = thr[t].todo /\ c.at = "executed" /\ c.then = s
         /\ c.about = thr[t].about /\ c.name = thr[t].name
BY DEF Executed, DbTypes, CallType

(* The statements that make and drop the tables *)
LEMMA TableWrites ==
  ASSUME DbTypes, NEW t \in Threads, Write(t), thr[t].name = "tables", Tabling(thr[t])
  PROVE  Tabling(thr[t])'
<1>1. PICK s : s = Head(thr[t].todo)
  OBVIOUS
<1>2. thr'[t] = Executed(t, Tail(thr[t].todo)) /\ thr[t].at = "locked" /\ db' = db
  BY DEF Write
<1>3. thr'[t].at = "executed" /\ thr'[t].then = Tail(thr[t].todo)
  BY <1>2, ExecutedFields
<1>4. tabs' = CASE s.op = "create" -> tabs \cup {s.table} [] s.op = "drop" -> tabs \ {s.table} [] OTHER -> tabs
  BY <1>1 DEF Write
<1>5. PICK k \in 1..5 : /\ db
                        /\ \/ thr[t].todo = Suffix(CreateScript, k) /\ Created(k)
                           \/ thr[t].todo = Suffix(DropScript, k) /\ Dropped(k)
  BY <1>2 DEF Tabling
<1>6. k + 1 \in 2..6
  OBVIOUS
<1>7. CASE thr[t].todo = Suffix(CreateScript, k) /\ Created(k)
  <2>1. s = CreateScript[k] /\ thr'[t].then = Suffix(CreateScript, k + 1)
    BY <1>1, <1>3, <1>7, TableAt
  <2>2. s.op = "create" /\ (k = 2 => s.table = "admin")
    BY <2>1, TableStatements DEF CreateTable
  <2>3. tabs' = tabs \cup {s.table}
    BY <1>4, <2>2
  <2>4. Created(k + 1)'
    <3>1. k + 1 > 2 => k > 2 \/ k = 2
      OBVIOUS
    <3>2. k + 1 > 2 => "admin" \in tabs'
      BY <1>7, <2>2, <2>3, <3>1 DEF Created
    <3>3. Agreed'
      <4>1. CASE k \in {1, 2}
        <5>1. k = 1 => s.table = "basic"
          BY <2>1, TableStatements DEF CreateTable
        <5>2. QED
          BY <1>7, <2>2, <2>3, <4>1, <5>1 DEF Created, Agreed
      <4>2. CASE k \notin {1, 2}
        <5>1. k > 2
          BY <4>2
        <5>2. QED
          BY <1>7, <2>3, <5>1 DEF Created, Agreed
      <4>3. QED
        BY <4>1, <4>2
    <3>4. QED
      BY <3>2, <3>3 DEF Created
  <2>5. QED
    BY <1>2, <1>3, <1>5, <1>6, <2>1, <2>4 DEF Tabling
<1>8. CASE thr[t].todo = Suffix(DropScript, k) /\ Dropped(k)
  <2>1. s = DropScript[k] /\ thr'[t].then = Suffix(DropScript, k + 1)
    BY <1>1, <1>3, <1>8, TableAt
  <2>2. s.op = "drop" /\ (k = 3 => s.table = "child") /\ (k = 5 => s.table = "devOwner")
    BY <2>1, TableStatements DEF Drop
  <2>3. tabs' = tabs \ {s.table}
    BY <1>4, <2>2
  <2>4. Dropped(k + 1)'
    <3>1. (k + 1 > 3 => k > 3 \/ k = 3) /\ (k + 1 > 5 => k > 5 \/ k = 5)
      OBVIOUS
    <3>2. QED
      BY <1>8, <2>2, <2>3, <3>1 DEF Dropped
  <2>5. QED
    BY <1>2, <1>3, <1>5, <1>6, <2>1, <2>4 DEF Tabling
<1>9. QED
  BY <1>5, <1>7, <1>8

(* The statements that delete an admin *)
LEMMA DeleteWrites ==
  ASSUME DbTypes, NEW t \in Threads, Write(t), CallSound(thr[t]), NEW a \in Owners, thr[t].about = a,
         thr[t].name = "delete", Deleting(thr[t], a)
  PROVE  Deleting(thr[t], a)'
<1>1. PICK s : s = Head(thr[t].todo)
  OBVIOUS
<1>2. thr'[t] = Executed(t, Tail(thr[t].todo)) /\ thr[t].at = "locked" /\ Busy(t)
  BY DEF Write
<1>3. thr'[t].at = "executed" /\ thr'[t].then = Tail(thr[t].todo)
  BY <1>2, ExecutedFields
<1>4. PICK k \in 1..8 : thr[t].todo = Suffix(DeleteScript(a), k) /\ Cleared(a, k)
  BY <1>2 DEF Deleting
<1>5. s = DeleteScript(a)[k] /\ thr'[t].then = Suffix(DeleteScript(a), k + 1)
  <2>1. /\ Head(Suffix(DeleteScript(a), k)) = DeleteScript(a)[k]
        /\ Tail(Suffix(DeleteScript(a), k)) = Suffix(DeleteScript(a), k + 1)
    BY <1>4, DeleteAt
  <2>2. QED
    BY <1>1, <1>3, <1>4, <2>1
<1>6. s \in Allowed("delete", a)
  BY <1>1, <1>2, SuffixFacts DEF Busy, CallSound
<1>7. s.op # "insert" /\ s.table \in AllTables
  BY <1>6 DEF Allowed, Statements, PlainStatements, ListStatements
<1>8. k # 3
  <2>1. Find("basic", a, 0, 1).op = "find"
    BY DEF Find
  <2>2. s.op \in {"insert", "delete", "create", "drop"}
    BY <1>1 DEF Write
  <2>3. QED
    BY <1>5, <2>1, <2>2, DeleteStatements
<1>9. Cleared(a, k)'
  <2>1. /\ \A table \in {"basic", "admin"} : NoUuid(table, a) => NoUuid(table, a)'
        /\ \A table \in {"child", "devOwner"} : NoRef(table, a) => NoRef(table, a)'
    BY <1>1, <1>7, RowsStay
  <2>2. k \in 1..9
    OBVIOUS
  <2>3. QED
    BY <1>4, <2>1, <2>2, ClearedStays
<1>10. rowsOf'[s.table] = After(s)
  BY <1>1, <1>7 DEF Write, DbTypes
<1>11. Cleared(a, k + 1)'
  BY <1>5, <1>8, <1>9, <1>10, ClearedMore
<1>12. k + 1 \in 2..9
  OBVIOUS
<1>13. QED
  BY <1>3, <1>5, <1>11, <1>12 DEF Deleting

(* A statement that writes is executed. *)
LEMMA WriteOwner ==
  ASSUME DbTypes, GoneInv, NEW t \in Threads, Write(t), NEW a \in Owners \ unsure'
  PROVE  OwnerOk(a)'
<1>1. PICK s : s = Head(thr[t].todo)
  OBVIOUS
<1>2. Busy(t) /\ thr[t].at = "locked" /\ s.op \in {"insert", "delete", "create", "drop"}
  BY <1>1 DEF Write
<1>3. thr'[t] = Executed(t, Tail(thr[t].todo)) /\ db' = db /\ deleted' = deleted /\ unsure' = unsure
  BY DEF Write
<1>4. /\ thr'[t].todo = thr[t].todo /\ thr'[t].at = "executed" /\ thr'[t].about = thr[t].about
      /\ thr'[t].name = thr[t].name
  BY <1>3, ExecutedFields
<1>5. OwnerOk(a) /\ \A q \in Threads : CallSound(thr[q])
  BY <1>3 DEF GoneInv
<1>6. ASSUME NEW q \in Threads \ {t} PROVE SameCall(thr'[q], thr[q])
  <2>1. thr'[q] = [thr[q] EXCEPT !.stale = @ \/ (Busy(q) /\ Head(thr[q].todo).op = "fetch")]
    BY DEF Write
  <2>2. QED
    BY <2>1 DEF SameCall, DbTypes, CallType
<1>7. s \in Allowed(thr[t].name, thr[t].about)
  BY <1>1, <1>2, <1>5, SuffixFacts DEF Busy, CallSound
<1>8. thr[t].name # "tables" => tabs' = tabs
  BY <1>1, <1>7 DEF Allowed, Write
<1>9. thr[t].about # a \/ s.op # "insert" =>
        /\ \A k \in 1..9 : Cleared(a, k) => Cleared(a, k)'
        /\ Gone(a) => Gone(a)'
  BY <1>1, <1>5, RowsStay, ClearedStays
<1>10. Concerns(t, a) \/ Undone(a)
  BY <1>2, <1>3, <1>5, <1>8, <1>9 DEF Concerns, CallSound, Undone
<1>11. Concerns(t, a)' => Concerns(t, a)
  BY <1>4 DEF Concerns, Busy
<1>12. \/ Busy(t)' /\ thr'[t].name = "tables"
       \/ tabs' = tabs /\ (Busy(t) => thr[t].name # "tables")
  BY <1>2, <1>4, <1>8 DEF Busy
<1>13. a \in deleted /\ thr[t].about = a => thr[t].name \notin {"add", "child", "device"}
  <2>1. ASSUME a \in deleted, thr[t].about = a, thr[t].name \in {"child", "device"} PROVE FALSE
    <3>1. TurnedAway(thr[t], a)
      BY <1>2, <1>5, <2>1 DEF OwnerOk, ThreadOk
    <3>2. s.op = "find"
      BY <1>1, <1>2, <3>1 DEF TurnedAway, Find
    <3>3. QED
      BY <1>2, <3>2
  <2>2. QED
    BY <1>2, <1>5, <2>1 DEF OwnerOk, ThreadOk
<1>14. a \in deleted' => Gone(a)'
  <2>1. a \in deleted => thr[t].about # a \/ s.op # "insert"
    BY <1>7, <1>13 DEF Allowed
  <2>2. QED
    BY <1>3, <1>5, <1>9, <2>1 DEF OwnerOk
<1>15. ThreadOk(t, a)'
  <2>1. ThreadOk(t, a)
    BY <1>5 DEF OwnerOk
  <2>2. thr'[t].name = "tables" => Tabling(thr[t])'
    BY <1>2, <1>4, <2>1, TableWrites DEF ThreadOk
  <2>3. thr'[t].name = "delete" /\ thr'[t].about = a => Deleting(thr[t], a)'
    BY <1>2, <1>4, <1>5, <2>1, DeleteWrites DEF ThreadOk
  <2>4. a \in deleted' /\ thr'[t].about = a => thr'[t].name \notin {"add", "child", "device"}
    BY <1>3, <1>4, <1>13
  <2>5. QED
    BY <2>2, <2>3, <2>4 DEF ThreadOk
<1>16. QED
  BY <1>5, <1>6, <1>10, <1>11, <1>12, <1>14, <1>15, OwnerMoves

(* A step of a call that is under way changes no table. *)
LEMMA ReadOwner ==
  ASSUME GoneInv, NEW t \in Threads, NEW a \in Owners \ unsure,
         UNCHANGED <<db, tabs, rowsOf>>,
         \A q \in Threads \ {t} : thr'[q] = thr[q],
         Busy(t), Busy(t)' => thr'[t].about = thr[t].about /\ thr'[t].name = thr[t].name,
         a \in deleted' => a \in deleted \/ (Concerns(t, a) /\ Gone(a)),
         Busy(t)' \/ Agreed \/ thr[t].name # "tables",
         ThreadOk(t, a)'
  PROVE  OwnerOk(a)'
<1>1. OwnerOk(a) /\ \A q \in Threads : CallSound(thr[q])
  BY DEF GoneInv
<1>2. \A q \in Threads \ {t} : SameCall(thr'[q], thr[q])
  BY DEF SameCall
<1>3. \A k \in 1..9 : Cleared(a, k) => Cleared(a, k)'
  BY DEF Cleared, NoUuid, NoRef
<1>4. Concerns(t, a) \/ Undone(a)
  BY <1>3 DEF Undone
<1>5. Concerns(t, a)' => Concerns(t, a)
  BY DEF Concerns, Busy
<1>6. \/ Busy(t)' /\ thr'[t].name = "tables"
      \/ Agreed'
      \/ tabs' = tabs /\ (Busy(t) => thr[t].name # "tables")
  BY DEF Agreed
<1>7. a \in deleted' => Gone(a)'
  BY <1>1 DEF OwnerOk, Gone, NoUuid, NoRef
<1>8. QED
  BY <1>1, <1>2, <1>4, <1>5, <1>6, <1>7, OwnerMoves

(* A call begins. *)
LEMMA CallOwner ==
  ASSUME DbTypes, GoneInv, NEW t \in Threads, Starts(t), NEW a \in Owners \ unsure'
  PROVE  OwnerOk(a)'
<1>1. PICK name \in Names, b \in Owners \cup {NoOne}, s \in Scripts :
        /\ Call(t, name, b, s) /\ s \in Seq(Allowed(name, b))
        /\ name = "tables" => b = NoOne /\ s \in {CreateScript, DropScript}
        /\ name = "delete" => b \in Owners /\ s = DeleteScript(b)
        /\ name \in {"child", "device"} => b \in Owners /\ s # <<>> /\ Head(s) = Find("basic", b, 0, Len(s) - 1)
  BY DEF Starts
<1>2. PICK c : c = [NoCall EXCEPT !.todo = s, !.about = b, !.name = name]
  OBVIOUS
<1>3. c.todo = s /\ c.at = "wait" /\ c.then = <<>> /\ c.about = b /\ c.name = name
  BY <1>2 DEF NoCall
<1>4. ~Busy(t) /\ thr'[t] = c /\ \A q \in Threads \ {t} : thr'[q] = thr[q]
  BY <1>1, <1>2 DEF Call, DbTypes
<1>5. /\ unsure' = unsure \cup {x \in Owners : x \in {b} \cup (IF b = NoOne THEN Owners ELSE {})
                    /\ \E q \in Threads : Busy(q) /\ thr[q].about \in {x, NoOne}}
      /\ deleted' = IF name = "add" THEN deleted \ {b} ELSE deleted
      /\ UNCHANGED <<db, lock, tabs, rowsOf>>
  BY <1>1 DEF Call
<1>6. OwnerOk(a) /\ \A q \in Threads : CallSound(thr[q])
  BY <1>5 DEF GoneInv
<1>7. \A q \in Threads \ {t} : SameCall(thr'[q], thr[q])
  BY <1>4 DEF SameCall
<1>8. \A k \in 1..9 : Cleared(a, k) => Cleared(a, k)'
  BY <1>5 DEF Cleared, NoUuid, NoRef
<1>9. Undone(a)
  BY <1>5, <1>8 DEF Undone
<1>10. b \in {a, NoOne} => \A q \in Threads : ~Concerns(q, a)
  BY <1>5 DEF Concerns
<1>11. Concerns(t, a)' => \A q \in Threads : ~Concerns(q, a)
  BY <1>3, <1>4, <1>10 DEF Concerns
<1>12. a \in deleted' => Gone(a)'
  BY <1>5, <1>6 DEF OwnerOk, Gone, NoUuid, NoRef
<1>13. ASSUME name = "tables" PROVE Agreed /\ Tabling(thr[t])'
  <2>1. \A q \in Threads : Busy(q) => thr[q].name # "tables"
    BY <1>1, <1>6, <1>10, <1>13 DEF Concerns, CallSound
  <2>2. Agreed
    BY <1>6, <2>1 DEF OwnerOk, Settled
  <2>3. thr'[t].at = "wait" /\ thr'[t].todo \in {CreateScript, DropScript}
    BY <1>1, <1>3, <1>4, <1>13
  <2>4. Agreed'
    BY <1>5, <2>2 DEF Agreed
  <2>5. QED
    BY <2>2, <2>3, <2>4 DEF Tabling
<1>14. ASSUME name = "delete", b = a PROVE Deleting(thr[t], a)'
  <2>1. Suffix(DeleteScript(a), 1) = DeleteScript(a)
    BY DeleteAt
  <2>2. thr'[t].todo = Suffix(DeleteScript(a), 1) /\ thr'[t].at = "wait"
    BY <1>1, <1>3, <1>4, <1>14, <2>1
  <2>3. Cleared(a, 1)' /\ 1 \in 1..8
    BY DEF Cleared
  <2>4. QED
    BY <2>2, <2>3 DEF Deleting
<1>15. a \in deleted' /\ b = a => name # "add" /\ (name \in {"child", "device"} => TurnedAway(thr[t], a)')
  BY <1>1, <1>3, <1>4, <1>5 DEF TurnedAway
<1>16. ThreadOk(t, a)'
  BY <1>3, <1>4, <1>13, <1>14, <1>15 DEF ThreadOk
<1>17. \/ Busy(t)' /\ thr'[t].name = "tables"
       \/ Agreed'
       \/ tabs' = tabs /\ (Busy(t) => thr[t].name # "tables")
  BY <1>4, <1>5
<1>18. QED
  BY <1>6, <1>7, <1>9, <1>11, <1>12, <1>16, <1>17, OwnerMoves

(* It has the lock, ... *)
LEMMA LockOwner ==
  ASSUME DbTypes, GoneInv, NEW t \in Threads, sql_create_new_sqlite(t), NEW a \in Owners \ unsure'
  PROVE  OwnerOk(a)'
<1>1. /\ Busy(t) /\ thr[t].at = "wait" /\ db /\ thr'[t] = [thr[t] EXCEPT !.at = "locked"]
      /\ \A q \in Threads \ {t} : thr'[q] = thr[q]
      /\ UNCHANGED <<db, tabs, rowsOf, deleted, unsure>>
  BY DEF sql_create_new_sqlite, DbTypes
<1>2. /\ thr'[t].todo = thr[t].todo /\ thr'[t].at = "locked" /\ thr'[t].about = thr[t].about
      /\ thr'[t].name = thr[t].name
  BY <1>1 DEF DbTypes, CallType
<1>3. ThreadOk(t, a)
  BY <1>1 DEF GoneInv, OwnerOk
<1>4. ASSUME thr[t].name = "tables" PROVE Tabling(thr[t])'
  <2>1. CASE Agreed /\ thr[t].todo \in {CreateScript, DropScript}
    <3>1. 1 \in 1..5 /\ thr[t].todo = Suffix(thr[t].todo, 1)
      <4>1. PICK s \in {CreateScript, DropScript} : s = thr[t].todo
        BY <2>1
      <4>2. Suffix(s, 1) = s
        BY <4>1, TableAt
      <4>3. QED
        BY <4>1, <4>2
    <3>2. Created(1)' /\ Dropped(1)'
      BY <1>1, <2>1 DEF Created, Dropped, Agreed
    <3>3. QED
      BY <1>1, <1>2, <2>1, <3>1, <3>2 DEF Tabling
  <2>2. CASE \E k \in 1..5 : \/ thr[t].todo = Suffix(CreateScript, k) /\ Created(k)
                             \/ thr[t].todo = Suffix(DropScript, k) /\ Dropped(k)
    <3>1. \A k \in 1..5 : (Created(k) => Created(k)') /\ (Dropped(k) => Dropped(k)')
      BY <1>1 DEF Created, Dropped, Agreed
    <3>2. QED
      BY <1>1, <1>2, <2>2, <3>1 DEF Tabling
  <2>3. QED
    BY <1>1, <1>3, <1>4, <2>1, <2>2 DEF ThreadOk, Tabling
<1>5. ASSUME thr[t].name = "delete", thr[t].about = a PROVE Deleting(thr[t], a)'
  <2>1. PICK k \in 1..8 : thr[t].todo = Suffix(DeleteScript(a), k) /\ Cleared(a, k)
    BY <1>1, <1>3, <1>5 DEF ThreadOk, Deleting
  <2>2. Cleared(a, k)'
    BY <1>1, <2>1 DEF Cleared, NoUuid, NoRef
  <2>3. QED
    BY <1>2, <2>1, <2>2 DEF Deleting
<1>6. a \in deleted' /\ thr'[t].about = a =>
        thr'[t].name # "add" /\ (thr'[t].name \in {"child", "device"} => TurnedAway(thr[t], a)')
  BY <1>1, <1>2, <1>3 DEF ThreadOk, TurnedAway
<1>7. ThreadOk(t, a)'
  BY <1>2, <1>4, <1>5, <1>6 DEF ThreadOk
<1>8. Busy(t)'
  BY <1>1, <1>2 DEF Busy
<1>9. QED
  BY <1>1, <1>2, <1>7, <1>8, ReadOwner

(* ... or there is no database. *)
LEMMA HandleOwner ==
  ASSUME DbTypes, GoneInv, NEW t \in Threads, NoHandle(t), NEW a \in Owners \ unsure'
  PROVE  OwnerOk(a)'
<1>1. /\ Busy(t) /\ thr[t].at = "wait" /\ ~db /\ thr'[t] = NoCall
      /\ \A q \in Threads \ {t} : thr'[q] = thr[q]
      /\ UNCHANGED <<db, tabs, rowsOf, deleted>> /\ a \notin unsure
  BY DEF NoHandle, DbTypes
<1>2. ~Busy(t)'
  BY <1>1 DEF Busy, NoCall
<1>3. thr[t].name = "tables" => Agreed
  BY <1>1 DEF GoneInv, OwnerOk, ThreadOk, Tabling
<1>4. QED
  BY <1>1, <1>2, <1>3, ReadOwner DEF ThreadOk

(* What the statements of DeleteScript are *)
LEMMA ScriptOps ==
  ASSUME NEW a \in Owners
  PROVE  /\ \A k \in 1..8 : DeleteScript(a)[k].op = IF k = 3 THEN "find" ELSE "delete"
         /\ DeleteScript(a)[2].must = TRUE
         /\ \A k \in 1..8 : k # 2 /\ k # 3 => DeleteScript(a)[k].must = FALSE
<1>1. PICK d : d = DeleteScript(a)
  OBVIOUS
<1>2. /\ d[1] = DeleteIn("basic", "basic", "uuid", a, FALSE) /\ d[2] = DeleteIn("admin", "admin", "uuid", a, TRUE)
      /\ d[3] = Find("basic", a, 0, 1) /\ d[4] = DeleteIn("admin", "admin", "uuid", a, FALSE)
      /\ d[5] = DeleteIn("child", "child", "ref", a, FALSE) /\ d[6] = DeleteIn("basic", "admin", "uuid", a, FALSE)
      /\ d[7] = DeleteIn("devBasic", "devOwner", "ref", a, FALSE)
      /\ d[8] = DeleteIn("devOwner", "devOwner", "ref", a, FALSE)
  BY <1>1, DeleteStatements DEF DeleteRows
<1>3. /\ /\ d[1].op = "delete" /\ d[2].op = "delete" /\ d[3].op = "find" /\ d[4].op = "delete"
         /\ d[5].op = "delete" /\ d[6].op = "delete" /\ d[7].op = "delete" /\ d[8].op = "delete"
      /\ /\ d[1].must = FALSE /\ d[2].must = TRUE /\ d[4].must = FALSE
         /\ d[5].must = FALSE /\ d[6].must = FALSE /\ d[7].must = FALSE /\ d[8].must = FALSE
  BY <1>2 DEF DeleteIn, Find
<1>4. \A k \in 1..8 : d[k].op = IF k = 3 THEN "find" ELSE "delete"
  BY <1>3
<1>5. \A k \in 1..8 : k # 2 /\ k # 3 => d[k].must = FALSE
  BY <1>3
<1>6. QED
  BY <1>1, <1>3, <1>4, <1>5

(* The statement at which a call that deletes an admin is, ... *)
LEMMA DeletingAt ==
  ASSUME NEW t \in Threads, thr[t].at = "locked", NEW a \in Owners, Deleting(thr[t], a)
  PROVE  \E k \in 1..8 : /\ Cleared(a, k) /\ Head(thr[t].todo) = DeleteScript(a)[k]
                         /\ Tail(thr[t].todo) = Suffix(DeleteScript(a), k + 1)
<1>1. PICK k \in 1..8 : thr[t].todo = Suffix(DeleteScript(a), k) /\ Cleared(a, k)
  BY DEF Deleting
<1>2. /\ Head(Suffix(DeleteScript(a), k)) = DeleteScript(a)[k]
      /\ Tail(Suffix(DeleteScript(a), k)) = Suffix(DeleteScript(a), k + 1)
  BY <1>1, DeleteAt
<1>3. QED
  BY <1>1, <1>2

(* ... and those of other calls *)
LEMMA AtStatement ==
  ASSUME NEW t \in Threads, thr[t].at = "locked", NEW s, s = Head(thr[t].todo)
  PROVE  /\ Tabling(thr[t]) => s.op \in {"create", "drop"}
         /\ \A a \in Owners : TurnedAway(thr[t], a) => s.op = "find"
<1>1. ASSUME Tabling(thr[t]) PROVE s.op \in {"create", "drop"}
  <2>1. PICK k \in 1..5 : thr[t].todo \in {Suffix(CreateScript, k), Suffix(DropScript, k)}
    BY <1>1 DEF Tabling
  <2>2. s = CreateScript[k] \/ s = DropScript[k]
    <3>1. ASSUME NEW d \in {CreateScript, DropScript} PROVE Head(Suffix(d, k)) = d[k]
      BY TableAt
    <3>2. QED
      BY <2>1, <3>1
  <2>3. QED
    BY <2>2, TableStatements DEF CreateTable, Drop
<1>2. ASSUME NEW a \in Owners, TurnedAway(thr[t], a) PROVE s.op = "find"
  BY <1>2 DEF TurnedAway, Find
<1>3. QED
  BY <1>1, <1>2

(* A statement of t was executed that wrote nothing, and s come after it. *)
LEMMA ExecutedOwner ==
  ASSUME DbTypes, GoneInv, NEW t \in Threads, NEW a \in Owners \ unsure,
         UNCHANGED <<db, tabs, rowsOf, deleted>>, Busy(t), thr[t].at = "locked",
         \A q \in Threads \ {t} : thr'[q] = thr[q],
         NEW s, SameCall(thr'[t], Executed(t, s)), Head(thr[t].todo).op \notin {"create", "drop"},
         Deleting(thr[t], a) /\ thr[t].name = "delete" /\ thr[t].about = a =>
           \E k \in 2..9 : s = Suffix(DeleteScript(a), k) /\ Cleared(a, k),
         TurnedAway(thr[t], a) /\ thr[t].about = a /\ a \in deleted => s = <<>>
  PROVE  OwnerOk(a)'
<1>1. ThreadOk(t, a)
  BY DEF GoneInv, OwnerOk
<1>2. /\ thr'[t].todo = thr[t].todo /\ thr'[t].at = "executed" /\ thr'[t].then = s
      /\ thr'[t].about = thr[t].about /\ thr'[t].name = thr[t].name
  <2>1. PICK c : c = Executed(t, s)
    OBVIOUS
  <2>2. QED
    BY <2>1, ExecutedFields DEF SameCall
<1>3. thr[t].name # "tables"
  BY <1>1, AtStatement DEF ThreadOk
<1>4. ASSUME thr[t].name = "delete", thr[t].about = a PROVE Deleting(thr[t], a)'
  <2>1. PICK k \in 2..9 : s = Suffix(DeleteScript(a), k) /\ Cleared(a, k)
    BY <1>1, <1>4 DEF ThreadOk
  <2>2. Cleared(a, k)'
    BY <2>1 DEF Cleared, NoUuid, NoRef
  <2>3. QED
    BY <1>2, <2>1, <2>2 DEF Deleting
<1>5. a \in deleted' /\ thr'[t].about = a =>
        thr'[t].name # "add" /\ (thr'[t].name \in {"child", "device"} => TurnedAway(thr[t], a)')
  BY <1>1, <1>2 DEF ThreadOk, TurnedAway
<1>6. ThreadOk(t, a)'
  BY <1>2, <1>3, <1>4, <1>5 DEF ThreadOk
<1>7. Busy(t)'
  BY <1>2 DEF Busy
<1>8. QED
  BY <1>2, <1>6, <1>7, ReadOwner

(* A statement that writes fails. *)
LEMMA FailOwner ==
  ASSUME DbTypes, GoneInv, NEW t \in Threads, WriteFails(t), NEW a \in Owners \ unsure'
  PROVE  OwnerOk(a)'
<1>1. PICK s : s = Head(thr[t].todo)
  OBVIOUS
<1>2. PICK r : r = IF s.must THEN <<>> ELSE Tail(thr[t].todo)
  OBVIOUS
<1>3. /\ Busy(t) /\ thr[t].at = "locked" /\ s.op \in {"insert", "delete"}
      /\ thr'[t] = Executed(t, r) /\ \A q \in Threads \ {t} : thr'[q] = thr[q]
      /\ UNCHANGED <<db, tabs, rowsOf, deleted>>
      /\ unsure' = IF Possible(s) THEN unsure \cup {thr[t].about} ELSE unsure
  BY <1>1, <1>2 DEF WriteFails, DbTypes
<1>4. a \notin unsure /\ OwnerOk(a) /\ \A q \in Threads : CallSound(thr[q])
  BY <1>3 DEF GoneInv
<1>5. ASSUME Deleting(thr[t], a), thr[t].name = "delete", thr[t].about = a
      PROVE  \E k \in 2..9 : r = Suffix(DeleteScript(a), k) /\ Cleared(a, k)
  <2>1. PICK k \in 1..8 : /\ Cleared(a, k) /\ s = DeleteScript(a)[k]
                          /\ Tail(thr[t].todo) = Suffix(DeleteScript(a), k + 1)
    <3>1. thr[t].at = "locked" /\ Deleting(thr[t], a) /\ a \in Owners
      BY <1>3, <1>5
    <3>2. PICK k \in 1..8 : /\ Cleared(a, k) /\ Head(thr[t].todo) = DeleteScript(a)[k]
                            /\ Tail(thr[t].todo) = Suffix(DeleteScript(a), k + 1)
      BY <3>1, DeletingAt
    <3>3. QED
      BY <1>1, <3>2
  <2>2. k # 3
    BY <1>3, <2>1, ScriptOps
  <2>3. ~Possible(s)
    BY <1>3, <1>5
  <2>4. Agreed
    <3>1. \A q \in Threads : Busy(q) => thr[q].name # "tables"
      <4>1. Concerns(t, a)
        BY <1>3, <1>5 DEF Concerns
      <4>2. ASSUME NEW q \in Threads, Busy(q), thr[q].name = "tables" PROVE FALSE
        <5>1. Concerns(q, a)
          BY <1>4, <4>2 DEF CallSound, Concerns
        <5>2. q = t
          BY <1>4, <4>1, <5>1 DEF OwnerOk, Alone
        <5>3. QED
          BY <1>5, <4>2, <5>2
      <4>3. QED
        BY <4>2
    <3>2. QED
      BY <1>4, <3>1 DEF OwnerOk, Settled
  <2>5. IF k = 2 THEN Cleared(a, 9) ELSE Cleared(a, k + 1)
    BY <2>1, <2>2, <2>3, <2>4, ClearedFails DEF GoneInv
  <2>6. (k = 2 => s.must = TRUE) /\ (k # 2 => s.must = FALSE)
    BY <2>1, <2>2, ScriptOps
  <2>7. CASE k = 2
    <3>1. r = Suffix(DeleteScript(a), 9)
      <4>1. Suffix(DeleteScript(a), 9) = <<>>
        BY DeleteAt
      <4>2. r = <<>>
        BY <1>2, <2>6, <2>7
      <4>3. QED
        BY <4>1, <4>2
    <3>2. Cleared(a, 9) /\ 9 \in 2..9
      BY <2>5, <2>7
    <3>3. QED
      BY <3>1, <3>2
  <2>8. CASE k # 2
    <3>1. r = Suffix(DeleteScript(a), k + 1)
      BY <1>2, <2>1, <2>6, <2>8
    <3>2. Cleared(a, k + 1) /\ k + 1 \in 2..9
      BY <2>5, <2>8
    <3>3. QED
      BY <3>1, <3>2
  <2>9. QED
    BY <2>7, <2>8
<1>6. ~TurnedAway(thr[t], a)
  BY <1>1, <1>3, AtStatement
<1>7. SameCall(thr'[t], Executed(t, r))
  BY <1>3 DEF SameCall
<1>8. QED
  BY <1>1, <1>3, <1>4, <1>5, <1>6, <1>7, ExecutedOwner

(* A row is looked for. *)
LEMMA FindOwner ==
  ASSUME DbTypes, GoneInv, NEW t \in Threads, FindRow(t), NEW a \in Owners \ unsure'
  PROVE  OwnerOk(a)'
<1>1. PICK s : s = Head(thr[t].todo)
  OBVIOUS
<1>2. PICK n : n = IF s.uuid \in UuidsOf(s.table) THEN s.iffound ELSE s.ifnone
  OBVIOUS
<1>3. PICK r : r = Skip(Tail(thr[t].todo), n)
  OBVIOUS
<1>4. /\ Busy(t) /\ thr[t].at = "locked" /\ s.op = "find"
      /\ thr'[t] = Executed(t, r) /\ \A q \in Threads \ {t} : thr'[q] = thr[q]
      /\ UNCHANGED <<db, tabs, rowsOf, deleted, unsure>>
  BY <1>1, <1>2, <1>3 DEF FindRow, DbTypes
<1>5. a \notin unsure /\ OwnerOk(a) /\ \A q \in Threads : CallSound(thr[q])
  BY <1>4 DEF GoneInv
<1>6. NoUuid("basic", a) => a \notin UuidsOf("basic")
  BY DEF NoUuid, UuidsOf
<1>7. ASSUME Deleting(thr[t], a), thr[t].name = "delete", thr[t].about = a
      PROVE  \E k \in 2..9 : r = Suffix(DeleteScript(a), k) /\ Cleared(a, k)
  <2>1. PICK k \in 1..8 : /\ Cleared(a, k) /\ s = DeleteScript(a)[k]
                          /\ Tail(thr[t].todo) = Suffix(DeleteScript(a), k + 1)
    <3>1. thr[t].at = "locked" /\ Deleting(thr[t], a) /\ a \in Owners
      BY <1>4, <1>7
    <3>2. PICK k \in 1..8 : /\ Cleared(a, k) /\ Head(thr[t].todo) = DeleteScript(a)[k]
                            /\ Tail(thr[t].todo) = Suffix(DeleteScript(a), k + 1)
      BY <3>1, DeletingAt
    <3>3. QED
      BY <1>1, <3>2
  <2>2. k = 3
    BY <1>4, <2>1, ScriptOps
  <2>3. s = Find("basic", a, 0, 1) /\ NoUuid("basic", a)
    <3>1. DeleteScript(a)[3] = Find("basic", a, 0, 1)
      BY DeleteStatements
    <3>2. QED
      BY <2>1, <2>2, <3>1 DEF Cleared
  <2>4. n = 1
    BY <1>2, <1>6, <2>3 DEF Find
  <2>5. r = Suffix(DeleteScript(a), 5)
    <3>1. PICK p : p = Suffix(DeleteScript(a), 4)
      OBVIOUS
    <3>2. p # <<>> /\ Tail(p) = Suffix(DeleteScript(a), 5)
      <4>1. 4 \in 1..8 /\ 4 + 1 = 5
        OBVIOUS
      <4>2. \A j \in 1..8 : /\ Suffix(DeleteScript(a), j) # <<>>
                            /\ Tail(Suffix(DeleteScript(a), j)) = Suffix(DeleteScript(a), j + 1)
        BY DeleteAt
      <4>3. QED
        BY <3>1, <4>1, <4>2
    <3>3. p \in Seq(PlainStatements)
      <4>1. PICK d \in Seq(PlainStatements) : d = DeleteScript(a) /\ Len(d) = 8
        BY DeleteStatements
      <4>2. 4 \in Nat /\ 1 <= 4 /\ 4 <= Len(d) + 1
        BY <4>1
      <4>3. Suffix(d, 4) \in Seq(PlainStatements)
        BY <4>2, SuffixFields
      <4>4. QED
        BY <3>1, <4>1, <4>3
    <3>4. Tail(thr[t].todo) = p
      BY <2>1, <2>2, <3>1
    <3>5. Skip(p, 1) = Tail(p)
      BY <3>2, <3>3, SkipFacts
    <3>6. QED
      BY <1>3, <2>4, <3>2, <3>4, <3>5
  <2>6. Cleared(a, 5) /\ 5 \in 2..9
    BY <2>1, <2>2 DEF Cleared
  <2>7. QED
    BY <2>5, <2>6
<1>8. ASSUME TurnedAway(thr[t], a), thr[t].about = a, a \in deleted PROVE r = <<>>
  <2>1. s = Find("basic", a, 0, Len(thr[t].todo) - 1) /\ thr[t].todo # <<>>
    BY <1>1, <1>4, <1>8 DEF TurnedAway
  <2>2. NoUuid("basic", a)
    BY <1>5, <1>8 DEF OwnerOk, Gone
  <2>3. n = Len(thr[t].todo) - 1
    BY <1>2, <1>6, <2>1, <2>2 DEF Find
  <2>4. thr[t].todo \in Seq(Allowed(thr[t].name, thr[t].about))
    BY <1>5 DEF CallSound
  <2>5. \A S : \A p \in Seq(S) : p # <<>> => Tail(p) \in Seq(S) /\ Len(Tail(p)) = Len(p) - 1
    OBVIOUS
  <2>6. PICK q \in Seq(Allowed(thr[t].name, thr[t].about)) :
          q = Tail(thr[t].todo) /\ Len(q) = Len(thr[t].todo) - 1
    BY <2>1, <2>4, <2>5
  <2>7. Skip(q, Len(q)) = <<>>
    BY SkipFacts
  <2>8. QED
    BY <1>3, <2>3, <2>6, <2>7
<1>9. SameCall(thr'[t], Executed(t, r))
  BY <1>4 DEF SameCall
<1>10. QED
  BY <1>1, <1>4, <1>5, <1>7, <1>8, <1>9, ExecutedOwner

(* A list is queried, ... *)
LEMMA QueryOwner ==
  ASSUME DbTypes, GoneInv, NEW t \in Threads, QueryRows(t), NEW a \in Owners \ unsure'
  PROVE  OwnerOk(a)'
<1>1. PICK s : s = Head(thr[t].todo)
  OBVIOUS
<1>2. PICK r : r = IF Result(s) = {} THEN <<>> ELSE Tail(thr[t].todo)
  OBVIOUS
<1>3. /\ Busy(t) /\ thr[t].at = "locked" /\ s.op \in {"count", "fetch"}
      /\ thr'[t] = [Executed(t, r) EXCEPT !.left = Result(s)] /\ \A q \in Threads \ {t} : thr'[q] = thr[q]
      /\ UNCHANGED <<db, tabs, rowsOf, deleted, unsure>>
  BY <1>1, <1>2 DEF QueryRows, DbTypes
<1>4. SameCall(thr'[t], Executed(t, r))
  BY <1>3 DEF SameCall, Executed, DbTypes, CallType
<1>5. ~(TurnedAway(thr[t], a))
  BY <1>1, <1>3, AtStatement
<1>6. ~Deleting(thr[t], a)
  <2>1. ASSUME NEW k \in 1..8, s = DeleteScript(a)[k] PROVE FALSE
    <3>1. s.op = IF k = 3 THEN "find" ELSE "delete"
      BY <2>1, ScriptOps
    <3>2. s.op = "find" \/ s.op = "delete"
      BY <3>1
    <3>3. QED
      BY <1>3, <3>2
  <2>2. QED
    BY <1>1, <1>3, <2>1, DeletingAt
<1>7. QED
  BY <1>1, <1>3, <1>4, <1>5, <1>6, ExecutedOwner

(* ... and its rows are counted or fetched. *)
LEMMA FetchOwner ==
  ASSUME DbTypes, GoneInv, NEW t \in Threads, sql_fetch_row_sqlite(t), NEW a \in Owners \ unsure'
  PROVE  OwnerOk(a)'
<1>1. /\ Busy(t) /\ \A q \in Threads \ {t} : thr'[q] = thr[q]
      /\ UNCHANGED <<db, tabs, rowsOf, deleted, unsure>>
  BY DEF sql_fetch_row_sqlite, DbTypes
<1>2. SameCall(thr'[t], thr[t])
  BY DEF SameCall, sql_fetch_row_sqlite, DbTypes, CallType
<1>3. \A k \in 1..9 : Cleared(a, k) => Cleared(a, k)'
  BY <1>1 DEF Cleared, NoUuid, NoRef
<1>4. Undone(a)
  BY <1>1, <1>3 DEF Undone
<1>5. ThreadOk(t, a)
  BY <1>1 DEF GoneInv, OwnerOk
<1>6. ThreadOk(t, a)'
  BY <1>2, <1>4, <1>5, CallStays
<1>7. Busy(t)' /\ thr'[t].about = thr[t].about /\ thr'[t].name = thr[t].name
  BY <1>1, <1>2 DEF Busy, SameCall
<1>8. QED
  BY <1>1, <1>6, <1>7, ReadOwner

(* A statement is over: the call goes on, ... *)
LEMMA NextOwner ==
  ASSUME DbTypes, GoneInv, NEW t \in Threads, sql_free_sqlite(t), thr[t].then # <<>>, NEW a \in Owners \ unsure'
  PROVE  OwnerOk(a)'
<1>1. /\ Busy(t) /\ thr[t].at = "executed" /\ \A q \in Threads \ {t} : thr'[q] = thr[q]
      /\ UNCHANGED <<db, tabs, rowsOf, deleted, unsure>>
      /\ thr'[t] = [thr[t] EXCEPT !.todo = thr[t].then, !.at = "wait", !.then = <<>>]
  BY DEF sql_free_sqlite, Over, DbTypes
<1>2. /\ thr'[t].todo = thr[t].then /\ thr'[t].at = "wait"
      /\ thr'[t].about = thr[t].about /\ thr'[t].name = thr[t].name
  BY <1>1 DEF DbTypes, CallType
<1>3. ThreadOk(t, a)
  BY <1>1 DEF GoneInv, OwnerOk
<1>4. ASSUME thr[t].name = "tables" PROVE Tabling(thr[t])'
  <2>1. PICK k \in 2..6, s \in {CreateScript, DropScript} :
          /\ db /\ thr[t].then = Suffix(s, k)
          /\ (s = CreateScript /\ Created(k)) \/ (s = DropScript /\ Dropped(k))
    BY <1>1, <1>3, <1>4 DEF ThreadOk, Tabling
  <2>2. k # 6
    BY <2>1, TableAt
  <2>3. k \in 1..5
    BY <2>2
  <2>4. (s = CreateScript /\ Created(k)') \/ (s = DropScript /\ Dropped(k)')
    BY <1>1, <2>1 DEF Created, Dropped, Agreed
  <2>5. QED
    BY <1>1, <1>2, <2>1, <2>3, <2>4 DEF Tabling
<1>5. ASSUME thr[t].name = "delete", thr[t].about = a PROVE Deleting(thr[t], a)'
  <2>1. PICK k \in 2..9 : thr[t].then = Suffix(DeleteScript(a), k) /\ Cleared(a, k)
    BY <1>1, <1>3, <1>5 DEF ThreadOk, Deleting
  <2>2. k # 9
    BY <2>1, DeleteAt
  <2>3. k \in 1..8
    BY <2>2
  <2>4. Cleared(a, k)'
    BY <1>1, <2>1 DEF Cleared, NoUuid, NoRef
  <2>5. QED
    BY <1>2, <2>1, <2>3, <2>4 DEF Deleting
<1>6. a \in deleted' /\ thr'[t].about = a =>
        thr'[t].name # "add" /\ (thr'[t].name \in {"child", "device"} => TurnedAway(thr[t], a)')
  BY <1>1, <1>2, <1>3 DEF ThreadOk, TurnedAway
<1>7. ThreadOk(t, a)'
  BY <1>2, <1>4, <1>5, <1>6 DEF ThreadOk
<1>8. Busy(t)'
  BY <1>2 DEF Busy
<1>9. QED
  BY <1>1, <1>2, <1>7, <1>8, ReadOwner

(* ... or it was the last one. *)
LEMMA LastOwner ==
  ASSUME DbTypes, GoneInv, NEW t \in Threads, sql_free_sqlite(t), thr[t].then = <<>>, NEW a \in Owners \ unsure'
  PROVE  OwnerOk(a)'
<1>1. /\ Busy(t) /\ thr[t].at = "executed" /\ \A q \in Threads \ {t} : thr'[q] = thr[q]
      /\ UNCHANGED <<db, tabs, rowsOf, unsure>> /\ thr'[t] = NoCall
      /\ deleted' = IF thr[t].name = "delete" THEN deleted \cup {thr[t].about} ELSE deleted
  BY DEF sql_free_sqlite, Over, DbTypes
<1>2. ~Busy(t)'
  BY <1>1 DEF Busy, NoCall
<1>3. ThreadOk(t, a)
  BY <1>1 DEF GoneInv, OwnerOk
<1>4. ASSUME thr[t].name = "tables" PROVE Agreed
  <2>1. PICK k \in 2..6, s \in {CreateScript, DropScript} :
          /\ thr[t].then = Suffix(s, k)
          /\ (s = CreateScript /\ Created(k)) \/ (s = DropScript /\ Dropped(k))
    BY <1>1, <1>3, <1>4 DEF ThreadOk, Tabling
  <2>2. k \notin 1..5
    BY <2>1, TableAt
  <2>3. k > 5
    BY <2>2
  <2>4. QED
    BY <2>1, <2>3 DEF Created, Dropped, Agreed
<1>5. ASSUME thr[t].name = "delete", thr[t].about = a PROVE Concerns(t, a) /\ Gone(a)
  <2>1. PICK k \in 2..9 : thr[t].then = Suffix(DeleteScript(a), k) /\ Cleared(a, k)
    BY <1>1, <1>3, <1>5 DEF ThreadOk, Deleting
  <2>2. k \notin 1..8
    BY <2>1, DeleteAt
  <2>3. k = 9
    BY <2>2
  <2>4. QED
    BY <1>1, <1>5, <2>1, <2>3 DEF Concerns, Cleared, Gone
<1>6. a \in deleted' => a \in deleted \/ (Concerns(t, a) /\ Gone(a))
  BY <1>1, <1>5
<1>7. QED
  BY <1>1, <1>2, <1>4, <1>6, ReadOwner DEF ThreadOk

(* A call whose statements are as before is sound. *)
LEMMA SameSound ==
  ASSUME NEW c, NEW d, SameCall(c, d), CallSound(d)
  PROVE  CallSound(c)
BY DEF SameCall, CallSound

(* So is one whose statement was executed, if those that come after it are. *)
LEMMA ExecutedSound ==
  ASSUME DbTypes, NEW t \in Threads, CallSound(thr[t]), NEW c,
         NEW s \in Seq(Allowed(thr[t].name, thr[t].about)), SameCall(c, Executed(t, s))
  PROVE  CallSound(c)
<1>1. PICK d : d = Executed(t, s)
  OBVIOUS
<1>2. d.todo = thr[t].todo /\ d.then = s /\ d.about = thr[t].about /\ d.name = thr[t].name
  BY <1>1, ExecutedFields
<1>3. CallSound(d)
  BY <1>2 DEF CallSound
<1>4. QED
  BY <1>1, <1>3, SameSound

(* Every step keeps the calls sound, ... *)
LEMMA CallsStep ==
  ASSUME DbTypes, GoneInv, [DbNext]_dbVars, NEW q \in Threads
  PROVE  CallSound(thr[q])'
<1>1. \A t \in Threads : CallSound(thr[t])
  BY DEF GoneInv
<1>2. CASE SameCall(thr'[q], thr[q])
  BY <1>1, <1>2, SameSound
<1>3. CASE thr'[q] = NoCall
  BY <1>3 DEF CallSound, NoCall
<1>4. ASSUME Starts(q) PROVE CallSound(thr[q])'
  <2>1. PICK name \in Names, a \in Owners \cup {NoOne}, s \in Scripts :
          /\ Call(q, name, a, s) /\ s \in Seq(Allowed(name, a))
          /\ name = "tables" => a = NoOne
          /\ name = "delete" => a \in Owners
    BY <1>4 DEF Starts
  <2>2. PICK c : c = [NoCall EXCEPT !.todo = s, !.about = a, !.name = name]
    OBVIOUS
  <2>3. thr'[q] = c
    BY <2>1, <2>2 DEF Call, DbTypes
  <2>4. c.todo = s /\ c.then = <<>> /\ c.about = a /\ c.name = name
    BY <2>2 DEF NoCall
  <2>5. <<>> \in Seq(Allowed(name, a))
    OBVIOUS
  <2>6. CallSound(c)
    BY <2>1, <2>4, <2>5, UuidsAssumption DEF CallSound
  <2>7. QED
    BY <2>3, <2>6
<1>5. ASSUME Busy(q), NEW s \in Seq(Allowed(thr[q].name, thr[q].about)), SameCall(thr'[q], Executed(q, s))
      PROVE  CallSound(thr[q])'
  BY <1>1, <1>5, ExecutedSound
<1>6. Busy(q) => Tail(thr[q].todo) \in Seq(Allowed(thr[q].name, thr[q].about))
  BY <1>1, SuffixFacts DEF Busy, CallSound
<1>7. ASSUME Write(q) PROVE CallSound(thr[q])'
  <2>1. Busy(q) /\ thr'[q] = Executed(q, Tail(thr[q].todo))
    BY <1>7 DEF Write
  <2>2. QED
    BY <1>5, <1>6, <2>1 DEF SameCall
<1>8. ASSUME WriteFails(q) \/ QueryRows(q) PROVE CallSound(thr[q])'
  <2>1. Busy(q)
    BY <1>8 DEF WriteFails, QueryRows
  <2>2. \E s \in {<<>>, Tail(thr[q].todo)} : SameCall(thr'[q], Executed(q, s))
    <3>1. CASE WriteFails(q)
      <4>1. thr'[q] = Executed(q, <<>>) \/ thr'[q] = Executed(q, Tail(thr[q].todo))
        BY <3>1 DEF WriteFails, DbTypes
      <4>2. QED
        BY <4>1 DEF SameCall
    <3>2. CASE QueryRows(q)
      <4>1. PICK s : s = IF Result(Head(thr[q].todo)) = {} THEN <<>> ELSE Tail(thr[q].todo)
        OBVIOUS
      <4>2. thr'[q] = [Executed(q, s) EXCEPT !.left = Result(Head(thr[q].todo))]
        BY <3>2, <4>1 DEF QueryRows, DbTypes
      <4>3. SameCall(thr'[q], Executed(q, s))
        BY <4>2 DEF SameCall, Executed, DbTypes, CallType
      <4>4. QED
        BY <4>1, <4>3
    <3>3. QED
      BY <1>8, <3>1, <3>2
  <2>3. <<>> \in Seq(Allowed(thr[q].name, thr[q].about))
    OBVIOUS
  <2>4. \A s \in {<<>>, Tail(thr[q].todo)} : s \in Seq(Allowed(thr[q].name, thr[q].about))
    BY <1>6, <2>1, <2>3
  <2>5. QED
    BY <1>5, <2>1, <2>2, <2>4
<1>9. ASSUME FindRow(q) PROVE CallSound(thr[q])'
  <2>1. Busy(q) /\ Head(thr[q].todo).op = "find"
    BY <1>9 DEF FindRow
  <2>2. Head(thr[q].todo) \in PlainStatements
    BY <2>1, HeadFacts DEF Statements, ListStatements
  <2>3. Head(thr[q].todo).iffound \in Nat /\ Head(thr[q].todo).ifnone \in Nat
    BY <2>1, <2>2 DEF PlainStatements
  <2>4. PICK n \in Nat : thr'[q] = Executed(q, Skip(Tail(thr[q].todo), n))
    BY <1>9, <2>3 DEF FindRow, DbTypes
  <2>5. Skip(Tail(thr[q].todo), n) \in Seq(Allowed(thr[q].name, thr[q].about))
    BY <1>6, <2>1, SuffixFacts
  <2>6. QED
    BY <1>5, <2>1, <2>4, <2>5 DEF SameCall
<1>10. ASSUME sql_free_sqlite(q), thr[q].then # <<>> PROVE CallSound(thr[q])'
  <2>1. thr'[q] = [thr[q] EXCEPT !.todo = thr[q].then, !.at = "wait", !.then = <<>>]
    BY <1>10 DEF sql_free_sqlite, Over, DbTypes
  <2>2. /\ thr'[q].todo = thr[q].then /\ thr'[q].then = <<>>
        /\ thr'[q].about = thr[q].about /\ thr'[q].name = thr[q].name
    BY <2>1 DEF DbTypes, CallType
  <2>3. <<>> \in Seq(Allowed(thr[q].name, thr[q].about))
    OBVIOUS
  <2>4. QED
    BY <1>1, <2>2, <2>3 DEF CallSound
<1>11. ASSUME sql_create_new_sqlite(q) PROVE CallSound(thr[q])'
  <2>1. /\ thr'[q].todo = thr[q].todo /\ thr'[q].then = thr[q].then
        /\ thr'[q].about = thr[q].about /\ thr'[q].name = thr[q].name
    BY <1>11 DEF sql_create_new_sqlite, DbTypes, CallType
  <2>2. QED
    BY <1>1, <2>1 DEF CallSound
<1>12. ASSUME sql_fetch_row_sqlite(q) PROVE SameCall(thr'[q], thr[q])
  BY <1>12 DEF sql_fetch_row_sqlite, DbTypes, CallType, SameCall
<1>13. ASSUME NoHandle(q) PROVE thr'[q] = NoCall
  BY <1>13 DEF NoHandle, DbTypes
<1>14. ASSUME sql_free_sqlite(q), thr[q].then = <<>> PROVE thr'[q] = NoCall
  BY <1>14 DEF sql_free_sqlite, Over, DbTypes
<1>15. ASSUME NEW t \in Threads, t # q, Starts(t) \/ sql_create_new_sqlite(t) \/ Statement(t)
       PROVE  SameCall(thr'[q], thr[q])
  <2>1. CASE Write(t)
    <3>1. thr'[q] = [thr[q] EXCEPT !.stale = @ \/ (Busy(q) /\ Head(thr[q].todo).op = "fetch")]
      BY <1>15, <2>1 DEF Write
    <3>2. QED
      BY <3>1 DEF SameCall, DbTypes, CallType
  <2>2. CASE ~Write(t)
    <3>1. thr'[q] = thr[q]
      BY <1>15, <2>2 DEF Starts, Call, sql_create_new_sqlite, Statement, WriteFails, FindRow, QueryRows,
                         sql_fetch_row_sqlite, sql_free_sqlite, Over, NoHandle, DbTypes
    <3>2. QED
      BY <3>1 DEF SameCall
  <2>3. QED
    BY <2>1, <2>2
<1>16. ASSUME NEW t \in Threads, Starts(t) \/ sql_create_new_sqlite(t) \/ Statement(t) PROVE CallSound(thr[q])'
  <2>1. CASE t # q
    BY <1>2, <1>15, <1>16, <2>1
  <2>2. CASE t = q
    BY <1>2, <1>3, <1>4, <1>7, <1>8, <1>9, <1>10, <1>11, <1>12, <1>13, <1>14, <1>16, <2>2 DEF Statement
  <2>3. QED
    BY <2>1, <2>2
<1>17. CASE sql_init_sqlite \/ sql_clean_sqlite \/ UNCHANGED dbVars
  BY <1>1, <1>17 DEF sql_init_sqlite, sql_clean_sqlite, dbVars
<1>18. QED
  BY <1>16, <1>17, ManageStarts, ServeStarts, ManagersAssumption DEF DbNext

(* ... and the rows: a table that does not exist has none, and accounts    *)
(* and licenses refer to nobody.                                           *)
LEMMA RowsWrite ==
  ASSUME DbTypes, RowsSound, NEW t \in Threads, CallSound(thr[t]), Write(t)
  PROVE  RowsSound'
<1>1. PICK s : s = Head(thr[t].todo)
  OBVIOUS
<1>2. /\ s.op \in {"insert", "delete", "create", "drop"} /\ Possible(s)
      /\ rowsOf' = [rowsOf EXCEPT ![s.table] = After(s)]
      /\ tabs' = CASE s.op = "create" -> tabs \cup {s.table} [] s.op = "drop" -> tabs \ {s.table} [] OTHER -> tabs
  BY <1>1 DEF Write
<1>3. s \in Allowed(thr[t].name, thr[t].about)
  BY <1>1, SuffixFacts DEF Write, Busy, CallSound
<1>4. s.table \in AllTables
  BY <1>3 DEF Allowed, Statements, PlainStatements, ListStatements
<1>5. rowsOf'[s.table] = After(s) /\ \A table \in AllTables : table # s.table => rowsOf'[table] = rowsOf[table]
  BY <1>2, <1>4 DEF DbTypes
<1>6. {"basic", "admin", "devBasic"} \subseteq AllTables
  BY DEF AllTables
<1>7. CASE s.op = "insert"
  <2>1. After(s) = rowsOf[s.table] \cup {s.row} /\ s.table \in tabs /\ tabs' = tabs
    BY <1>2, <1>7 DEF After, Possible
  <2>2. s.table \in {"basic", "admin", "devBasic"} => s.row.ref = NoOne
    BY <1>3, <1>7 DEF Allowed
  <2>3. QED
    BY <1>5, <1>6, <2>1, <2>2 DEF RowsSound
<1>8. CASE s.op = "delete"
  <2>1. After(s) \subseteq rowsOf[s.table] /\ tabs' = tabs
    BY <1>2, <1>8 DEF After
  <2>2. \A table \in AllTables : rowsOf'[table] \subseteq rowsOf[table]
    BY <1>5, <2>1
  <2>3. QED
    BY <1>6, <2>1, <2>2 DEF RowsSound
<1>9. CASE s.op = "create"
  <2>1. After(s) = rowsOf[s.table] /\ tabs' = tabs \cup {s.table}
    BY <1>2, <1>9 DEF After
  <2>2. \A table \in AllTables : rowsOf'[table] = rowsOf[table]
    BY <1>5, <2>1
  <2>3. QED
    BY <1>6, <2>1, <2>2 DEF RowsSound
<1>10. CASE s.op = "drop"
  <2>1. After(s) = {} /\ tabs' = tabs \ {s.table}
    BY <1>2, <1>10 DEF After
  <2>2. QED
    BY <1>5, <1>6, <2>1 DEF RowsSound
<1>11. QED
  BY <1>2, <1>7, <1>8, <1>9, <1>10

(* Only a statement that writes changes them, ... *)
LEMMA RowsStep ==
  ASSUME DbTypes, GoneInv, [DbNext]_dbVars
  PROVE  RowsSound'
<1>1. ASSUME UNCHANGED <<tabs, rowsOf>> PROVE RowsSound'
  BY <1>1 DEF GoneInv, RowsSound
<1>2. ASSUME NEW t \in Threads, Write(t) PROVE RowsSound'
  BY <1>2, RowsWrite DEF GoneInv
<1>3. ASSUME NEW t \in Threads, Starts(t) PROVE UNCHANGED <<tabs, rowsOf>>
  BY <1>3 DEF Starts, Call
<1>4. ASSUME NEW t \in Threads, sql_create_new_sqlite(t) \/ Statement(t), ~Write(t) PROVE UNCHANGED <<tabs, rowsOf>>
  BY <1>4 DEF sql_create_new_sqlite, Statement, WriteFails, FindRow, QueryRows, sql_fetch_row_sqlite,
              sql_free_sqlite, Over, NoHandle
<1>5. CASE sql_init_sqlite \/ sql_clean_sqlite \/ UNCHANGED dbVars
  BY <1>1, <1>5 DEF sql_init_sqlite, sql_clean_sqlite, dbVars
<1>6. QED
  BY <1>1, <1>2, <1>3, <1>4, <1>5, ManageStarts, ServeStarts, ManagersAssumption DEF DbNext

(* ... and only admins are deleted. *)
LEMMA DeletedStep ==
  ASSUME DbTypes, GoneInv, [DbNext]_dbVars
  PROVE  deleted' \subseteq Owners
<1>1. deleted \subseteq Owners
  BY DEF GoneInv
<1>2. ASSUME NEW t \in Threads, Starts(t) PROVE deleted' \subseteq deleted
  BY <1>2 DEF Starts, Call
<1>3. ASSUME NEW t \in Threads, sql_free_sqlite(t) PROVE deleted' \subseteq Owners
  <2>1. CASE thr[t].name = "delete"
    <3>1. thr[t].about \in Owners
      BY <2>1 DEF GoneInv, CallSound, DbTypes, CallType
    <3>2. QED
      BY <1>1, <1>3, <3>1 DEF sql_free_sqlite, Over
  <2>2. CASE thr[t].name # "delete"
    BY <1>1, <1>3, <2>2 DEF sql_free_sqlite, Over
  <2>3. QED
    BY <2>1, <2>2
<1>4. ASSUME NEW t \in Threads, sql_create_new_sqlite(t) \/ Statement(t), ~sql_free_sqlite(t) PROVE deleted' = deleted
  BY <1>4 DEF sql_create_new_sqlite, Statement, Write, WriteFails, FindRow, QueryRows, sql_fetch_row_sqlite, NoHandle
<1>5. CASE sql_init_sqlite \/ sql_clean_sqlite \/ UNCHANGED dbVars
  BY <1>1, <1>5 DEF sql_init_sqlite, sql_clean_sqlite, dbVars
<1>6. QED
  BY <1>1, <1>2, <1>3, <1>4, <1>5, ManageStarts, ServeStarts, ManagersAssumption DEF DbNext

(* Opening and closing the database, while nobody calls *)
LEMMA IdleOwner ==
  ASSUME GoneInv, NEW a \in Owners \ unsure', UNCHANGED <<tabs, rowsOf, thr, deleted, unsure>>,
         db' = db \/ \A t \in Threads : ~Busy(t)
  PROVE  OwnerOk(a)'
<1>1. OwnerOk(a)
  BY DEF GoneInv
<1>2. Alone(a)' /\ Settled' /\ (a \in deleted' => Gone(a)')
  BY <1>1 DEF OwnerOk, Alone, Concerns, Busy, Settled, Agreed, Gone, NoUuid, NoRef
<1>3. ASSUME NEW t \in Threads PROVE ThreadOk(t, a)'
  <2>1. CASE ~Busy(t)
    BY <2>1 DEF ThreadOk, Busy
  <2>2. CASE Busy(t)
    <3>1. SameCall(thr'[t], thr[t])
      BY DEF SameCall
    <3>2. \A k \in 1..9 : Cleared(a, k) => Cleared(a, k)'
      BY DEF Cleared, NoUuid, NoRef
    <3>3. Undone(a)
      BY <2>2, <3>2 DEF Undone
    <3>4. QED
      BY <1>1, <3>1, <3>3, CallStays DEF OwnerOk
  <2>3. QED
    BY <2>1, <2>2
<1>4. QED
  BY <1>2, <1>3 DEF OwnerOk

(* Every step keeps the invariant. *)
LEMMA GoneStep == DbTypes /\ GoneInv /\ [DbNext]_dbVars => GoneInv'
<1> SUFFICES ASSUME DbTypes, GoneInv, [DbNext]_dbVars PROVE GoneInv'
  OBVIOUS
<1>1. ASSUME NEW a \in Owners \ unsure' PROVE OwnerOk(a)'
  <2>1. CASE sql_init_sqlite \/ sql_clean_sqlite \/ UNCHANGED dbVars
    BY <2>1, IdleOwner DEF sql_init_sqlite, sql_clean_sqlite, dbVars
  <2>2. ASSUME NEW t \in Threads, Starts(t) PROVE OwnerOk(a)'
    BY <2>2, CallOwner
  <2>3. ASSUME NEW t \in Threads, sql_free_sqlite(t) PROVE OwnerOk(a)'
    BY <2>3, NextOwner, LastOwner
  <2>4. ASSUME NEW t \in Threads, sql_create_new_sqlite(t) \/ Statement(t) PROVE OwnerOk(a)'
    BY <2>3, <2>4, LockOwner, WriteOwner, FailOwner, FindOwner, QueryOwner, FetchOwner, HandleOwner DEF Statement
  <2>5. QED
    BY <2>1, <2>2, <2>4, ManageStarts, ServeStarts, ManagersAssumption DEF DbNext
<1>2. \A t \in Threads : CallSound(thr'[t])
  BY CallsStep
<1>3. RowsSound' /\ deleted' \subseteq Owners
  BY RowsStep, DeletedStep
<1>4. QED
  BY <1>1, <1>2, <1>3 DEF GoneInv

(***************************************************************************)
(* For all sets of threads, admins, accounts and devices: what             *)
(* db_account_admin_del returned from is gone, the account, its license,   *)
(* its children and its devices, and nothing is added to it, until the     *)
(* admin is added again; unless a statement failed or calls overlapped.    *)
(***************************************************************************)
THEOREM AdminsAreGone == DbSpec => []AdminGone
<1>1. ASSUME DbInit PROVE GoneInv
  <2>1. \A t \in Threads : ~Busy(t) /\ CallSound(thr[t])
    <3>1. CallSound(NoCall)
      BY DEF CallSound, NoCall
    <3>2. QED
      BY <1>1, <3>1 DEF DbInit, Busy, NoCall
  <2>2. RowsSound
    BY <1>1 DEF DbInit, RowsSound, AllTables
  <2>3. Agreed /\ deleted = {}
    BY <1>1 DEF DbInit, Agreed
  <2>4. QED
    BY <2>1, <2>2, <2>3 DEF GoneInv, OwnerOk, Alone, Concerns, Settled, ThreadOk
<1>2. ASSUME GoneInv PROVE AdminGone
  <2> SUFFICES ASSUME NEW a \in deleted \ unsure
               PROVE  /\ a \notin UuidsOf("basic") \cup UuidsOf("admin")
                      /\ \A table \in AllTables : \A r \in rowsOf[table] : r.ref # a
    BY DEF AdminGone
  <2>1. a \in Owners /\ Gone(a) /\ RowsSound
    BY <1>2 DEF GoneInv, OwnerOk
  <2>2. a \notin UuidsOf("basic") \cup UuidsOf("admin")
    BY <2>1 DEF Gone, NoUuid, UuidsOf
  <2>3. ASSUME NEW table \in AllTables, NEW r \in rowsOf[table] PROVE r.ref # a
    <3>1. CASE table \in {"child", "devOwner"}
      BY <2>1, <2>3, <3>1 DEF Gone, NoRef
    <3>2. CASE table \in {"basic", "admin", "devBasic"}
      BY <2>1, <2>3, <3>2, UuidsAssumption DEF RowsSound
    <3>3. QED
      BY <3>1, <3>2 DEF AllTables
  <2>4. QED
    BY <2>2, <2>3
<1>3. QED
  BY <1>1, <1>2, DbTypesInit, DbTypesStep, GoneStep, PTL DEF DbSpec

-----------------------------------------------------------------------------
(* The list of an admin's children (ChildList) *)

EntryOf(c, on) == [uuid |-> c, is_online |-> on]
Says(e) == IF e.is_online THEN "on" ELSE "off"
Waiting == todo \cup (IF at = "db" THEN {now} ELSE {})   \* listed, without an answer yet
Vanished == \E c \in Kids : {"there", "gone"} \subseteq seen[c]

ListTypes ==
  /\ kidRows \subseteq Kids /\ online \subseteq Kids /\ before \subseteq Kids
  /\ at \in {"idle", "list", "walk", "db", "answer"}
  /\ todo \subseteq Kids /\ (at = "db" => now \in Kids \ todo)
  /\ IsFiniteSet(entries) /\ \A e \in entries : e.uuid \in Kids
  /\ seen \in [Kids -> SUBSET {"there", "gone", "on", "off"}]

(* seen has what is true now, and what was when the request began. *)
SeenHas ==
  \A c \in Kids :
    /\ (IF c \in kidRows THEN "there" ELSE "gone") \in seen[c]
    /\ (IF c \in online THEN "on" ELSE "off") \in seen[c]
    /\ (IF c \in before THEN "there" ELSE "gone") \in seen[c]

(***************************************************************************)
(* The invariant ListTrue needs.  From the query on, each child that was   *)
(* listed is still waiting to be looked up, or has one entry that was true *)
(* when it was made, or has vanished meanwhile.                            *)
(***************************************************************************)
AnswerSoFar ==
  /\ at = "list" => entries = {}
  /\ at \in {"walk", "db", "answer"} =>
       /\ \A e, f \in entries : e.uuid = f.uuid => e = f
       /\ \A e \in entries : e.uuid \notin Waiting /\ "there" \in seen[e.uuid] /\ Says(e) \in seen[e.uuid]
       /\ \A c \in Waiting : "there" \in seen[c]
       /\ \A c \in before : "gone" \notin seen[c] => c \in Waiting \/ \E e \in entries : e.uuid = c
       /\ ~Vanished => Cardinality(entries) + Cardinality(Waiting) = counted
  /\ at = "db" => "off" \in seen[now]
  /\ at = "answer" => todo = {}

ChildInv == ListTypes /\ SeenHas /\ AnswerSoFar

(* What an entry of the list says of a child *)
LEMMA EntryFacts ==
  ASSUME NEW c
  PROVE  /\ EntryOf(c, TRUE).uuid = c /\ Says(EntryOf(c, TRUE)) = "on"
         /\ EntryOf(c, FALSE).uuid = c /\ Says(EntryOf(c, FALSE)) = "off"
BY DEF EntryOf, Says

(* Nobody asked for the list yet. *)
LEMMA ListInitInv == ListInit => ChildInv
<1> SUFFICES ASSUME ListInit PROVE ChildInv
  OBVIOUS
<1>1. ListTypes
  BY FS_EmptySet DEF ListInit, ListTypes, Facts
<1>2. SeenHas
  BY DEF ListInit, SeenHas, Facts
<1>3. AnswerSoFar
  BY DEF ListInit, AnswerSoFar
<1>4. QED
  BY <1>1, <1>2, <1>3 DEF ChildInv

(* Other requests change what is true; what was seen stays seen. *)
LEMMA ChangeInv ==
  ASSUME ChildInv, NEW r \in SUBSET Kids, NEW o \in SUBSET Kids, Change(r, o)
  PROVE  ChildInv'
<1>1. /\ kidRows' = r /\ online' = o /\ UNCHANGED <<at, todo, now, counted, entries, before>>
      /\ seen' = [c \in Kids |-> seen[c] \cup Facts(r, o)[c]]
  BY DEF Change
<1>2. \A c \in Kids : seen'[c] = seen[c] \cup Facts(r, o)[c]
  BY <1>1
<1>3. \A c \in Kids : Facts(r, o)[c] = {IF c \in r THEN "there" ELSE "gone"} \cup {IF c \in o THEN "on" ELSE "off"}
  BY DEF Facts
<1>4. seen' \in [Kids -> SUBSET {"there", "gone", "on", "off"}]
  BY <1>1, <1>3 DEF ChildInv, ListTypes
<1>5. ListTypes'
  BY <1>1, <1>4 DEF ChildInv, ListTypes
<1>6. SeenHas'
  BY <1>1, <1>2, <1>3 DEF ChildInv, SeenHas
<1>7. \A c \in Kids : seen[c] \subseteq seen'[c]
  BY <1>2
<1>8. Waiting' = Waiting /\ (~Vanished' => ~Vanished) /\ Waiting \subseteq Kids
  BY <1>1, <1>7 DEF Waiting, Vanished, ChildInv, ListTypes
<1>9. AnswerSoFar'
  BY <1>1, <1>7, <1>8 DEF AnswerSoFar, ChildInv, ListTypes
<1>10. QED
  BY <1>5, <1>6, <1>9 DEF ChildInv

(* One entry is made. *)
LEMMA EntryInv ==
  ASSUME ChildInv, at \in {"walk", "db"}, at' = "walk", NEW c \in Waiting, Waiting' = Waiting \ {c}, NEW e,
         entries' = entries \cup {e}, e.uuid = c, Says(e) \in seen[c],
         UNCHANGED <<before, counted, seen>>
  PROVE  AnswerSoFar'
<1>1. c \in Kids /\ Waiting \subseteq Kids /\ Vanished' = Vanished
  BY DEF ChildInv, ListTypes, Waiting, Vanished
<1>2. e \notin entries /\ \A f \in entries : f.uuid # c
  BY DEF ChildInv, AnswerSoFar
<1>3. IsFiniteSet(Waiting) /\ IsFiniteSet(entries)
  BY <1>1, KidsAssumption, FS_Subset DEF ChildInv, ListTypes
<1>4. Cardinality(entries') = Cardinality(entries) + 1 /\ Cardinality(Waiting') = Cardinality(Waiting) - 1
  BY <1>2, <1>3, FS_AddElement, FS_RemoveElement
<1>5. Cardinality(entries) \in Nat /\ Cardinality(Waiting) \in Nat
  BY <1>3, FS_CardinalityType
<1>6. \A f, g \in entries' : f.uuid = g.uuid => f = g
  BY <1>2 DEF ChildInv, AnswerSoFar
<1>7. \A f \in entries' : f.uuid \notin Waiting' /\ "there" \in seen'[f.uuid] /\ Says(f) \in seen'[f.uuid]
  BY DEF ChildInv, AnswerSoFar
<1>8. ~Vanished' => Cardinality(entries') + Cardinality(Waiting') = counted'
  BY <1>1, <1>4, <1>5 DEF ChildInv, AnswerSoFar
<1>9. \A k \in before' : "gone" \notin seen'[k] => k \in Waiting' \/ \E f \in entries' : f.uuid = k
  BY DEF ChildInv, AnswerSoFar
<1>10. \A k \in Waiting' : "there" \in seen'[k]
  BY DEF ChildInv, AnswerSoFar
<1>11. QED
  BY <1>6, <1>7, <1>8, <1>9, <1>10 DEF AnswerSoFar

(* Every step of the list, of the logins and of the accounts *)
LEMMA ListStepInv == ChildInv /\ [ListNext]_listVars => ChildInv'
<1> SUFFICES ASSUME ChildInv, [ListNext]_listVars PROVE ChildInv'
  OBVIOUS
<1>1. CASE Request
  <2>1. \A c \in Kids : seen'[c] = {IF c \in kidRows THEN "there" ELSE "gone"} \cup {IF c \in online THEN "on" ELSE "off"}
    BY <1>1 DEF Request, Facts
  <2>2. seen' \in [Kids -> SUBSET {"there", "gone", "on", "off"}]
    BY <1>1, <2>1 DEF Request, Facts
  <2>3. ListTypes'
    BY <1>1, <2>2, FS_EmptySet DEF Request, ListTypes, ChildInv
  <2>4. SeenHas'
    BY <1>1, <2>1 DEF Request, SeenHas
  <2>5. AnswerSoFar'
    BY <1>1 DEF Request, AnswerSoFar
  <2>6. QED
    BY <2>3, <2>4, <2>5 DEF ChildInv
<1>2. CASE ListGet
  <2>1. /\ at = "list" /\ at' \in {"idle", "walk"} /\ todo' = kidRows /\ counted' = Cardinality(kidRows)
        /\ UNCHANGED <<kidRows, online, now, entries, changes, before, seen>>
    BY <1>2 DEF ListGet
  <2>2. ListTypes' /\ SeenHas'
    BY <2>1 DEF ListTypes, SeenHas, ChildInv
  <2>3. Waiting' = kidRows /\ entries' = {}
    BY <2>1 DEF Waiting, ChildInv, AnswerSoFar
  <2>4. Cardinality(entries') = 0 /\ Cardinality(Waiting') \in Nat
    <3>1. IsFiniteSet(kidRows)
      BY KidsAssumption, FS_Subset DEF ChildInv, ListTypes
    <3>2. QED
      BY <2>3, <3>1, FS_EmptySet, FS_CardinalityType
  <2>5. \A c \in kidRows : "there" \in seen[c]
    BY DEF ChildInv, ListTypes, SeenHas
  <2>6. \A c \in before : "gone" \notin seen[c] => c \in kidRows
    BY DEF ChildInv, ListTypes, SeenHas
  <2>7. Cardinality(entries') + Cardinality(Waiting') = counted'
    BY <2>1, <2>3, <2>4
  <2>8. AnswerSoFar'
    BY <2>1, <2>3, <2>5, <2>6, <2>7 DEF AnswerSoFar
  <2>9. QED
    BY <2>2, <2>8 DEF ChildInv
<1>3. CASE TryOnline
  <2>1. PICK c \in todo :
          /\ at = "walk" /\ now' = c /\ todo' = todo \ {c}
          /\ \/ c \in online /\ entries' = entries \cup {EntryOf(c, TRUE)} /\ UNCHANGED at
             \/ c \notin online /\ at' = "db" /\ UNCHANGED entries
          /\ UNCHANGED <<kidRows, online, counted, changes, before, seen>>
    BY <1>3 DEF TryOnline, EntryOf
  <2>2. c \in Kids
    BY <2>1 DEF ChildInv, ListTypes
  <2>3. ListTypes'
    <3>1. IsFiniteSet(entries') /\ \A e \in entries' : e.uuid \in Kids
      <4>1. IsFiniteSet(entries) /\ \A e \in entries : e.uuid \in Kids
        BY DEF ListTypes, ChildInv
      <4>2. IsFiniteSet(entries \cup {EntryOf(c, TRUE)})
        BY <4>1, FS_AddElement
      <4>3. EntryOf(c, TRUE).uuid \in Kids
        BY <2>2, EntryFacts
      <4>4. QED
        BY <2>1, <4>1, <4>2, <4>3
    <3>2. todo' \subseteq Kids /\ now' \in Kids \ todo' /\ at' \in {"walk", "db"}
      BY <2>1, <2>2 DEF ListTypes, ChildInv
    <3>3. QED
      BY <2>1, <3>1, <3>2 DEF ListTypes, ChildInv
  <2>4. SeenHas'
    BY <2>1 DEF SeenHas, ChildInv
  <2>5. CASE at' = "walk"
    <3>1. Waiting = todo /\ Waiting' = todo \ {c}
      BY <2>1, <2>5 DEF Waiting
    <3>2. "on" \in seen[c]
      BY <2>1, <2>2, <2>5 DEF ChildInv, SeenHas
    <3>3. AnswerSoFar'
      BY <2>1, <2>5, <3>1, <3>2, EntryFacts, EntryInv
    <3>4. QED
      BY <2>3, <2>4, <3>3 DEF ChildInv
  <2>6. CASE at' = "db"
    <3>1. Waiting' = Waiting /\ Vanished' = Vanished
      BY <2>1, <2>6 DEF Waiting, Vanished
    <3>2. "off" \in seen[c]
      BY <2>1, <2>2, <2>6 DEF ChildInv, SeenHas
    <3>3. AnswerSoFar'
      BY <2>1, <2>6, <3>1, <3>2 DEF AnswerSoFar, ChildInv
    <3>4. QED
      BY <2>3, <2>4, <3>3 DEF ChildInv
  <2>7. QED
    BY <2>1, <2>5, <2>6
<1>4. CASE TryDb
  <2>1. /\ at = "db" /\ at' = "walk"
        /\ entries' = IF now \in kidRows THEN entries \cup {EntryOf(now, FALSE)} ELSE entries
        /\ UNCHANGED <<kidRows, online, todo, now, counted, changes, before, seen>>
    BY <1>4 DEF TryDb, EntryOf
  <2>2. now \in Kids /\ now \notin todo
    BY <2>1 DEF ChildInv, ListTypes
  <2>3. ListTypes'
    BY <2>1, <2>2, EntryFacts, FS_AddElement DEF ListTypes, ChildInv
  <2>4. SeenHas'
    BY <2>1 DEF SeenHas, ChildInv
  <2>5. Waiting = todo \cup {now} /\ Waiting' = todo /\ Waiting' = Waiting \ {now} /\ now \in Waiting
    BY <2>1, <2>2 DEF Waiting
  <2>6. CASE now \in kidRows
    <3>1. "off" \in seen[now]
      BY <2>1 DEF ChildInv, AnswerSoFar
    <3>2. AnswerSoFar'
      <4>1. entries' = entries \cup {EntryOf(now, FALSE)} /\ UNCHANGED <<before, counted, seen>>
        BY <2>1, <2>6
      <4>2. EntryOf(now, FALSE).uuid = now /\ Says(EntryOf(now, FALSE)) \in seen[now]
        BY <3>1, EntryFacts
      <4>3. QED
        BY <2>1, <2>5, <4>1, <4>2, EntryInv
    <3>3. QED
      BY <2>3, <2>4, <3>2 DEF ChildInv
  <2>7. CASE now \notin kidRows
    <3>1. {"there", "gone"} \subseteq seen[now]
      BY <2>1, <2>2, <2>5, <2>7 DEF ChildInv, SeenHas, AnswerSoFar
    <3>2. Vanished' /\ entries' = entries
      BY <2>1, <2>2, <2>7, <3>1 DEF Vanished
    <3>3. AnswerSoFar'
      BY <2>1, <2>5, <3>1, <3>2 DEF AnswerSoFar, ChildInv
    <3>4. QED
      BY <2>3, <2>4, <3>3 DEF ChildInv
  <2>8. QED
    BY <2>6, <2>7
<1>5. CASE Looked
  <2>1. at = "walk" /\ todo = {} /\ at' = "answer" /\ UNCHANGED <<kidRows, online, todo, now, counted, entries, changes, before, seen>>
    BY <1>5 DEF Looked
  <2>2. Waiting' = Waiting /\ Vanished' = Vanished
    BY <2>1 DEF Waiting, Vanished
  <2>3. ListTypes' /\ SeenHas'
    BY <2>1 DEF ListTypes, SeenHas, ChildInv
  <2>4. AnswerSoFar'
    BY <2>1, <2>2 DEF AnswerSoFar, ChildInv
  <2>5. QED
    BY <2>3, <2>4 DEF ChildInv
<1>6. CASE SendAnswer
  BY <1>6 DEF SendAnswer, ChildInv, ListTypes, SeenHas, AnswerSoFar
<1>7. ASSUME NEW c \in Kids, LoginKid(c) \/ Leave(c) \/ CreateKid(c) \/ Remove(c) PROVE ChildInv'
  <2>1. kidRows \in SUBSET Kids /\ online \in SUBSET Kids
    BY DEF ChildInv, ListTypes
  <2>2. QED
    BY <1>7, <2>1, ChangeInv DEF LoginKid, Leave, CreateKid, Remove
<1>8. CASE UNCHANGED listVars
  BY <1>8 DEF listVars, ChildInv, ListTypes, SeenHas, AnswerSoFar, Waiting, Vanished
<1>9. QED
  BY <1>1, <1>2, <1>3, <1>4, <1>5, <1>6, <1>7, <1>8 DEF ListNext

(***************************************************************************)
(* For every finite set of children and every number of changes meanwhile: *)
(* the answer to req_account_list is true of the time of the request.      *)
(***************************************************************************)
THEOREM ListIsTrue == ListSpec => []ListTrue
<1>1. ASSUME ChildInv PROVE ListTrue
  <2> SUFFICES ASSUME at = "answer"
               PROVE  /\ \A e, f \in entries : e.uuid = f.uuid => e = f
                      /\ \A e \in entries : "there" \in seen[e.uuid] /\ Says(e) \in seen[e.uuid]
                      /\ \A c \in before : "gone" \notin seen[c] => \E e \in entries : e.uuid = c
                      /\ Cardinality(entries) < counted => Vanished
    BY DEF ListTrue, Says, Vanished
  <2>1. Waiting = {} /\ Cardinality(Waiting) = 0
    BY <1>1, FS_EmptySet DEF ChildInv, AnswerSoFar, Waiting
  <2>2. Cardinality(entries) \in Nat
    BY <1>1, FS_CardinalityType DEF ChildInv, ListTypes
  <2>3. QED
    BY <1>1, <2>1, <2>2 DEF ChildInv, AnswerSoFar
<1>2. QED
  BY <1>1, ListInitInv, ListStepInv, PTL DEF ListSpec

-----------------------------------------------------------------------------
(* The devices that are being played (DeviceSession) *)

(* A set of naturals that is not empty has a least element. *)
LEMMA LeastExists == ASSUME NEW T \in SUBSET Nat, T # {} PROVE \E m \in T : \A n \in T : m <= n
<1> DEFINE R == OpToRel(<, Nat)
<1>1. IsWellFoundedOn(R, Nat)
  BY NatLessThanWellFounded
<1>2. \A m, n \in Nat : m < n => <<m, n>> \in R
  BY DEF OpToRel
<1> HIDE DEF R
<1>3. PICK m \in T : \A n \in T : ~(<<n, m>> \in R)
  BY <1>1, WFMin
<1>4. ASSUME NEW n \in T PROVE m <= n
  <2>1. m \in Nat /\ n \in Nat /\ ~(<<n, m>> \in R)
    BY <1>3
  <2>2. ~(n < m)
    BY <1>2, <2>1
  <2>3. QED
    BY <2>1, <2>2
<1>5. QED
  BY <1>4

(* Where a request holds a block *)
Held == {"get", "put", "counted", "touched", "left", "remove", "release"}

PlayType == [pc : {"idle", "play", "stop", "touch", "new", "missing", "idleDevice"} \cup Held,
             uuid : Devices \cup {NoDevice}, at : Blocks \cup {NoBlock}]

DeviceTypes ==
  /\ list \in Seq(Blocks) /\ live \subseteq Blocks
  /\ uuidOf \in [Blocks -> Devices \cup {NoDevice}] /\ count \in [Blocks -> Int]
  /\ player \in [Players -> PlayType] /\ plays \in [Devices -> Int]

(* What holds of the list and of the requests for all devices: what is     *)
(* listed, or held by a request, is allocated, and for its device.         *)
ListSound ==
  /\ \A i, j \in 1..Len(list) : list[i] = list[j] => i = j
  /\ \A i \in 1..Len(list) : list[i] \in live

Sound(h) ==
  /\ h.pc = "idle" <=> h.uuid = NoDevice
  /\ h.pc \notin Held => h.at = NoBlock
  /\ h.at # NoBlock => h.at \in live /\ uuidOf[h.at] = h.uuid
  /\ h.pc = "release" => ~Listed(h.at)

PlayersSound == \A p \in Players : Sound(player[p])

Stops == {"left", "remove", "release"}

(* What holds of device u as long as no two requests for it overlapped *)
OneRequest(u) == \A p, q \in Players : player[p].uuid = u /\ player[q].uuid = u => p = q

OneBlock(u) == \A b, c \in live : uuidOf[b] = u /\ uuidOf[c] = u => b = c

BlockKept(u) ==
  \A b \in live : uuidOf[b] = u =>
    /\ count[b] = plays[u]
    /\ Listed(b) \/ \E p \in Players : player[p].at = b /\ player[p].pc = "release"
    /\ plays[u] # 0 \/ \E p \in Players : player[p].at = b /\ player[p].pc \in Stops

PlaysKept(u) == plays[u] >= 0 /\ (plays[u] # 0 => \E b \in live : uuidOf[b] = u)

Fit(h, u) ==
  h.uuid = u =>
    /\ h.pc \in Held => h.at # NoBlock
    /\ h.pc = "new" => \A b \in live : uuidOf[b] # u
    /\ h.pc \in {"remove", "release"} => plays[u] = 0

RequestKept(u) == \A p \in Players : Fit(player[p], u)

Own(u) == OneRequest(u) /\ OneBlock(u) /\ BlockKept(u) /\ PlaysKept(u) /\ RequestKept(u)

DeviceInv ==
  DeviceTypes /\ (~faulted => ListSound /\ PlayersSound /\ \A u \in Devices \ overlapped : Own(u))

(* No block is 0. *)
LEMMA BlocksFacts == Blocks \subseteq Nat /\ NoBlock \notin Blocks
BY DevicesAssumption DEF Blocks, NoBlock

(* The walk along the list finds a block of the device, if there is one. *)
LEMMA FoundFacts ==
  ASSUME DeviceTypes, NEW u
  PROVE  \/ Found(u) = NoBlock /\ \A b \in Blocks : Listed(b) => uuidOf[b] # u
         \/ Found(u) \in Blocks /\ Listed(Found(u)) /\ uuidOf[Found(u)] = u
<1> DEFINE places == {i \in 1..Len(list) : uuidOf[list[i]] = u}
<1>1. list \in Seq(Blocks) /\ Len(list) \in Nat
  BY DEF DeviceTypes
<1>2. CASE places = {}
  <2>1. Found(u) = NoBlock
    BY <1>2 DEF Found
  <2>2. QED
    BY <1>2, <2>1 DEF Listed
<1>3. CASE places # {}
  <2>1. places \in SUBSET Nat
    BY <1>1
  <2>2. \E i \in places : \A j \in places : i <= j
    BY <1>3, <2>1, LeastExists
  <2>3. PICK i \in places : i = CHOOSE x \in places : \A j \in places : x <= j
    BY <2>2
  <2>4. Found(u) = list[i]
    BY <1>3, <2>3 DEF Found
  <2>5. QED
    BY <1>1, <2>4 DEF Listed
<1>4. QED
  BY <1>2, <1>3

(* A request goes on with the block it has. *)
LEMMA GotoFacts ==
  ASSUME DeviceTypes, NEW p \in Players, NEW x \in Held, Goto(p, x)
  PROVE  \E h \in PlayType : /\ player' = [player EXCEPT ![p] = h]
                             /\ h.pc = x /\ h.uuid = player[p].uuid /\ h.at = player[p].at
<1>1. player \in [Players -> PlayType]
  BY DEF DeviceTypes
<1>2. PICK g \in PlayType : g = player[p]
  BY <1>1
<1>3. PICK h : h = [g EXCEPT !.pc = x]
  OBVIOUS
<1>4. h \in PlayType /\ h.pc = x /\ h.uuid = g.uuid /\ h.at = g.at
  BY <1>2, <1>3 DEF PlayType
<1>5. player' = [player EXCEPT ![p] = h]
  BY <1>1, <1>2, <1>3 DEF Goto
<1>6. QED
  BY <1>2, <1>4, <1>5

(* An answered request is over. *)
LEMMA NoPlayFacts ==
  NoPlay \in PlayType /\ NoPlay.pc = "idle" /\ NoPlay.uuid = NoDevice /\ NoPlay.at = NoBlock
BY DEF NoPlay, PlayType

(* A step that changes one request only keeps what holds of all. *)
LEMMA PlayerSound ==
  ASSUME DeviceTypes, ListSound, PlayersSound,
         UNCHANGED <<list, uuidOf, live, count, plays>>,
         NEW p \in Players, NEW h \in PlayType, Sound(h), player' = [player EXCEPT ![p] = h]
  PROVE  DeviceTypes' /\ ListSound' /\ PlayersSound'
<1>1. player \in [Players -> PlayType]
  BY DEF DeviceTypes
<1>2. player' \in [Players -> PlayType]
  BY <1>1
<1>3. DeviceTypes'
  BY <1>2 DEF DeviceTypes
<1>4. ListSound'
  BY DEF ListSound
<1>5. ASSUME NEW q \in Players PROVE Sound(player[q])'
  <2>1. \A x : Listed(x)' <=> Listed(x)
    BY DEF Listed
  <2>2. player'[q] = h \/ player'[q] = player[q]
    BY <1>1
  <2>3. Sound(player[q])
    BY DEF PlayersSound
  <2>4. CASE player'[q] = h
    BY <2>1, <2>4 DEF Sound
  <2>5. CASE player'[q] = player[q]
    BY <2>1, <2>3, <2>5 DEF Sound
  <2>6. QED
    BY <2>2, <2>4, <2>5
<1>6. QED
  BY <1>3, <1>4, <1>5 DEF PlayersSound

(* It keeps what holds of a device when the request is the only one for it *)
(* and does not forget a block that is not played.                         *)
LEMMA PlayerOwn ==
  ASSUME DeviceTypes, UNCHANGED <<list, uuidOf, live, count, plays>>,
         NEW p \in Players, NEW h \in PlayType, player' = [player EXCEPT ![p] = h],
         NEW u \in Devices, Own(u), Fit(h, u), player[p].pc # "release",
         h.uuid = u => \A q \in Players : player[q].uuid = u => q = p,
         \A b \in live : uuidOf[b] = u /\ player[p].at = b /\ player[p].pc \in Stops
                          => plays[u] # 0 \/ (h.at = b /\ h.pc \in Stops)
  PROVE  Own(u)'
<1>1. player \in [Players -> PlayType]
  BY DEF DeviceTypes
<1>2. player'[p] = h /\ \A q \in Players : q # p => player'[q] = player[q]
  BY <1>1
<1>3. OneRequest(u)'
  BY <1>2 DEF Own, OneRequest
<1>4. OneBlock(u)'
  BY DEF Own, OneBlock
<1>5. PlaysKept(u)'
  BY DEF Own, PlaysKept
<1>6. \A x : Listed(x)' <=> Listed(x)
  BY DEF Listed
<1>7. ASSUME NEW b \in live, uuidOf[b] = u
      PROVE  /\ count[b] = plays[u]
             /\ Listed(b) \/ \E q \in Players : player'[q].at = b /\ player'[q].pc = "release"
             /\ plays[u] # 0 \/ \E q \in Players : player'[q].at = b /\ player'[q].pc \in Stops
  <2>1. /\ count[b] = plays[u]
        /\ Listed(b) \/ \E q \in Players : player[q].at = b /\ player[q].pc = "release"
        /\ plays[u] # 0 \/ \E q \in Players : player[q].at = b /\ player[q].pc \in Stops
    BY <1>7 DEF Own, BlockKept
  <2>2. ASSUME NEW q \in Players, player[q].at = b, player[q].pc = "release"
        PROVE  player'[q].at = b /\ player'[q].pc = "release"
    BY <1>2, <2>2
  <2>3. ASSUME NEW q \in Players, player[q].at = b, player[q].pc \in Stops, plays[u] = 0
        PROVE  \E r \in Players : player'[r].at = b /\ player'[r].pc \in Stops
    <3>1. CASE q = p
      BY <1>2, <1>7, <2>3, <3>1
    <3>2. CASE q # p
      BY <1>2, <2>3, <3>2
    <3>3. QED
      BY <3>1, <3>2
  <2>4. QED
    BY <2>1, <2>2, <2>3
<1>8. BlockKept(u)'
  BY <1>6, <1>7 DEF BlockKept
<1>9. ASSUME NEW q \in Players PROVE Fit(player[q], u)'
  <2>1. Fit(player'[q], u)
    BY <1>2 DEF Own, RequestKept
  <2>2. QED
    BY <2>1 DEF Fit
<1>10. QED
  BY <1>3, <1>4, <1>5, <1>8, <1>9 DEF Own, RequestKept

(* A step that leaves the blocks and the requests of a device alone keeps  *)
(* what holds of it.                                                       *)
LEMMA OtherDevice ==
  ASSUME DeviceTypes, DeviceTypes', PlayersSound, NEW u \in Devices, Own(u),
         \A b \in Blocks : (b \in live' /\ uuidOf'[b] = u) <=> (b \in live /\ uuidOf[b] = u),
         \A b \in live : uuidOf[b] = u => count'[b] = count[b] /\ (Listed(b) => Listed(b)'),
         plays'[u] = plays[u],
         \A q \in Players : player[q].uuid = u \/ player'[q].uuid = u => player'[q] = player[q]
  PROVE  Own(u)'
<1>1. live \subseteq Blocks /\ live' \subseteq Blocks
  BY DEF DeviceTypes
<1>2. OneRequest(u)'
  BY DEF Own, OneRequest
<1>3. OneBlock(u)'
  BY <1>1 DEF Own, OneBlock
<1>4. PlaysKept(u)'
  BY <1>1 DEF Own, PlaysKept
<1>5. ASSUME NEW b \in live, uuidOf[b] = u
      PROVE  /\ count'[b] = plays'[u]
             /\ Listed(b)' \/ \E q \in Players : player'[q].at = b /\ player'[q].pc = "release"
             /\ plays'[u] # 0 \/ \E q \in Players : player'[q].at = b /\ player'[q].pc \in Stops
  <2>1. /\ count[b] = plays[u]
        /\ Listed(b) \/ \E q \in Players : player[q].at = b /\ player[q].pc = "release"
        /\ plays[u] # 0 \/ \E q \in Players : player[q].at = b /\ player[q].pc \in Stops
    BY <1>5 DEF Own, BlockKept
  <2>2. ASSUME NEW q \in Players, player[q].at = b PROVE player'[q] = player[q]
    <3>1. b # NoBlock
      BY <1>1, BlocksFacts
    <3>2. player[q].uuid = u
      BY <1>5, <2>2, <3>1 DEF PlayersSound, Sound
    <3>3. QED
      BY <3>2
  <2>3. count'[b] = plays'[u]
    BY <1>5, <2>1
  <2>4. QED
    BY <1>5, <2>1, <2>2, <2>3
<1>6. BlockKept(u)'
  <2>1. ASSUME NEW b \in live', uuidOf'[b] = u PROVE b \in live /\ uuidOf[b] = u
    BY <1>1, <2>1
  <2>2. QED
    BY <1>5, <2>1 DEF BlockKept
<1>7. ASSUME NEW q \in Players PROVE Fit(player[q], u)'
  <2>1. CASE player'[q].uuid # u
    BY <2>1 DEF Fit
  <2>2. CASE player'[q].uuid = u
    <3>1. player'[q] = player[q] /\ Fit(player[q], u)
      BY <2>2 DEF Own, RequestKept
    <3>2. (\A b \in live : uuidOf[b] # u) => \A b \in live' : uuidOf'[b] # u
      BY <1>1
    <3>3. QED
      BY <3>1, <3>2 DEF Fit
  <2>3. QED
    BY <2>1, <2>2
<1>8. QED
  BY <1>2, <1>3, <1>4, <1>6, <1>7 DEF Own, RequestKept

(* What a step has to keep while nothing is undefined *)
DeviceKeeps == DeviceTypes /\ ListSound /\ PlayersSound /\ \A u \in Devices \ overlapped : Own(u)

(* One request goes on, nothing else changes: h is what it does next. *)
LEMMA PlayerKeeps ==
  ASSUME DeviceKeeps, UNCHANGED <<list, uuidOf, live, count, plays, overlapped>>,
         NEW p \in Players, NEW h \in PlayType, Sound(h), player' = [player EXCEPT ![p] = h],
         h.uuid \in {player[p].uuid, NoDevice}, player[p].pc # "release",
         \A u \in Devices \ overlapped : player[p].uuid = u /\ Own(u) =>
           /\ Fit(h, u)
           /\ player[p].pc \in Stops => plays[u] # 0 \/ (h.at = player[p].at /\ h.pc \in Stops)
  PROVE  DeviceKeeps'
<1>1. DeviceTypes /\ ListSound /\ PlayersSound
  BY DEF DeviceKeeps
<1>2. DeviceTypes' /\ ListSound' /\ PlayersSound'
  BY <1>1, PlayerSound
<1>3. ASSUME NEW u \in Devices \ overlapped PROVE Own(u)'
  <2>1. Own(u)
    BY DEF DeviceKeeps
  <2>2. player \in [Players -> PlayType]
    BY <1>1 DEF DeviceTypes
  <2>3. u # NoDevice
    BY DevicesAssumption
  <2>4. CASE player[p].uuid = u
    <3>1. Fit(h, u) /\ (player[p].pc \in Stops => plays[u] # 0 \/ (h.at = player[p].at /\ h.pc \in Stops))
      BY <2>1, <2>4
    <3>2. \A q \in Players : player[q].uuid = u => q = p
      BY <2>1, <2>4 DEF Own, OneRequest
    <3>3. \A b \in live : uuidOf[b] = u /\ player[p].at = b /\ player[p].pc \in Stops
                           => plays[u] # 0 \/ (h.at = b /\ h.pc \in Stops)
      BY <3>1
    <3>4. QED
      BY <1>1, <2>1, <3>1, <3>2, <3>3, PlayerOwn
  <2>5. CASE player[p].uuid # u
    <3>1. h.uuid # u
      BY <2>3, <2>5
    <3>2. \A q \in Players : player[q].uuid = u \/ player'[q].uuid = u => player'[q] = player[q]
      BY <2>2, <2>5, <3>1
    <3>3. \A b \in live : Listed(b) => Listed(b)'
      BY DEF Listed
    <3>4. QED
      BY <1>1, <1>2, <2>1, <3>2, <3>3, OtherDevice
  <2>6. QED
    BY <2>4, <2>5
<1>4. QED
  BY <1>2, <1>3 DEF DeviceKeeps

(* A request that is answered, having left its device played or not listed *)
LEMMA AnswerKeeps ==
  ASSUME DeviceKeeps, UNCHANGED <<list, uuidOf, live, count, plays, overlapped>>,
         NEW p \in Players, Answer(p), player[p].pc # "release",
         player[p].pc \in Stops =>
           \A u \in Devices \ overlapped : player[p].uuid = u /\ Own(u) => plays[u] # 0
  PROVE  DeviceKeeps'
<1>1. PICK h \in PlayType : h = NoPlay /\ h.pc = "idle" /\ h.uuid = NoDevice /\ h.at = NoBlock
  BY NoPlayFacts
<1>2. player' = [player EXCEPT ![p] = h]
  BY <1>1 DEF Answer
<1>3. Sound(h)
  BY <1>1 DEF Sound, Held
<1>4. \A u \in Devices : Fit(h, u)
  BY <1>1, DevicesAssumption DEF Fit
<1>5. h.uuid \in {player[p].uuid, NoDevice}
  BY <1>1
<1>6. QED
  BY <1>2, <1>3, <1>4, <1>5, PlayerKeeps

(* The walks along the list *)
LEMMA WalkKeeps ==
  ASSUME DeviceKeeps, NEW p \in Players, NEW op \in {"play", "stop", "touch"},
         NEW found \in {"get", "put", "touched"}, NEW notFound \in {"new", "missing", "idleDevice"},
         Walk(p, op, found, notFound)
  PROVE  DeviceKeeps'
<1>1. /\ UNCHANGED <<list, uuidOf, live, count, plays, overlapped>>
      /\ player[p].pc = op
  BY DEF Walk, At
<1>2. DeviceTypes /\ ListSound /\ PlayersSound
  BY DEF DeviceKeeps
<1>3. player \in [Players -> PlayType] /\ list \in Seq(Blocks)
  BY <1>2 DEF DeviceTypes
<1>4. PICK g \in PlayType : g = player[p]
  BY <1>3
<1>5. PICK b : b = Found(g.uuid)
  OBVIOUS
<1>6. PICK x : x = IF b = NoBlock THEN notFound ELSE found
  OBVIOUS
<1>7. PICK h : h = [pc |-> x, uuid |-> g.uuid, at |-> b]
  OBVIOUS
<1>8. player' = [player EXCEPT ![p] = h]
  <2>1. player' = [player EXCEPT ![p].at = b, ![p].pc = x]
    BY <1>4, <1>5, <1>6 DEF Walk
  <2>2. h = [[g EXCEPT !.at = b] EXCEPT !.pc = x]
    <3>1. PICK y, w, z : g = [pc |-> y, uuid |-> w, at |-> z]
      BY <1>4 DEF PlayType
    <3>2. [g EXCEPT !.at = b] = [pc |-> y, uuid |-> w, at |-> b]
      BY <3>1
    <3>3. g.uuid = w
      BY <3>1
    <3>4. PICK k : k = [g EXCEPT !.at = b]
      OBVIOUS
    <3>5. k = [pc |-> y, uuid |-> w, at |-> b]
      BY <3>2, <3>4
    <3>6. [k EXCEPT !.pc = x] = [pc |-> x, uuid |-> w, at |-> b]
      BY <3>5
    <3>7. h = [k EXCEPT !.pc = x]
      BY <1>7, <3>3, <3>6
    <3>8. QED
      BY <3>4, <3>7
  <2>3. QED
    BY <1>3, <1>4, <2>1, <2>2
<1>9. \/ b = NoBlock /\ x = notFound /\ \A c \in Blocks : Listed(c) => uuidOf[c] # g.uuid
      \/ b \in Blocks /\ b # NoBlock /\ x = found /\ Listed(b) /\ uuidOf[b] = g.uuid
  BY <1>2, <1>5, <1>6, FoundFacts, BlocksFacts
<1>10. b \in Blocks \cup {NoBlock} /\ x \in {"new", "missing", "idleDevice"} \cup Held
  BY <1>9 DEF Held
<1>11. h \in PlayType /\ h.pc = x /\ h.uuid = g.uuid /\ h.at = b
  BY <1>4, <1>7, <1>10 DEF PlayType
<1>12. Sound(h)
  <2>1. g.uuid # NoDevice
    BY <1>1, <1>2, <1>4 DEF PlayersSound, Sound
  <2>2. b # NoBlock => b \in live /\ uuidOf[b] = g.uuid
    BY <1>2, <1>9 DEF ListSound, Listed
  <2>3. x # "idle" /\ x # "release" /\ (x \notin Held => b = NoBlock)
    BY <1>9 DEF Held
  <2>4. QED
    BY <1>11, <2>1, <2>2, <2>3 DEF Sound
<1>13. ASSUME NEW u \in Devices, player[p].uuid = u, Own(u) PROVE Fit(h, u)
  <2>1. x \notin {"remove", "release"}
    BY <1>9
  <2>2. x \in Held => b # NoBlock
    BY <1>9 DEF Held
  <2>3. ASSUME x = "new", NEW c \in live, uuidOf[c] = u PROVE FALSE
    <3>1. c \in Blocks /\ \A d \in Blocks : Listed(d) => uuidOf[d] # u
      BY <1>2, <1>4, <1>9, <1>13, <2>3 DEF DeviceTypes
    <3>2. PICK q \in Players : player[q].at = c /\ player[q].pc = "release"
      BY <1>13, <2>3, <3>1 DEF Own, BlockKept
    <3>3. player[q].uuid = u
      BY <1>2, <2>3, <3>1, <3>2, BlocksFacts DEF PlayersSound, Sound
    <3>4. q = p
      BY <1>13, <3>3 DEF Own, OneRequest
    <3>5. QED
      BY <1>1, <3>2, <3>4
  <2>4. QED
    BY <1>11, <2>1, <2>2, <2>3 DEF Fit
<1>14. player[p].pc \notin Stops /\ player[p].pc # "release" /\ h.uuid \in {player[p].uuid, NoDevice}
  BY <1>1, <1>4, <1>11 DEF Stops
<1>15. QED
  BY <1>1, <1>8, <1>11, <1>12, <1>13, <1>14, PlayerKeeps

(* pref_put has read the count. *)
LEMMA LeftKeeps ==
  ASSUME DeviceKeeps, NEW p \in Players, StopLeft(p)
  PROVE  DeviceKeeps'
<1>1. /\ UNCHANGED <<list, uuidOf, live, count, plays, overlapped>>
      /\ player[p].pc = "left" /\ player[p].at \in live
  BY DEF StopLeft, At, Alive
<1>2. DeviceTypes /\ PlayersSound
  BY DEF DeviceKeeps
<1>3. player[p].at \in Blocks /\ player[p].at # NoBlock
  BY <1>1, <1>2, BlocksFacts DEF DeviceTypes
<1>4. uuidOf[player[p].at] = player[p].uuid
  BY <1>2, <1>3 DEF PlayersSound, Sound
<1>5. ASSUME NEW u \in Devices, player[p].uuid = u, Own(u) PROVE count[player[p].at] = plays[u]
  BY <1>1, <1>4, <1>5 DEF Own, BlockKept
<1>6. CASE count[player[p].at] = 0
  <2>1. Goto(p, "remove") /\ "remove" \in Held
    BY <1>6 DEF StopLeft, Held
  <2>2. PICK h \in PlayType : /\ player' = [player EXCEPT ![p] = h]
                              /\ h.pc = "remove" /\ h.uuid = player[p].uuid /\ h.at = player[p].at
    BY <1>2, <2>1, GotoFacts
  <2>3. Sound(h)
    BY <1>1, <1>2, <2>1, <2>2 DEF PlayersSound, Sound
  <2>4. ASSUME NEW u \in Devices, player[p].uuid = u, Own(u) PROVE Fit(h, u) /\ h.pc \in Stops
    <3>1. plays[u] = 0
      BY <1>5, <1>6, <2>4
    <3>2. QED
      BY <1>3, <2>2, <3>1 DEF Fit, Stops
  <2>5. QED
    BY <1>1, <2>2, <2>3, <2>4, PlayerKeeps
<1>7. CASE count[player[p].at] # 0
  <2>1. Answer(p)
    BY <1>7 DEF StopLeft
  <2>2. QED
    BY <1>1, <1>5, <1>7, <2>1, AnswerKeeps
<1>8. QED
  BY <1>6, <1>7

(* A request begins; if there was another one for the device, what is kept *)
(* of it is given up.                                                      *)
LEMMA BeginKeeps ==
  ASSUME DeviceKeeps, NEW p \in Players, NEW op \in {"play", "stop", "touch"}, NEW u \in Devices,
         Begin(p, op, u)
  PROVE  DeviceKeeps'
<1>1. /\ UNCHANGED <<list, uuidOf, live, count>> /\ player[p].pc = "idle"
  BY DEF Begin, At
<1>2. DeviceTypes /\ ListSound /\ PlayersSound
  BY DEF DeviceKeeps
<1>3. player \in [Players -> PlayType] /\ plays \in [Devices -> Int]
  BY <1>2 DEF DeviceTypes
<1>4. PICK h : h = [pc |-> op, uuid |-> u, at |-> NoBlock]
  OBVIOUS
<1>5. player' = [player EXCEPT ![p] = h]
  BY <1>4 DEF Begin
<1>6. h \in PlayType /\ h.pc = op /\ h.uuid = u /\ h.at = NoBlock
  BY <1>4 DEF PlayType
<1>7. u # NoDevice
  BY DevicesAssumption
<1>8. Sound(h)
  BY <1>6, <1>7 DEF Sound
<1>9. player'[p] = h /\ \A q \in Players : q # p => player'[q] = player[q]
  BY <1>3, <1>5
<1>10. player[p].uuid = NoDevice /\ player[p].at = NoBlock
  BY <1>1, <1>2 DEF PlayersSound, Sound, Held
<1>11. /\ plays' \in [Devices -> Int] /\ overlapped \subseteq overlapped'
       /\ \A w \in Devices \ overlapped' : plays'[w] = plays[w]
  <2>1. CASE \E q \in Players : player[q].uuid = u
    <3>1. overlapped' = overlapped \cup {u} /\ plays' = [plays EXCEPT ![u] = 0]
      BY <2>1 DEF Begin
    <3>2. QED
      BY <1>3, <3>1
  <2>2. CASE ~\E q \in Players : player[q].uuid = u
    <3>1. overlapped' = overlapped /\ plays' = plays
      BY <2>2 DEF Begin
    <3>2. QED
      BY <1>3, <3>1
  <2>3. QED
    BY <2>1, <2>2
<1>12. DeviceTypes'
  <2>1. player' \in [Players -> PlayType]
    BY <1>3, <1>5, <1>6
  <2>2. QED
    BY <1>1, <1>2, <1>11, <2>1 DEF DeviceTypes
<1>13. ListSound'
  BY <1>1, <1>2 DEF ListSound
<1>14. \A x : Listed(x)' <=> Listed(x)
  BY <1>1 DEF Listed
<1>15. ASSUME NEW q \in Players PROVE Sound(player[q])'
  <2>1. Sound(player'[q])
    BY <1>2, <1>8, <1>9 DEF PlayersSound
  <2>2. QED
    BY <1>1, <1>14, <2>1 DEF Sound
<1>16. ASSUME NEW w \in Devices \ overlapped' PROVE Own(w)'
  <2>1. Own(w) /\ plays'[w] = plays[w]
    BY <1>11 DEF DeviceKeeps
  <2>2. CASE w # u
    <3>1. \A q \in Players : player[q].uuid = w \/ player'[q].uuid = w => player'[q] = player[q]
      BY <1>6, <1>7, <1>9, <1>10, <2>2, DevicesAssumption
    <3>2. QED
      BY <1>1, <1>2, <1>12, <1>14, <2>1, <3>1, OtherDevice
  <2>3. CASE w = u
    <3>1. \A q \in Players : player[q].uuid # u
      <4>1. SUFFICES ASSUME NEW q \in Players, player[q].uuid = u PROVE FALSE
        OBVIOUS
      <4>2. overlapped' = overlapped \cup {u}
        BY <4>1 DEF Begin
      <4>3. QED
        BY <2>3, <4>2
    <3>2. plays' = plays
      BY <3>1 DEF Begin
    <3>3. Fit(h, u)
      BY <1>6 DEF Fit, Held
    <3>4. player[p].pc # "release" /\ player[p].pc \notin Stops
      BY <1>1 DEF Stops
    <3>5. QED
      BY <1>1, <1>2, <1>5, <1>6, <2>1, <2>3, <3>1, <3>2, <3>3, <3>4, PlayerOwn
  <2>4. QED
    BY <2>2, <2>3
<1>17. QED
  BY <1>12, <1>13, <1>15, <1>16 DEF DeviceKeeps, PlayersSound

(* pref_get and pref_put: the count of the block changes by n. *)
LEMMA CountKeeps ==
  ASSUME DeviceKeeps, NEW p \in Players, NEW n \in {1, -1}, NEW x \in {"counted", "left"},
         player[p].pc \in {"get", "put"}, player[p].at \in live,
         n = -1 => x = "left",
         count' = [count EXCEPT ![player[p].at] = @ + n], Played(player[p].uuid, n), Goto(p, x),
         UNCHANGED <<list, uuidOf, live, overlapped>>
  PROVE  DeviceKeeps'
<1>1. DeviceTypes /\ ListSound /\ PlayersSound
  BY DEF DeviceKeeps
<1>2. /\ player \in [Players -> PlayType] /\ plays \in [Devices -> Int]
      /\ count \in [Blocks -> Int] /\ live \subseteq Blocks
  BY <1>1 DEF DeviceTypes
<1>3. PICK b \in Blocks : b = player[p].at /\ b # NoBlock /\ b \in live
  BY <1>2, BlocksFacts
<1>4. PICK w \in Devices : w = player[p].uuid /\ w = uuidOf[b]
  <2>1. player[p].uuid # NoDevice /\ uuidOf[b] = player[p].uuid
    BY <1>1, <1>3 DEF PlayersSound, Sound
  <2>2. player[p].uuid \in Devices \cup {NoDevice}
    BY <1>2 DEF PlayType
  <2>3. QED
    BY <2>1, <2>2
<1>5. x \in Held
  BY DEF Held
<1>6. PICK h \in PlayType : /\ player' = [player EXCEPT ![p] = h]
                            /\ h.pc = x /\ h.uuid = w /\ h.at = b
  <2>1. PICK h \in PlayType : /\ player' = [player EXCEPT ![p] = h]
                              /\ h.pc = x /\ h.uuid = player[p].uuid /\ h.at = player[p].at
    BY <1>1, <1>5, GotoFacts
  <2>2. QED
    BY <1>3, <1>4, <2>1
<1>7. player'[p] = h /\ \A q \in Players : q # p => player'[q] = player[q]
  BY <1>2, <1>6
<1>8. /\ count' \in [Blocks -> Int] /\ count'[b] = count[b] + n
      /\ \A c \in Blocks : c # b => count'[c] = count[c]
  BY <1>2, <1>3
<1>9. /\ plays' \in [Devices -> Int]
      /\ w \notin overlapped => plays'[w] = plays[w] + n
      /\ \A u \in Devices : u # w => plays'[u] = plays[u]
  BY <1>2, <1>4 DEF Played
<1>10. DeviceTypes'
  <2>1. player' \in [Players -> PlayType]
    BY <1>2, <1>6
  <2>2. QED
    BY <1>1, <1>8, <1>9, <2>1 DEF DeviceTypes
<1>11. ListSound'
  BY <1>1 DEF ListSound
<1>12. \A y : Listed(y)' <=> Listed(y)
  BY DEF Listed
<1>13. ASSUME NEW q \in Players PROVE Sound(player[q])'
  <2>1. Sound(h)
    BY <1>3, <1>4, <1>5, <1>6, DevicesAssumption DEF Sound
  <2>2. Sound(player'[q])
    BY <1>1, <1>7, <2>1 DEF PlayersSound
  <2>3. QED
    BY <1>12, <2>2 DEF Sound
<1>14. ASSUME NEW u \in Devices \ overlapped PROVE Own(u)'
  <2>1. Own(u)
    BY DEF DeviceKeeps
  <2>2. CASE u # w
    <3>1. \A q \in Players : player[q].uuid = u \/ player'[q].uuid = u => player'[q] = player[q]
      BY <1>4, <1>6, <1>7, <2>2
    <3>2. \A c \in live : uuidOf[c] = u => count'[c] = count[c] /\ (Listed(c) => Listed(c)')
      BY <1>2, <1>4, <1>8, <1>12, <2>2
    <3>3. QED
      BY <1>1, <1>9, <1>10, <2>1, <2>2, <3>1, <3>2, OtherDevice
  <2>3. CASE u = w
    <3>1. \A c \in live : uuidOf[c] = u => c = b
      BY <1>3, <1>4, <2>1, <2>3 DEF Own, OneBlock
    <3>2. \A q \in Players : player[q].uuid = u => q = p
      BY <1>4, <2>1, <2>3 DEF Own, OneRequest
    <3>3. \A q \in Players : player[q].at = b => q = p
      BY <1>1, <1>3, <1>4, <2>3, <3>2 DEF PlayersSound, Sound
    <3>4. /\ count[b] = plays[u] /\ Listed(b) /\ plays[u] # 0 /\ plays[u] >= 0
      BY <1>3, <1>4, <2>1, <2>3, <3>3 DEF Own, BlockKept, PlaysKept, Stops
    <3>5. plays[u] \in Int /\ plays'[u] = plays[u] + n
      BY <1>2, <1>9, <2>3
    <3>6. plays'[u] >= 0 /\ (plays'[u] # 0 \/ x = "left") /\ count'[b] = plays'[u]
      BY <1>8, <3>4, <3>5
    <3>7. OneRequest(u)'
      BY <1>6, <1>7, <2>3, <3>2 DEF OneRequest
    <3>8. OneBlock(u)'
      BY <2>1 DEF Own, OneBlock
    <3>9. BlockKept(u)'
      <4>1. Listed(b)'
        BY <1>12, <3>4
      <4>2. x = "left" => player'[p].at = b /\ player'[p].pc \in Stops
        BY <1>6, <1>7 DEF Stops
      <4>3. QED
        BY <3>1, <3>6, <4>1, <4>2 DEF BlockKept
    <3>10. PlaysKept(u)'
      BY <1>3, <1>4, <2>3, <3>6 DEF PlaysKept
    <3>11. RequestKept(u)'
      <4>1. ASSUME NEW q \in Players, player'[q].uuid = u
            PROVE player'[q].at # NoBlock /\ player'[q].pc \notin {"new", "remove", "release"}
        BY <1>3, <1>6, <1>7, <3>2, <4>1
      <4>2. QED
        BY <4>1 DEF RequestKept, Fit
    <3>12. QED
      BY <3>7, <3>8, <3>9, <3>10, <3>11 DEF Own
  <2>4. QED
    BY <2>2, <2>3
<1>15. QED
  BY <1>10, <1>11, <1>13, <1>14 DEF DeviceKeeps, PlayersSound

(* A new block *)
LEMMA NewKeeps ==
  ASSUME DeviceKeeps, NEW p \in Players, PlayNew(p)
  PROVE  DeviceKeeps'
<1>1. DeviceTypes /\ ListSound /\ PlayersSound
  BY DEF DeviceKeeps
<1>2. /\ player \in [Players -> PlayType] /\ plays \in [Devices -> Int] /\ list \in Seq(Blocks)
      /\ count \in [Blocks -> Int] /\ live \subseteq Blocks
      /\ uuidOf \in [Blocks -> Devices \cup {NoDevice}]
  BY <1>1 DEF DeviceTypes
<1>3. PICK w \in Devices : w = player[p].uuid
  <2>1. player[p].uuid # NoDevice
    BY <1>1 DEF PlayersSound, Sound, PlayNew, At
  <2>2. player[p].uuid \in Devices \cup {NoDevice}
    BY <1>2 DEF PlayType
  <2>3. QED
    BY <2>1, <2>2
<1>4. PICK b \in Blocks \ live : b = CHOOSE x \in Blocks \ live : \A y \in Blocks \ live : x <= y
  <2>1. Blocks \ live \in SUBSET Nat /\ Blocks \ live # {}
    BY <1>2, BlocksFacts DEF PlayNew
  <2>2. \E x \in Blocks \ live : \A y \in Blocks \ live : x <= y
    BY <2>1, LeastExists
  <2>3. QED
    BY <2>2
<1>5. /\ live' = live \cup {b} /\ uuidOf' = [uuidOf EXCEPT ![b] = w]
      /\ count' = [count EXCEPT ![b] = 1] /\ list' = Append(list, b)
      /\ player' = [player EXCEPT ![p] = NoPlay]
      /\ Played(w, 1) /\ overlapped' = overlapped /\ player[p].pc = "new"
  BY <1>3, <1>4 DEF PlayNew, Answer, At
<1>6. player'[p] = NoPlay /\ \A q \in Players : q # p => player'[q] = player[q]
  BY <1>2, <1>5
<1>7. /\ count'[b] = 1 /\ uuidOf'[b] = w
      /\ \A c \in live : count'[c] = count[c] /\ uuidOf'[c] = uuidOf[c]
  BY <1>2, <1>5
<1>8. /\ w \notin overlapped => plays'[w] = plays[w] + 1
      /\ \A u \in Devices : u # w => plays'[u] = plays[u]
  BY <1>2, <1>5 DEF Played
<1>9. DeviceTypes'
  <2>1. player' \in [Players -> PlayType]
    BY <1>2, <1>5, NoPlayFacts
  <2>2. plays' \in [Devices -> Int]
    BY <1>2, <1>5 DEF Played
  <2>3. list' \in Seq(Blocks) /\ live' \subseteq Blocks
    BY <1>2, <1>5
  <2>4. uuidOf' \in [Blocks -> Devices \cup {NoDevice}] /\ count' \in [Blocks -> Int]
    BY <1>2, <1>5
  <2>5. QED
    BY <2>1, <2>2, <2>3, <2>4 DEF DeviceTypes
<1>10. PICK l \in Nat : l = Len(list)
  BY <1>2
<1>11. /\ Len(list') = l + 1 /\ list'[l + 1] = b /\ \A i \in 1..l : list'[i] = list[i]
  BY <1>2, <1>5, <1>10
<1>12. \A i \in 1..l : list[i] \in live
  BY <1>1, <1>10 DEF ListSound
<1>13. \A i \in 1..l + 1 : i \in 1..l \/ i = l + 1
  OBVIOUS
<1>14. ListSound'
  <2>1. ASSUME NEW i \in 1..l + 1, NEW j \in 1..l + 1, list'[i] = list'[j] PROVE i = j
    <3>1. CASE i \in 1..l /\ j \in 1..l
      BY <1>1, <1>10, <1>11, <2>1, <3>1 DEF ListSound
    <3>2. CASE i = l + 1 /\ j = l + 1
      BY <3>2
    <3>3. CASE i \in 1..l /\ j = l + 1
      BY <1>4, <1>11, <1>12, <2>1, <3>3
    <3>4. CASE i = l + 1 /\ j \in 1..l
      BY <1>4, <1>11, <1>12, <2>1, <3>4
    <3>5. QED
      BY <1>13, <3>1, <3>2, <3>3, <3>4
  <2>2. \A i \in 1..l + 1 : list'[i] \in live'
    BY <1>5, <1>11, <1>12, <1>13
  <2>3. QED
    BY <1>11, <2>1, <2>2 DEF ListSound
<1>15. Listed(b)' /\ \A c : c # b => (Listed(c)' <=> Listed(c))
  <2>1. \A c : Listed(c)' <=> \E i \in 1..l + 1 : list'[i] = c
    BY <1>11 DEF Listed
  <2>2. \A c : Listed(c) <=> \E i \in 1..l : list[i] = c
    BY <1>10 DEF Listed
  <2>3. l + 1 \in 1..l + 1 /\ \A i \in 1..l : i \in 1..l + 1
    OBVIOUS
  <2>4. QED
    BY <1>11, <1>13, <2>1, <2>2, <2>3
<1>16. \A q \in Players : player[q].at # b
  BY <1>1, <1>4, BlocksFacts DEF PlayersSound, Sound
<1>17. ASSUME NEW q \in Players PROVE Sound(player[q])'
  <2>1. CASE q = p
    <3>1. player'[q].pc = "idle" /\ player'[q].uuid = NoDevice /\ player'[q].at = NoBlock
      BY <1>6, <2>1, NoPlayFacts
    <3>2. QED
      BY <3>1 DEF Sound, Held
  <2>2. CASE q # p
    <3>1. Sound(player[q]) /\ player'[q] = player[q] /\ player[q].at # b
      BY <1>1, <1>6, <1>16, <2>2 DEF PlayersSound
    <3>2. QED
      BY <1>5, <1>7, <1>15, <3>1 DEF Sound
  <2>3. QED
    BY <2>1, <2>2
<1>18. ASSUME NEW u \in Devices \ overlapped PROVE Own(u)'
  <2>1. Own(u)
    BY DEF DeviceKeeps
  <2>2. CASE u # w
    <3>1. \A q \in Players : player[q].uuid = u \/ player'[q].uuid = u => player'[q] = player[q]
      BY <1>3, <1>6, <2>2, NoPlayFacts, DevicesAssumption
    <3>2. \A c \in Blocks : (c \in live' /\ uuidOf'[c] = u) <=> (c \in live /\ uuidOf[c] = u)
      BY <1>5, <1>7, <2>2
    <3>3. \A c \in live : uuidOf[c] = u => count'[c] = count[c] /\ (Listed(c) => Listed(c)')
      BY <1>4, <1>7, <1>15
    <3>4. QED
      BY <1>1, <1>8, <1>9, <2>1, <2>2, <3>1, <3>2, <3>3, OtherDevice
  <2>3. CASE u = w
    <3>1. \A q \in Players : player[q].uuid = u => q = p
      BY <1>3, <2>1, <2>3 DEF Own, OneRequest
    <3>2. \A q \in Players : player'[q].uuid # u
      BY <1>6, <3>1, NoPlayFacts, DevicesAssumption
    <3>3. \A c \in live : uuidOf[c] # u
      BY <1>3, <1>5, <2>1, <2>3 DEF Own, RequestKept, Fit
    <3>4. plays[u] = 0
      BY <2>1, <3>3 DEF Own, PlaysKept
    <3>5. plays'[u] = 1
      BY <1>8, <2>3, <3>4
    <3>6. \A c \in live' : uuidOf'[c] = u => c = b
      BY <1>5, <1>7, <3>3
    <3>7. OneBlock(u)'
      BY <3>6 DEF OneBlock
    <3>8. BlockKept(u)'
      BY <1>7, <1>15, <3>5, <3>6 DEF BlockKept
    <3>9. PlaysKept(u)'
      BY <1>5, <1>7, <2>3, <3>5 DEF PlaysKept
    <3>10. OneRequest(u)' /\ RequestKept(u)'
      BY <3>2 DEF OneRequest, RequestKept, Fit
    <3>11. QED
      BY <3>7, <3>8, <3>9, <3>10 DEF Own
  <2>4. QED
    BY <2>2, <2>3
<1>19. QED
  BY <1>5, <1>9, <1>14, <1>17, <1>18 DEF DeviceKeeps, PlayersSound

(* list_del of the entry at place i *)
LEMMA DeleteFacts ==
  ASSUME NEW S, NEW q \in Seq(S), NEW i \in 1..Len(q)
  PROVE  LET rest == SubSeq(q, 1, i - 1) \o SubSeq(q, i + 1, Len(q))
         IN  /\ rest \in Seq(S) /\ Len(rest) = Len(q) - 1
             /\ \A j \in 1..Len(q) - 1 : rest[j] = IF j < i THEN q[j] ELSE q[j + 1]
<1> DEFINE a == SubSeq(q, 1, i - 1)
           b == SubSeq(q, i + 1, Len(q))
<1>1. a \in Seq(S) /\ Len(a) = i - 1 /\ \A j \in 1..i - 1 : a[j] = q[j]
  OBVIOUS
<1>2. b \in Seq(S) /\ Len(b) = Len(q) - i /\ \A j \in 1..Len(q) - i : b[j] = q[i + j]
  OBVIOUS
<1> HIDE DEF a, b
<1>3. a \o b \in Seq(S) /\ Len(a \o b) = Len(q) - 1
  <2>1. a \o b \in Seq(S) /\ Len(a \o b) = Len(a) + Len(b)
    BY <1>1, <1>2, ConcatProperties
  <2>2. Len(a) + Len(b) = Len(q) - 1
    BY <1>1, <1>2, LenProperties
  <2>3. QED
    BY <2>1, <2>2
<1>4. ASSUME NEW j \in 1..Len(q) - 1
      PROVE  (a \o b)[j] = IF j < i THEN q[j] ELSE q[j + 1]
  <2>1. (a \o b)[j] = IF j <= Len(a) THEN a[j] ELSE b[j - Len(a)]
    BY <1>1, <1>2, ConcatProperties
  <2>2. CASE j < i
    BY <1>1, <2>1, <2>2
  <2>3. CASE ~(j < i)
    <3>1. j - (i - 1) \in 1..Len(q) - i /\ i + (j - (i - 1)) = j + 1
      BY <2>3
    <3>2. QED
      BY <1>1, <1>2, <2>1, <2>3, <3>1
  <2>4. QED
    BY <2>2, <2>3
<1>5. QED
  BY <1>3, <1>4 DEF a, b

Once(q) == \A i, j \in 1..Len(q) : q[i] = q[j] => i = j
Has(q, b) == \E i \in 1..Len(q) : q[i] = b
Cut(q, i) == SubSeq(q, 1, i - 1) \o SubSeq(q, i + 1, Len(q))

(* The list without the block at place i: the others stay, once. *)
LEMMA WithoutFacts ==
  ASSUME NEW q \in Seq(Blocks), Once(q),
         NEW i \in 1..Len(q), NEW r, r = Cut(q, i), NEW b, b = q[i]
  PROVE  r \in Seq(Blocks) /\ Once(r) /\ ~Has(r, b) /\ \A c : c # b => (Has(r, c) <=> Has(q, c))
<1>1. PICK n \in Nat \ {0} : n = Len(q)
  OBVIOUS
<1>2. /\ r \in Seq(Blocks) /\ Len(r) = Len(q) - 1
      /\ \A j \in 1..Len(q) - 1 : r[j] = IF j < i THEN q[j] ELSE q[j + 1]
  BY DeleteFacts DEF Cut
<1>7. PICK m \in Nat : m = n - 1
  BY <1>1
<1>8. i \in 1..n
  BY <1>1
<1>10. /\ r \in Seq(Blocks) /\ Len(r) = m
       /\ \A j \in 1..m : r[j] = IF j < i THEN q[j] ELSE q[j + 1]
  BY <1>1, <1>2, <1>7
<1> DEFINE spot(j) == IF j < i THEN j ELSE j + 1
<1>11. ASSUME NEW j \in 1..m PROVE spot(j) \in 1..n /\ spot(j) # i /\ r[j] = q[spot(j)]
  <2>1. spot(j) \in 1..n /\ spot(j) # i
    BY <1>7, <1>8
  <2>2. QED
    BY <1>10, <2>1
<1>12. ASSUME NEW j \in 1..m, NEW k \in 1..m, spot(j) = spot(k) PROVE j = k
  BY <1>8, <1>12
<1>13. ASSUME NEW k \in 1..n, k # i PROVE \E j \in 1..m : spot(j) = k
  <2>1. CASE k < i
    <3>1. k \in 1..m /\ spot(k) = k
      BY <1>7, <1>8, <2>1
    <3>2. QED
      BY <3>1
  <2>2. CASE ~(k < i)
    <3>1. k - 1 \in 1..m /\ spot(k - 1) = k
      BY <1>7, <1>8, <1>13, <2>2
    <3>2. QED
      BY <3>1
  <2>3. QED
    BY <2>1, <2>2
<1> HIDE DEF spot
<1>14. ASSUME NEW j \in 1..m, NEW k \in 1..m, r[j] = r[k] PROVE j = k
  <2>1. spot(j) = spot(k)
    <3>1. PICK x \in 1..n : x = spot(j) /\ r[j] = q[x]
      BY <1>11
    <3>2. PICK y \in 1..n : y = spot(k) /\ r[k] = q[y]
      BY <1>11
    <3>3. x = y
      BY <1>1, <1>14, <3>1, <3>2 DEF Once
    <3>4. QED
      BY <3>1, <3>2, <3>3
  <2>2. QED
    BY <1>12, <2>1
<1>15. ASSUME NEW j \in 1..m PROVE r[j] # q[i] /\ \E k \in 1..n : r[j] = q[k]
  <2>1. PICK x \in 1..n : x # i /\ r[j] = q[x]
    BY <1>11
  <2>2. q[x] # q[i]
    BY <1>1, <1>8, <2>1 DEF Once
  <2>3. QED
    BY <2>1, <2>2
<1>16. ASSUME NEW k \in 1..n, k # i PROVE \E j \in 1..m : r[j] = q[k]
  BY <1>11, <1>13, <1>16
<1>17. Once(r) /\ ~Has(r, b)
  BY <1>10, <1>14, <1>15 DEF Once, Has
<1>18. ASSUME NEW c, c # b PROVE Has(r, c) <=> Has(q, c)
  <2>1. ASSUME Has(r, c) PROVE Has(q, c)
    BY <1>1, <1>10, <1>15, <2>1 DEF Has
  <2>2. ASSUME Has(q, c) PROVE Has(r, c)
    <3>1. PICK k \in 1..n : q[k] = c
      BY <1>1, <2>2 DEF Has
    <3>2. k # i
      BY <1>18, <3>1
    <3>3. PICK j \in 1..m : r[j] = c
      BY <1>16, <3>1, <3>2
    <3>4. QED
      BY <1>10, <3>3 DEF Has
  <2>3. QED
    BY <2>1, <2>2
<1>19. QED
  BY <1>10, <1>17, <1>18

(* A device that has no plays is taken out of the list. *)
LEMMA RemoveKeeps ==
  ASSUME DeviceKeeps, NEW p \in Players, NEW i \in 1..Len(list), player[p].pc = "remove",
         list[i] = player[p].at, list' = Without(i), Goto(p, "release"),
         UNCHANGED <<uuidOf, count, live, plays, overlapped>>
  PROVE  DeviceKeeps'
<1>1. DeviceTypes /\ ListSound /\ PlayersSound
  BY DEF DeviceKeeps
<1>2. /\ player \in [Players -> PlayType] /\ list \in Seq(Blocks) /\ live \subseteq Blocks
  BY <1>1 DEF DeviceTypes
<1>3. PICK b \in Blocks : b = player[p].at /\ b = list[i] /\ b # NoBlock /\ b \in live
  BY <1>1, <1>2, BlocksFacts DEF ListSound
<1>4. uuidOf[b] = player[p].uuid /\ player[p].uuid # NoDevice
  BY <1>1, <1>3 DEF PlayersSound, Sound
<1>5. "release" \in Held
  BY DEF Held
<1>6. PICK h \in PlayType : /\ player' = [player EXCEPT ![p] = h]
                            /\ h.pc = "release" /\ h.uuid = player[p].uuid /\ h.at = player[p].at
  BY <1>1, <1>5, GotoFacts
<1>7. player'[p] = h /\ \A q \in Players : q # p => player'[q] = player[q]
  BY <1>2, <1>6
<1>8. list' \in Seq(Blocks) /\ Once(list') /\ ~Has(list', b) /\ \A c : c # b => (Has(list', c) <=> Has(list, c))
  <2>1. PICK q \in Seq(Blocks) : q = list
    BY <1>2
  <2>2. Once(q)
    BY <1>1, <2>1 DEF ListSound, Once
  <2>3. PICK r : r = Cut(q, i)
    OBVIOUS
  <2>4. list' = r /\ i \in 1..Len(q) /\ q[i] = b
    BY <1>3, <2>1, <2>3 DEF Without, Cut
  <2>5. r \in Seq(Blocks) /\ Once(r) /\ ~Has(r, b) /\ \A c : c # b => (Has(r, c) <=> Has(q, c))
    BY <2>2, <2>3, <2>4, WithoutFacts
  <2>6. QED
    BY <2>1, <2>4, <2>5
<1>9. ~Listed(b)' /\ \A c : c # b => (Listed(c)' <=> Listed(c))
  BY <1>8 DEF Listed, Has
<1>10. DeviceTypes'
  <2>1. player' \in [Players -> PlayType]
    BY <1>2, <1>6
  <2>2. QED
    BY <1>1, <1>8, <2>1 DEF DeviceTypes
<1>11. ListSound'
  <2>1. ASSUME NEW j \in 1..Len(list') PROVE list'[j] \in live'
    <3>1. Has(list', list'[j])
      BY DEF Has
    <3>2. Has(list, list'[j])
      BY <1>8, <3>1
    <3>3. QED
      BY <1>1, <3>2 DEF Has, ListSound
  <2>2. QED
    BY <1>8, <2>1 DEF ListSound, Once
<1>12. ASSUME NEW q \in Players PROVE Sound(player[q])'
  <2>1. CASE q = p
    <3>1. player'[q].pc = "release" /\ player'[q].uuid # NoDevice /\ player'[q].at = b /\ player'[q].uuid = uuidOf[b]
      BY <1>3, <1>4, <1>6, <1>7, <2>1
    <3>2. QED
      BY <1>3, <1>5, <1>9, <3>1 DEF Sound
  <2>2. CASE q # p
    <3>1. player'[q] = player[q] /\ Sound(player[q])
      BY <1>1, <1>7, <2>2 DEF PlayersSound
    <3>2. player[q].pc = "release" => ~Listed(player[q].at)'
      BY <1>9, <3>1 DEF Sound
    <3>3. QED
      BY <3>1, <3>2 DEF Sound
  <2>3. QED
    BY <2>1, <2>2
<1>13. ASSUME NEW u \in Devices \ overlapped PROVE Own(u)'
  <2>1. Own(u)
    BY DEF DeviceKeeps
  <2>2. CASE u # player[p].uuid
    <3>1. \A q \in Players : player[q].uuid = u \/ player'[q].uuid = u => player'[q] = player[q]
      BY <1>6, <1>7, <2>2
    <3>2. \A c \in live : uuidOf[c] = u => (Listed(c) => Listed(c)')
      BY <1>4, <1>9, <2>2
    <3>3. QED
      BY <1>1, <1>10, <2>1, <3>1, <3>2, OtherDevice
  <2>3. CASE u = player[p].uuid
    <3>1. \A q \in Players : player[q].uuid = u => q = p
      BY <2>1, <2>3 DEF Own, OneRequest
    <3>2. \A c \in live : uuidOf[c] = u => c = b
      BY <1>3, <1>4, <2>1, <2>3 DEF Own, OneBlock
    <3>3. plays[u] = 0
      BY <2>1, <2>3 DEF Own, RequestKept, Fit
    <3>4. count[b] = plays[u]
      BY <1>3, <1>4, <2>1, <2>3 DEF Own, BlockKept
    <3>5. OneRequest(u)'
      BY <1>6, <1>7, <2>3, <3>1 DEF OneRequest
    <3>6. OneBlock(u)' /\ PlaysKept(u)'
      BY <2>1 DEF Own, OneBlock, PlaysKept
    <3>7. BlockKept(u)'
      <4>1. player'[p].at = b /\ player'[p].pc = "release" /\ player'[p].pc \in Stops
        BY <1>3, <1>6, <1>7 DEF Stops
      <4>2. QED
        BY <3>2, <3>4, <4>1 DEF BlockKept
    <3>8. ASSUME NEW q \in Players PROVE Fit(player[q], u)'
      <4>1. player'[q].uuid = u => q = p
        BY <1>7, <3>1
      <4>2. player'[p].at # NoBlock /\ player'[p].pc = "release"
        BY <1>3, <1>6, <1>7
      <4>3. QED
        BY <3>3, <4>1, <4>2 DEF Fit
    <3>9. QED
      BY <3>5, <3>6, <3>7, <3>8 DEF Own, RequestKept
  <2>4. QED
    BY <2>2, <2>3
<1>14. QED
  BY <1>10, <1>11, <1>12, <1>13 DEF DeviceKeeps, PlayersSound

(* Its block is freed. *)
LEMMA ReleaseKeeps ==
  ASSUME DeviceKeeps, NEW p \in Players, StopRelease(p)
  PROVE  DeviceKeeps'
<1>1. DeviceTypes /\ ListSound /\ PlayersSound
  BY DEF DeviceKeeps
<1>2. /\ player \in [Players -> PlayType] /\ live \subseteq Blocks
      /\ uuidOf \in [Blocks -> Devices \cup {NoDevice}]
  BY <1>1 DEF DeviceTypes
<1>3. PICK b \in Blocks : b = player[p].at /\ b # NoBlock /\ b \in live
  BY <1>2, BlocksFacts DEF StopRelease, Alive
<1>4. /\ live' = live \ {b} /\ uuidOf' = [uuidOf EXCEPT ![b] = NoDevice]
      /\ player' = [q \in Players |-> IF q = p THEN NoPlay
                                      ELSE IF player[q].at = b THEN [player[q] EXCEPT !.at = NoBlock]
                                      ELSE player[q]]
      /\ list' = list /\ count' = count /\ plays' = plays /\ overlapped' = overlapped
      /\ player[p].pc = "release"
  BY <1>3 DEF StopRelease, Free, At
<1>5. player'[p] = NoPlay
  BY <1>4
<1>6. ASSUME NEW q \in Players, q # p, player[q].at # b PROVE player'[q] = player[q]
  BY <1>4, <1>6
<1>7. ASSUME NEW q \in Players, q # p, player[q].at = b
      PROVE  /\ player'[q] \in PlayType /\ player'[q].pc = player[q].pc
             /\ player'[q].uuid = player[q].uuid /\ player'[q].at = NoBlock
  <2>1. PICK g \in PlayType : g = player[q]
    BY <1>2
  <2>2. player'[q] = [g EXCEPT !.at = NoBlock]
    BY <1>4, <1>7, <2>1
  <2>3. QED
    BY <2>1, <2>2 DEF PlayType
<1>8. /\ \A c \in live' : uuidOf'[c] = uuidOf[c] /\ c # b /\ c \in live
      /\ \A c \in live : c # b => c \in live'
  BY <1>2, <1>4
<1>9. \A x : Listed(x)' <=> Listed(x)
  BY <1>4 DEF Listed
<1>10. ~Listed(b) /\ uuidOf[b] = player[p].uuid
  BY <1>1, <1>3, <1>4 DEF PlayersSound, Sound
<1>11. DeviceTypes'
  <2>1. \A q \in Players : player'[q] \in PlayType
    BY <1>2, <1>5, <1>6, <1>7, NoPlayFacts
  <2>2. player' \in [Players -> PlayType]
    BY <1>4, <2>1
  <2>3. uuidOf' \in [Blocks -> Devices \cup {NoDevice}] /\ live' \subseteq Blocks
    BY <1>2, <1>4
  <2>4. QED
    BY <1>1, <1>4, <2>2, <2>3 DEF DeviceTypes
<1>12. ListSound'
  <2>1. \A i \in 1..Len(list) : list[i] \in live /\ list[i] # b
    BY <1>1, <1>10 DEF ListSound, Listed
  <2>2. QED
    BY <1>1, <1>4, <1>8, <2>1 DEF ListSound
<1>13. ASSUME NEW q \in Players PROVE Sound(player[q])'
  <2>1. CASE q = p
    <3>1. player'[q].pc = "idle" /\ player'[q].uuid = NoDevice /\ player'[q].at = NoBlock
      BY <1>5, <2>1, NoPlayFacts
    <3>2. QED
      BY <3>1 DEF Sound, Held
  <2>2. CASE q # p /\ player[q].at # b
    <3>1. player'[q] = player[q] /\ Sound(player[q])
      BY <1>1, <1>6, <2>2 DEF PlayersSound
    <3>2. player[q].at # NoBlock => player[q].at \in live' /\ uuidOf'[player[q].at] = player[q].uuid
      BY <1>8, <2>2, <3>1 DEF Sound
    <3>3. QED
      BY <1>9, <3>1, <3>2 DEF Sound
  <2>3. CASE q # p /\ player[q].at = b
    <3>1. /\ player'[q].pc = player[q].pc /\ player'[q].uuid = player[q].uuid
          /\ player'[q].at = NoBlock /\ Sound(player[q])
      BY <1>1, <1>7, <2>3 DEF PlayersSound
    <3>2. ~Listed(NoBlock)
      BY <1>1, <1>3, BlocksFacts DEF Listed, ListSound, DeviceTypes
    <3>3. QED
      BY <1>9, <3>1, <3>2 DEF Sound
  <2>4. QED
    BY <2>1, <2>2, <2>3
<1>14. ASSUME NEW u \in Devices \ overlapped PROVE Own(u)'
  <2>1. Own(u)
    BY DEF DeviceKeeps
  <2>2. CASE u # player[p].uuid
    <3>1. ASSUME NEW q \in Players, player[q].uuid = u \/ player'[q].uuid = u PROVE player'[q] = player[q]
      <4>1. q # p
        BY <1>5, <2>2, <3>1, NoPlayFacts, DevicesAssumption
      <4>2. CASE player[q].at # b
        BY <1>6, <4>1, <4>2
      <4>3. CASE player[q].at = b
        <5>1. player[q].uuid = u
          BY <1>7, <3>1, <4>1, <4>3
        <5>2. player[q].uuid = uuidOf[b]
          BY <1>1, <1>3, <4>3 DEF PlayersSound, Sound
        <5>3. QED
          BY <1>10, <2>2, <5>1, <5>2
      <4>4. QED
        BY <4>2, <4>3
    <3>2. \A c \in Blocks : (c \in live' /\ uuidOf'[c] = u) <=> (c \in live /\ uuidOf[c] = u)
      BY <1>8, <1>10, <2>2
    <3>3. \A c \in live : uuidOf[c] = u => count'[c] = count[c] /\ (Listed(c) => Listed(c)')
      BY <1>4, <1>9
    <3>4. plays'[u] = plays[u]
      BY <1>4
    <3>5. QED
      BY <1>1, <1>11, <2>1, <3>1, <3>2, <3>3, <3>4, OtherDevice
  <2>3. CASE u = player[p].uuid
    <3>1. \A q \in Players : player[q].uuid = u => q = p
      BY <2>1, <2>3 DEF Own, OneRequest
    <3>2. ASSUME NEW q \in Players PROVE player'[q].uuid # u
      <4>1. CASE q = p
        BY <1>5, <4>1, NoPlayFacts, DevicesAssumption
      <4>2. CASE q # p
        BY <1>6, <1>7, <3>1, <4>2
      <4>3. QED
        BY <4>1, <4>2
    <3>3. \A c \in live' : uuidOf'[c] # u
      BY <1>3, <1>8, <1>10, <2>1, <2>3 DEF Own, OneBlock
    <3>4. plays'[u] = 0
      BY <1>4, <2>1, <2>3 DEF Own, RequestKept, Fit
    <3>5. OneRequest(u)' /\ RequestKept(u)'
      BY <3>2 DEF OneRequest, RequestKept, Fit
    <3>6. OneBlock(u)' /\ BlockKept(u)' /\ PlaysKept(u)'
      BY <3>3, <3>4 DEF OneBlock, BlockKept, PlaysKept
    <3>7. QED
      BY <3>5, <3>6 DEF Own
  <2>4. QED
    BY <2>2, <2>3
<1>15. QED
  BY <1>4, <1>11, <1>12, <1>13, <1>14 DEF DeviceKeeps, PlayersSound

(* session_device_destroy frees no block of a device that is kept: its     *)
(* count is not zero, so that pref_release does not return.                *)
LEMMA DestroyKeeps ==
  ASSUME DeviceKeeps, session_device_destroy
  PROVE  DeviceKeeps'
<1>1. DeviceTypes /\ ListSound /\ PlayersSound
  BY DEF DeviceKeeps
<1>2. /\ list \in Seq(Blocks) /\ live \subseteq Blocks
      /\ uuidOf \in [Blocks -> Devices \cup {NoDevice}]
  BY <1>1 DEF DeviceTypes
<1>3. /\ list # <<>> /\ list' = Tail(list) /\ live' = live \ {Head(list)} /\ count[Head(list)] = 0
      /\ uuidOf' = [uuidOf EXCEPT ![Head(list)] = NoDevice]
      /\ UNCHANGED <<count, player, plays, overlapped>>
      /\ \A p \in Players : player[p].pc = "idle"
  BY DEF session_device_destroy
<1>4. PICK l \in Nat : l + 1 = Len(list)
  BY <1>2, <1>3
<1>5. PICK b \in Blocks : b = Head(list) /\ b = list[1]
  BY <1>2, <1>3
<1>6. list' \in Seq(Blocks) /\ Len(list') = l /\ \A i \in 1..l : list'[i] = list[i + 1]
  BY <1>2, <1>3, <1>4
<1>7. /\ \A i \in 1..l : i + 1 \in 1..l + 1 /\ i + 1 # 1
      /\ \A i \in 1..l + 1 : i = 1 \/ (i - 1 \in 1..l /\ (i - 1) + 1 = i)
      /\ 1 \in 1..l + 1
  OBVIOUS
<1>8. \A i, j \in 1..l + 1 : list[i] = list[j] => i = j
  BY <1>1, <1>4 DEF ListSound
<1>9. b \in live /\ \A i \in 1..l + 1 : list[i] \in live
  BY <1>1, <1>4, <1>5, <1>7 DEF ListSound
<1>10. \A c : c # b => (Listed(c) => Listed(c)')
  <2>1. SUFFICES ASSUME NEW c, c # b, NEW i \in 1..l + 1, list[i] = c PROVE Listed(c)'
    BY <1>4 DEF Listed
  <2>2. i - 1 \in 1..l /\ (i - 1) + 1 = i
    BY <1>5, <1>7, <2>1
  <2>3. list'[i - 1] = c
    BY <1>6, <2>1, <2>2
  <2>4. QED
    BY <1>6, <2>2, <2>3 DEF Listed
<1>11. \A p \in Players : player[p].uuid = NoDevice /\ player[p].at = NoBlock
  BY <1>1, <1>3 DEF PlayersSound, Sound, Held
<1>12. DeviceTypes'
  <2>1. uuidOf' \in [Blocks -> Devices \cup {NoDevice}] /\ live' \subseteq Blocks
    BY <1>2, <1>3
  <2>2. QED
    BY <1>1, <1>3, <1>6, <2>1 DEF DeviceTypes
<1>13. ListSound'
  <2>1. ASSUME NEW i \in 1..l, NEW j \in 1..l, list'[i] = list'[j] PROVE i = j
    <3>1. i + 1 = j + 1
      BY <1>6, <1>7, <1>8, <2>1
    <3>2. QED
      BY <3>1
  <2>2. ASSUME NEW i \in 1..l PROVE list'[i] \in live'
    <3>1. list'[i] = list[i + 1] /\ i + 1 \in 1..l + 1 /\ i + 1 # 1
      BY <1>6, <1>7
    <3>2. list[i + 1] # list[1]
      BY <1>7, <1>8, <3>1
    <3>3. QED
      BY <1>3, <1>5, <1>9, <3>1, <3>2
  <2>3. QED
    BY <1>6, <2>1, <2>2 DEF ListSound
<1>14. PlayersSound'
  BY <1>3, <1>11 DEF PlayersSound, Sound, Held
<1>15. ASSUME NEW u \in Devices \ overlapped PROVE Own(u)'
  <2>1. Own(u)
    BY DEF DeviceKeeps
  <2>2. uuidOf[b] # u
    <3>1. SUFFICES ASSUME uuidOf[b] = u PROVE FALSE
      OBVIOUS
    <3>2. b # NoBlock
      BY BlocksFacts
    <3>3. count[b] = plays[u] /\ plays[u] # 0
      BY <1>9, <1>11, <2>1, <3>1, <3>2 DEF Own, BlockKept
    <3>4. QED
      BY <1>3, <1>5, <3>3
  <2>3. \A c \in Blocks : (c \in live' /\ uuidOf'[c] = u) <=> (c \in live /\ uuidOf[c] = u)
    BY <1>2, <1>3, <1>5, <2>2
  <2>4. \A c \in live : uuidOf[c] = u => count'[c] = count[c] /\ (Listed(c) => Listed(c)')
    BY <1>3, <1>10, <2>2
  <2>5. QED
    BY <1>1, <1>3, <1>12, <2>1, <2>3, <2>4, OtherDevice
<1>16. QED
  BY <1>3, <1>12, <1>13, <1>14, <1>15 DEF DeviceKeeps

(* Nothing is played yet. *)
LEMMA DeviceInitInv == DeviceInit => DeviceInv
<1> SUFFICES ASSUME DeviceInit PROVE DeviceInv
  OBVIOUS
<1>1. DeviceTypes
  BY NoPlayFacts DEF DeviceInit, DeviceTypes
<1>2. list = <<>> /\ live = {} /\ \A p \in Players : player[p] = NoPlay
  BY DEF DeviceInit
<1>3. ListSound
  BY <1>2 DEF ListSound
<1>4. PlayersSound
  BY <1>2, NoPlayFacts DEF PlayersSound, Sound, Held
<1>5. ASSUME NEW u \in Devices PROVE Own(u)
  <2>1. plays[u] = 0
    BY DEF DeviceInit
  <2>2. \A p \in Players : player[p].uuid # u
    BY <1>2, NoPlayFacts, DevicesAssumption
  <2>3. QED
    BY <1>2, <2>1, <2>2 DEF Own, OneRequest, OneBlock, BlockKept, PlaysKept, RequestKept, Fit
<1>6. QED
  BY <1>1, <1>3, <1>4, <1>5 DEF DeviceInv

(* Every step of a request, of the service that stops and of the end *)
LEMMA DeviceStepInv == DeviceInv /\ [DeviceNext]_deviceVars => DeviceInv'
<1> SUFFICES ASSUME DeviceInv, [DeviceNext]_deviceVars PROVE DeviceInv'
  OBVIOUS
<1>1. DeviceTypes /\ (~faulted => DeviceKeeps)
  BY DEF DeviceInv, DeviceKeeps
<1>2. DeviceKeeps' => DeviceInv'
  BY DEF DeviceInv, DeviceKeeps
<1>3. CASE UNCHANGED deviceVars
  BY <1>3 DEF deviceVars, DeviceInv, DeviceTypes, ListSound, PlayersSound, Sound, Own, OneRequest,
              OneBlock, BlockKept, PlaysKept, RequestKept, Fit, Listed
<1>4. ASSUME NEW p \in Players, Step(p) PROVE DeviceInv'
  <2>1. CASE PlayFind(p)
    <3>1. ~faulted /\ Walk(p, "play", "get", "new")
      BY <2>1 DEF PlayFind, Walk, At
    <3>2. QED
      BY <1>1, <1>2, <3>1, WalkKeeps
  <2>2. CASE StopFind(p)
    <3>1. ~faulted /\ Walk(p, "stop", "put", "missing")
      BY <2>2 DEF StopFind, Walk, At
    <3>2. QED
      BY <1>1, <1>2, <3>1, WalkKeeps
  <2>3. CASE TouchFind(p)
    <3>1. ~faulted /\ Walk(p, "touch", "touched", "idleDevice")
      BY <2>3 DEF TouchFind, Walk, At
    <3>2. QED
      BY <1>1, <1>2, <3>1, WalkKeeps
  <2>4. CASE PlayGet(p)
    <3>1. /\ ~faulted /\ player[p].pc \in {"get", "put"} /\ player[p].at \in live
          /\ count' = [count EXCEPT ![player[p].at] = @ + 1] /\ Played(player[p].uuid, 1)
          /\ Goto(p, "counted") /\ UNCHANGED <<list, uuidOf, live, overlapped>>
      BY <2>4 DEF PlayGet, At, Alive
    <3>2. DeviceKeeps
      BY <1>1, <3>1
    <3>3. PICK n \in {1, -1}, x \in {"counted", "left"} : n = 1 /\ x = "counted"
      OBVIOUS
    <3>4. /\ count' = [count EXCEPT ![player[p].at] = @ + n] /\ Played(player[p].uuid, n) /\ Goto(p, x)
          /\ (n = -1 => x = "left")
      BY <3>1, <3>3
    <3>5. DeviceKeeps'
      BY <3>1, <3>2, <3>4, CountKeeps
    <3>6. QED
      BY <1>2, <3>5
  <2>5. CASE StopPut(p)
    <3>1. /\ ~faulted /\ player[p].pc \in {"get", "put"} /\ player[p].at \in live
          /\ count' = [count EXCEPT ![player[p].at] = @ - 1] /\ Played(player[p].uuid, -1)
          /\ Goto(p, "left") /\ UNCHANGED <<list, uuidOf, live, overlapped>>
      BY <2>5 DEF StopPut, At, Alive
    <3>2. PICK n \in {1, -1} : n = -1
      OBVIOUS
    <3>3. count' = [count EXCEPT ![player[p].at] = @ + n] /\ Played(player[p].uuid, n)
      <4>1. player[p].at \in Blocks /\ count[player[p].at] \in Int
        BY <1>1, <3>1 DEF DeviceTypes
      <4>2. count[player[p].at] - 1 = count[player[p].at] + n
        BY <3>2, <4>1
      <4>3. QED
        BY <3>1, <3>2, <4>2
    <3>4. QED
      BY <1>1, <1>2, <3>1, <3>2, <3>3, CountKeeps
  <2>6. CASE PlayCount(p) \/ StopMissing(p) \/ TouchCount(p) \/ TouchIdle(p)
    <3>1. /\ ~faulted /\ player[p].pc \in {"counted", "missing", "touched", "idleDevice"} /\ Answer(p)
          /\ UNCHANGED <<list, uuidOf, live, count, plays, overlapped>>
      BY <2>6 DEF PlayCount, StopMissing, TouchCount, TouchIdle, At
    <3>2. player[p].pc \notin Stops /\ player[p].pc # "release"
      BY <3>1 DEF Stops
    <3>3. QED
      BY <1>1, <1>2, <3>1, <3>2, AnswerKeeps
  <2>7. CASE PlayNew(p)
    BY <1>1, <1>2, <2>7, NewKeeps DEF PlayNew, At
  <2>8. CASE StopLeft(p)
    BY <1>1, <1>2, <2>8, LeftKeeps DEF StopLeft, At
  <2>9. CASE StopRemove(p)
    <3>1. CASE DeviceBreak
      BY <1>1, <3>1 DEF DeviceBreak, DeviceInv, DeviceTypes
    <3>2. CASE ~DeviceBreak
      <4>1. PICK i \in 1..Len(list) : list[i] = player[p].at /\ list' = Without(i)
        BY <2>9, <3>2 DEF StopRemove
      <4>2. /\ ~faulted /\ player[p].pc = "remove" /\ Goto(p, "release")
            /\ UNCHANGED <<uuidOf, count, live, plays, overlapped>>
        BY <2>9, <3>2 DEF StopRemove, At
      <4>3. QED
        BY <1>1, <1>2, <4>1, <4>2, RemoveKeeps
    <3>3. QED
      BY <3>1, <3>2
  <2>10. CASE StopRelease(p)
    BY <1>1, <1>2, <2>10, ReleaseKeeps DEF StopRelease, At
  <2>11. CASE Freed(p)
    BY <1>1, <2>11 DEF Freed, DeviceBreak, DeviceInv, DeviceTypes
  <2>12. QED
    BY <1>4, <2>1, <2>2, <2>3, <2>4, <2>5, <2>6, <2>7, <2>8, <2>9, <2>10, <2>11 DEF Step
<1>5. ASSUME NEW p \in Players, NEW op \in {"play", "stop", "touch"}, NEW u \in Devices, Begin(p, op, u)
      PROVE  DeviceInv'
  BY <1>1, <1>2, <1>5, BeginKeeps DEF Begin, At
<1>6. CASE Stop
  BY <1>6 DEF Stop, DeviceInv, DeviceTypes, ListSound, PlayersSound, Sound, Own, OneRequest,
              OneBlock, BlockKept, PlaysKept, RequestKept, Fit, Listed
<1>7. CASE session_device_destroy
  <2>1. ~faulted
    BY <1>7 DEF session_device_destroy
  <2>2. QED
    BY <1>1, <1>2, <1>7, <2>1, DestroyKeeps
<1>8. QED
  BY <1>3, <1>4, <1>5, <1>6, <1>7 DEF DeviceNext

(* A device that nobody has a request for is listed once or not at all. *)
LEMMA DeviceIsKept == DeviceInv => DeviceKept
<1> SUFFICES ASSUME DeviceInv, ~faulted, NEW u \in Devices \ overlapped, Quiet(u)
             PROVE  LET mine == {i \in 1..Len(list) : uuidOf[list[i]] = u}
                    IN  /\ Cardinality(mine) = IF plays[u] = 0 THEN 0 ELSE 1
                        /\ \A i \in mine : count[list[i]] = plays[u] /\ list[i] \in live
  BY DEF DeviceKept
<1> DEFINE mine == {i \in 1..Len(list) : uuidOf[list[i]] = u}
<1>1. Own(u) /\ ListSound /\ PlayersSound /\ DeviceTypes
  BY DEF DeviceInv
<1>2. \A i \in mine : count[list[i]] = plays[u] /\ list[i] \in live
  BY <1>1 DEF Own, BlockKept, ListSound
<1>3. ASSUME NEW b \in live, uuidOf[b] = u PROVE Listed(b) /\ plays[u] # 0
  <2>1. b # NoBlock
    BY <1>1, BlocksFacts DEF DeviceTypes
  <2>2. \A p \in Players : player[p].at # b
    BY <1>1, <1>3, <2>1 DEF PlayersSound, Sound, Quiet
  <2>3. QED
    BY <1>1, <1>3, <2>2 DEF Own, BlockKept
<1>4. CASE plays[u] = 0
  <2>1. mine = {}
    BY <1>2, <1>3, <1>4
  <2>2. QED
    BY <1>2, <1>4, <2>1, FS_EmptySet
<1>5. CASE plays[u] # 0
  <2>1. PICK b \in live : uuidOf[b] = u
    BY <1>1, <1>5 DEF Own, PlaysKept
  <2>2. PICK i \in 1..Len(list) : list[i] = b
    BY <1>3, <2>1 DEF Listed
  <2>3. ASSUME NEW j \in mine PROVE j = i
    <3>1. list[j] \in live /\ uuidOf[list[j]] = u
      BY <1>2
    <3>2. list[j] = b
      BY <1>1, <2>1, <3>1 DEF Own, OneBlock
    <3>3. QED
      BY <1>1, <2>2, <3>2 DEF ListSound
  <2>4. mine = {i}
    BY <2>1, <2>2, <2>3
  <2>5. Cardinality(mine) = 1
    BY <2>4, FS_Singleton
  <2>6. QED
    BY <1>2, <1>5, <2>5
<1>6. QED
  BY <1>4, <1>5

(***************************************************************************)
(* As long as no two requests for a device ran at the same time, it is     *)
(* listed once, with the number of its plays, while it has any, whatever   *)
(* requests for other devices did, for any number of threads and devices.  *)
(***************************************************************************)
THEOREM DevicesAreKept == DeviceSpec => []DeviceKept
BY DeviceInitInv, DeviceStepInv, DeviceIsKept, PTL DEF DeviceSpec

-----------------------------------------------------------------------------
(* Start and stop of the service (Service) *)

Kinds == {"version", "login", "play"}
Serving == {"io", "timer", "sessions", "devices"}   \* all that a handler works with

(* The parts that are up for sure when the main thread is at a step *)
Up(step) ==
  CASE step = "bind" -> {"io"}
    [] step = "timer" -> {"io"}
    [] step = "sessions" -> {"io", "timer"}
    [] step = "devices" -> {"io", "timer", "sessions"}
    [] step = "register" -> Serving
    [] OTHER -> {}

RequestTypes ==
  proc \in [Processors -> [pc : {"idle", "walk", "handler", "reply"}, kind : Kinds \cup {"none"}, conn : Conns \cup {"none"}]]

(***************************************************************************)
(* The invariant HandlerHasAll needs.  Handlers are registered after the   *)
(* parts are brought up, and taken back before any of them goes down; the  *)
(* processors are idle when the pool ends, and none gets to a handler once *)
(* the dispatch list is gone.                                              *)
(***************************************************************************)
ServiceInv ==
  /\ RequestTypes
  /\ Up(main) \subseteq parts
  /\ nodes # <<>> => Serving \subseteq parts
  /\ main \in {"connections", "pool", "clean"} => nodes = <<>> /\ "dispatch" \notin parts
  /\ \A p \in Processors : proc[p].pc # "idle" => proc[p].kind \in Kinds
  /\ \A p \in Processors : proc[p].pc = "handler" => Serving \subseteq parts /\ main # "clean"

(* Nothing is started. *)
LEMMA ServiceInitInv == ServiceInit => ServiceInv
BY DEF ServiceInit, ServiceInv, RequestTypes, Up, NoRequest

(* A step that leaves the requests and the handlers alone and takes no part down *)
LEMMA ServiceCalm ==
  ASSUME ServiceInv, UNCHANGED <<proc, nodes>>, parts \subseteq parts', Up(main') \subseteq parts',
         main' = "clean" => main = "clean",
         main' \in {"connections", "pool", "clean"} => main' = main /\ parts' = parts
  PROVE  ServiceInv'
BY DEF ServiceInv, RequestTypes

(* Every step of the main thread and of a request *)
LEMMA ServiceStepInv == ServiceInv /\ [ServiceNext]_serviceVars => ServiceInv'
<1> SUFFICES ASSUME ServiceInv, [ServiceNext]_serviceVars PROVE ServiceInv'
  OBVIOUS
<1>1. CASE StartBegin \/ rpc_ensure_uv_loop_inited \/ StartFail \/ StartListen \/ StartEnd \/ StopBegin \/ StopLoop
  <2>1. UNCHANGED <<proc, nodes, parts>> /\ main' \notin {"connections", "pool", "clean"}
    BY <1>1 DEF StartBegin, rpc_ensure_uv_loop_inited, StartFail, StartListen, StartEnd, StopBegin, StopLoop, Main
  <2>2. Up(main') \subseteq parts
    BY <1>1 DEF ServiceInv, Up, StartBegin, rpc_ensure_uv_loop_inited, StartFail, StartListen, StartEnd, StopBegin, StopLoop, Main
  <2>3. QED
    BY <2>1, <2>2, ServiceCalm
<1>2. CASE service_bootstrap
  BY <1>2, ServiceCalm DEF service_bootstrap, Bring, Main, ServiceInv, Up, Serving
<1>3. CASE StartInit
  BY <1>3 DEF StartInit, Main, ServiceInv, RequestTypes, Up, Serving
<1>4. CASE register_all_reqeust_handler
  <2>1. /\ main = "register" /\ main' \in {"started", "register"}
        /\ UNCHANGED <<proc, parts>>
    BY <1>4 DEF register_all_reqeust_handler, Main
  <2>2. QED
    BY <2>1 DEF ServiceInv, RequestTypes, Up
<1>5. CASE rpc_dispatch_destroy
  BY <1>5 DEF rpc_dispatch_destroy, Main, ServiceInv, RequestTypes, Up, Serving
<1>6. CASE StopConnections
  BY <1>6 DEF StopConnections, Main, ServiceInv, RequestTypes, Up
<1>7. CASE StopPool
  BY <1>7 DEF StopPool, Main, ServiceInv, RequestTypes, Up
<1>8. CASE service_clean
  BY <1>8 DEF service_clean, Main, ServiceInv, RequestTypes, Up
<1>9. CASE StartNoLoop \/ exit_async_cb \/ rpc_core_uvloop_env \/ UNCHANGED serviceVars
  BY <1>9 DEF StartNoLoop, Break, exit_async_cb, rpc_core_uvloop_env, serviceVars, ServiceInv, RequestTypes
<1>10. ASSUME NEW c \in Conns, connection_cb(c) \/ Close(c) PROVE ServiceInv'
  BY <1>10 DEF connection_cb, Close, ServiceInv, RequestTypes
<1>11. ASSUME NEW c \in Conns, NEW p \in Processors, NEW i \in 1..Len(Handlers), Receive(c, p, Handlers[i]) PROVE ServiceInv'
  <2>1. CASE c \notin known
    BY <1>11, <2>1 DEF Receive, Break, ServiceInv, RequestTypes
  <2>2. CASE c \in known
    <3>1. Handlers[i] \in Kinds
      BY DEF Handlers, Kinds
    <3>2. /\ proc' = [proc EXCEPT ![p] = [pc |-> "walk", kind |-> Handlers[i], conn |-> c]]
          /\ UNCHANGED <<main, parts, nodes>>
      BY <1>11, <2>2 DEF Receive
    <3>3. QED
      BY <3>1, <3>2 DEF ServiceInv, RequestTypes
  <2>3. QED
    BY <2>1, <2>2
<1>12. ASSUME NEW p \in Processors, Dispatch(p) PROVE ServiceInv'
  <2>1. CASE "dispatch" \notin parts
    BY <1>12, <2>1 DEF Dispatch, Break, ServiceInv, RequestTypes
  <2>2. CASE "dispatch" \in parts
    <3>1. UNCHANGED <<main, parts, nodes>>
      BY <1>12, <2>2 DEF Dispatch
    <3>2. (proc' = [proc EXCEPT ![p].pc = "handler"] /\ nodes # <<>>) \/ proc' = [proc EXCEPT ![p].pc = "reply"]
      BY <1>12, <2>2 DEF Dispatch
    <3>3. main # "clean"
      BY <2>2 DEF ServiceInv
    <3>4. proc[p].pc # "idle"
      BY <1>12 DEF Dispatch
    <3>5. QED
      BY <3>1, <3>2, <3>3, <3>4 DEF ServiceInv, RequestTypes
  <2>3. QED
    BY <2>1, <2>2
<1>13. ASSUME NEW p \in Processors, Handle(p) PROVE ServiceInv'
  <2>1. proc' = [proc EXCEPT ![p].pc = "reply"] /\ proc[p].pc # "idle" /\ UNCHANGED <<main, parts, nodes>>
    BY <1>13 DEF Handle
  <2>2. QED
    BY <2>1 DEF ServiceInv, RequestTypes
<1>14. ASSUME NEW p \in Processors, Reply(p) PROVE ServiceInv'
  <2>1. UNCHANGED <<main, parts, nodes>> /\ (proc' = [proc EXCEPT ![p] = NoRequest] \/ proc' = proc)
    BY <1>14 DEF Reply, Break
  <2>2. QED
    BY <2>1 DEF ServiceInv, RequestTypes, NoRequest
<1>15. QED
  BY <1>1, <1>2, <1>3, <1>4, <1>5, <1>6, <1>7, <1>8, <1>9, <1>10, <1>11, <1>12, <1>13, <1>14
  DEF ServiceNext, Starting, Stopping, Processor

(***************************************************************************)
(* For every set of processors and connections and every number of starts: *)
(* a handler that runs has every part it works with.                       *)
(***************************************************************************)
THEOREM HandlersHaveAll == ServiceSpec => []HandlerHasAll
<1>1. ASSUME ServiceInv PROVE HandlerHasAll
  <2>1. \A kind \in Kinds : Needs(kind) \subseteq Serving
    BY DEF Needs, Kinds, Serving
  <2>2. QED
    BY <1>1, <2>1 DEF ServiceInv, HandlerHasAll
<1>2. QED
  BY <1>1, ServiceInitInv, ServiceStepInv, PTL DEF ServiceSpec

-----------------------------------------------------------------------------
(* The hours of a week (DayHours) *)

(* The cells of the array that are '1' are the hours that were asked for. *)
Agree(array, hours) ==
  /\ array \subseteq Cells
  /\ \A d \in 1..7, h \in 1..24 : Slot(d, h) \in array <=> <<d, h>> \in hours

(***************************************************************************)
(* The invariant WeekKept needs: it holds of the array, and also of the    *)
(* text of the database and of what was wanted when it was written, so     *)
(* that day_hours_from brings a week back that agrees again.               *)
(***************************************************************************)
WeekInv == ~stray => Agree(weekday, wanted) /\ Agree(text, saved)

(* Two hours of the week have two cells, and both are in the array. *)
LEMMA SlotFacts ==
  ASSUME NEW d \in 1..7, NEW h \in 1..24, NEW e \in 1..7, NEW k \in 1..24
  PROVE  Slot(d, h) \in Cells /\ (Slot(d, h) = Slot(e, k) => d = e /\ h = k)
BY DEF Slot, Cells

(* day_hours_set with an hour of the week changes this hour in both. *)
LEMMA SetHour ==
  ASSUME NEW array, NEW hours, Agree(array, hours), NEW d \in 1..7, NEW h \in 1..24
  PROVE  /\ Agree(array \cup {Slot(d, h)}, hours \cup {<<d, h>>})
         /\ Agree(array \ {Slot(d, h)}, hours \ {<<d, h>>})
<1>1. Slot(d, h) \in Cells
  BY SlotFacts
<1>2. ASSUME NEW e \in 1..7, NEW k \in 1..24
      PROVE  Slot(e, k) = Slot(d, h) <=> <<e, k>> = <<d, h>>
  BY SlotFacts
<1>3. QED
  BY <1>1, <1>2 DEF Agree

(* An empty week *)
LEMMA WeekInitInv == WeekInit => WeekInv
<1> SUFFICES ASSUME WeekInit PROVE WeekInv
  OBVIOUS
<1>1. Agree(Cells, Week) /\ Agree({}, {})
  BY SlotFacts DEF Agree, Week
<1>2. QED
  BY <1>1 DEF WeekInit, WeekInv

(* Every change of the hours, every save and load of them *)
LEMMA WeekStepInv == WeekInv /\ [WeekNext]_weekVars => WeekInv'
<1> SUFFICES ASSUME WeekInv, [WeekNext]_weekVars, ~stray' PROVE Agree(weekday, wanted)' /\ Agree(text, saved)'
  BY DEF WeekInv
<1>1. ASSUME NEW day \in Weekdays, NEW hour \in Hours, NEW on \in BOOLEAN, day_hours_set(day, hour, on)
      PROVE  Agree(weekday, wanted)' /\ Agree(text, saved)'
  <2>1. CASE Refused(day, hour)
    BY <1>1, <2>1 DEF day_hours_set, WeekInv, Agree
  <2>2. CASE ~Refused(day, hour)
    <3>1. ~stray /\ <<day, hour>> \in Week
      BY <1>1, <2>2 DEF day_hours_set
    <3>2. day \in 1..7 /\ hour \in 1..24
      BY <3>1 DEF Week
    <3>3. Agree(weekday, wanted) /\ Agree(text, saved)
      BY <3>1 DEF WeekInv
    <3>4. Agree(weekday', wanted')
      <4>1. /\ Agree(weekday \cup {Slot(day, hour)}, wanted \cup {<<day, hour>>})
            /\ Agree(weekday \ {Slot(day, hour)}, wanted \ {<<day, hour>>})
        BY <3>2, <3>3, SetHour
      <4>2. QED
        BY <1>1, <2>2, <4>1 DEF day_hours_set
    <3>5. QED
      BY <1>1, <3>3, <3>4 DEF day_hours_set, Agree
  <2>3. QED
    BY <2>1, <2>2
<1>2. CASE day_hours_dump
  <2>1. Agree(weekday, wanted) /\ weekday \cap Cells = weekday
    BY <1>2 DEF day_hours_dump, WeekInv, Agree
  <2>2. QED
    BY <1>2, <2>1 DEF day_hours_dump, Agree
<1>3. CASE day_hours_from
  BY <1>3 DEF day_hours_from, WeekInv, Agree
<1>4. CASE UNCHANGED weekVars
  BY <1>4 DEF weekVars, WeekInv, Agree
<1>5. QED
  BY <1>1, <1>2, <1>3, <1>4 DEF WeekNext

(***************************************************************************)
(* For every set of days and hours that are tried and every number of      *)
(* calls: as long as no call outside of the week was carried out, each     *)
(* hour is what it was set to or loaded as, and no other memory is touched.*)
(***************************************************************************)
THEOREM WeekIsKept == WeekSpec => []WeekKept
<1>1. WeekInv => WeekKept
  BY DEF WeekInv, WeekKept, Agree, day_hours_get
<1>2. QED
  BY <1>1, WeekInitInv, WeekStepInv, PTL DEF WeekSpec
=============================================================================
