------------------------------ MODULE AdminDb ------------------------------
(***************************************************************************)
(* The calls of service/db/db_account.c that manage admins (add and delete *)
(* them, set a license, reset the tables) and the ones that return lists,  *)
(* on top of the sqlite provider (dbprovider/db_provider_sqlite.c through  *)
(* db_provider.c and db_util.c) and its one lock.                          *)
(*                                                                         *)
(* Requests call these functions from several threads.  A call is a        *)
(* sequence of SQL statements (todo); for each the provider takes the lock *)
(* (sql_create_new), executes it (sql_query), lets the caller fetch rows   *)
(* (sql_fetch_row) and releases the lock (sql_free).  An INSERT or DELETE  *)
(* may fail; assertions are not compiled in.  Statements about other       *)
(* columns, and the deaths of the process, are in module Accounts.         *)
(***************************************************************************)
EXTENDS Naturals, Sequences, FiniteSets

CONSTANTS
  Managers,   \* threads of the front end, which manage admins
  Threads,    \* threads that call: managers, and those that serve requests
  Owners,     \* uuids of admins
  Others,     \* uuids of other accounts
  Cameras     \* uuids of devices

NoOne == "nobody"

ASSUME ManagersAssumption == Managers \subseteq Threads

(* No uuid is given twice, and neither a thread nor an admin is nobody. *)
ASSUME UuidsAssumption ==
  /\ NoOne \notin Threads \cup Owners
  /\ Owners \cap Others = {}

VARIABLES
  db,          \* def_sqlite3_db is open
  lock,        \* access_lock: the thread that has it, or NoOne
  tabs,        \* the tables that exist
  rowsOf,      \* rowsOf[table]: the uuid and the ref_admin_uuid of each row
  thr,         \* thr[t]: the call of thread t
  deleted,     \* admins that were deleted and not added again (history)
  unsure       \* admins two calls were about at the same time, or for which a
               \* statement failed (history)

dbVars == <<db, lock, tabs, rowsOf, thr, deleted, unsure>>

(* t_account_basic, t_account_admin, t_account_child, t_device_basic and    *)
(* t_account_device; uuid is the primary key of each.                       *)
AllTables == {"basic", "admin", "child", "devBasic", "devOwner"}

Row(u, a) == [uuid |-> u, ref |-> a]

(* A call: its statements, the current one first; where that one is: before *)
(* the lock ("wait"), with the lock ("locked"), or executed ("executed");   *)
(* the statements that come after it; and of a list, the number of rows     *)
(* that were counted, the rows that are still to be fetched, those that     *)
(* were, and whether a table changed after the count.                       *)
NoCall == [todo |-> <<>>, at |-> "wait", then |-> <<>>, about |-> NoOne, name |-> "none",
           count |-> 0, left |-> {}, got |-> {}, stale |-> FALSE]

DbInit ==
  /\ db = FALSE /\ lock = NoOne
  /\ tabs = {} /\ rowsOf = [table \in AllTables |-> {}]
  /\ thr = [t \in Threads |-> NoCall]
  /\ deleted = {} /\ unsure = {}

Busy(t) == thr[t].todo # <<>>

(* sql_init_sqlite and sql_clean_sqlite, called while nobody else calls;    *)
(* opening the file may fail.                                               *)
sql_init_sqlite ==
  /\ \A t \in Threads : ~Busy(t)
  /\ db' \in BOOLEAN
  /\ UNCHANGED <<lock, tabs, rowsOf, thr, deleted, unsure>>

sql_clean_sqlite ==
  /\ \A t \in Threads : ~Busy(t)
  /\ db /\ db' = FALSE
  /\ UNCHANGED <<lock, tabs, rowsOf, thr, deleted, unsure>>

-----------------------------------------------------------------------------
(* SQL statements.  A write with must set ends its call when it fails.  A   *)
(* find skips some of the statements after it if there is such a row, or if *)
(* there is none.                                                           *)

Insert(table, u, a, must) == [op |-> "insert", table |-> table, row |-> Row(u, a), must |-> must]

(* DELETE FROM table WHERE uuid IN (SELECT uuid FROM from WHERE column = a) *)
DeleteIn(table, from, column, a, must) ==
  [op |-> "delete", table |-> table, from |-> from, column |-> column, value |-> a, must |-> must]
DeleteRows(table, column, a, must) == DeleteIn(table, table, column, a, must)

Find(table, u, iffound, ifnone) ==
  [op |-> "find", table |-> table, uuid |-> u, iffound |-> iffound, ifnone |-> ifnone]

CreateTable(table) == [op |-> "create", table |-> table]
Drop(table) == [op |-> "drop", table |-> table]

(* SELECT * FROM table WHERE uuid IN (SELECT uuid FROM from [WHERE          *)
(* ref_admin_uuid = a])                                                     *)
Select(op, table, from, a) == [op |-> op, table |-> table, from |-> from, of |-> a]

-----------------------------------------------------------------------------
(* The calls *)

(* Thread t calls a function about admin a, or about all of them. *)
Call(t, name, a, statements) ==
  /\ ~Busy(t)
  /\ thr' = [thr EXCEPT ![t] = [NoCall EXCEPT !.todo = statements, !.about = a, !.name = name]]
  /\ unsure' = unsure \cup {b \in Owners : b \in {a} \cup (IF a = NoOne THEN Owners ELSE {})
                  /\ \E q \in Threads : Busy(q) /\ thr[q].about \in {b, NoOne}}
  /\ deleted' = IF name = "add" THEN deleted \ {a} ELSE deleted
  /\ UNCHANGED <<db, lock, tabs, rowsOf>>

db_account_ensure_table_exist(t) ==
  Call(t, "tables", NoOne, <<CreateTable("basic"), CreateTable("admin"), CreateTable("child"), CreateTable("devBasic"), CreateTable("devOwner")>>)

(* The table of all accounts is not dropped. *)
db_account_reset(t) ==
  Call(t, "tables", NoOne, <<Drop("admin"), Drop("admin"), Drop("child"), Drop("devBasic"), Drop("devOwner")>>)

(* db_account_license_del *)
license_del(a) == <<Find("basic", a, 0, 1), DeleteRows("admin", "uuid", a, FALSE)>>

(* db_account_license_set: a license that is there is deleted first *)
license_set(a) == <<Find("admin", a, 0, 2)>> \o license_del(a) \o <<Insert("admin", a, NoOne, FALSE)>>

db_account_license_set(t, a) == Call(t, "add", a, license_set(a))

(* The default license is set whether or not the INSERT worked. *)
db_account_admin_add(t, a) ==
  Call(t, "add", a, <<Find("admin", a, 5, 0), Insert("basic", a, NoOne, FALSE)>> \o license_set(a))

(* db_account_child_del for all children: the second statement selects from *)
(* t_account_admin, so that it deletes no child.                            *)
child_del_all(a) == <<DeleteRows("child", "ref", a, FALSE), DeleteIn("basic", "admin", "uuid", a, FALSE)>>

(* db_account_device_del for all devices *)
device_del_all(a) == <<DeleteIn("devBasic", "devOwner", "ref", a, FALSE), DeleteRows("devOwner", "ref", a, FALSE)>>

(* Mutant of db_account_admin_del: the devices stay. *)
db_account_admin_del_short(t, a) ==
  Call(t, "delete", a, <<DeleteRows("basic", "uuid", a, FALSE), DeleteRows("admin", "uuid", a, TRUE)>>
                         \o license_del(a) \o child_del_all(a))

db_account_admin_del(t, a) ==
  Call(t, "delete", a, <<DeleteRows("basic", "uuid", a, FALSE), DeleteRows("admin", "uuid", a, TRUE)>>
                         \o license_del(a) \o child_del_all(a) \o device_del_all(a))

(* Requests of module Accounts, so that admins have children and devices *)
db_account_child_add(t, a, u) ==
  Call(t, "child", a, <<Find("basic", a, 0, 2), Insert("basic", u, NoOne, TRUE), Insert("child", u, a, TRUE)>>)

db_account_device_add(t, a, d) ==
  Call(t, "device", a, <<Find("basic", a, 0, 3), Find("admin", a, 0, 2),
                         Insert("devBasic", d, NoOne, TRUE), Insert("devOwner", d, a, TRUE)>>)

(* The lists: the rows are counted, then the query is made again. *)
List(t, a, table, from) == Call(t, "list", a, <<Select("count", table, from, a), Select("fetch", table, from, a)>>)

db_account_list_admin_get(t) == List(t, NoOne, "basic", "admin")
db_account_list_child_get(t, a) == List(t, a, "basic", "child")
db_account_device_get(t, a) == List(t, a, "devBasic", "devOwner")

-----------------------------------------------------------------------------
(* The provider *)

(* sql_create_new_sqlite, which leaves the lock to the caller *)
sql_create_new_sqlite(t) ==
  /\ Busy(t) /\ thr[t].at = "wait" /\ db
  /\ lock = NoOne /\ lock' = t
  /\ thr' = [thr EXCEPT ![t].at = "locked"]
  /\ UNCHANGED <<db, tabs, rowsOf, deleted, unsure>>

(* Without a database there is no handle.  Nothing is locked, and as the    *)
(* statements that follow fail as well, the call is over without effect.    *)
NoHandle(t) ==
  /\ Busy(t) /\ thr[t].at = "wait" /\ ~db
  /\ thr' = [thr EXCEPT ![t] = NoCall]
  /\ unsure' = unsure \cup ({thr[t].about} \cap Owners)
  /\ UNCHANGED <<db, lock, tabs, rowsOf, deleted>>

(* The statement of t was executed; s come after it. *)
Executed(t, s) == [thr[t] EXCEPT !.at = "executed", !.then = s]

Skip(s, n) == SubSeq(s, n + 1, Len(s))

UuidsOf(table) == {r.uuid : r \in rowsOf[table]}

(* sql_query_sqlite with a statement that writes: rows and tables after it, *)
(* or why it fails                                                          *)
Possible(s) ==
  /\ s.op = "insert" => s.table \in tabs /\ s.row.uuid \notin UuidsOf(s.table)
  /\ s.op = "delete" => {s.table, s.from} \subseteq tabs

After(s) ==
  CASE s.op = "insert" -> rowsOf[s.table] \cup {s.row}
    [] s.op = "delete" -> {r \in rowsOf[s.table] :
                             ~\E f \in rowsOf[s.from] : f.uuid = r.uuid /\ f[s.column] = s.value}
    [] s.op = "create" -> rowsOf[s.table]
    [] s.op = "drop" -> {}

Write(t) ==
  LET s == Head(thr[t].todo) IN
  /\ Busy(t) /\ thr[t].at = "locked" /\ s.op \in {"insert", "delete", "create", "drop"}
  /\ Possible(s)
  /\ rowsOf' = [rowsOf EXCEPT ![s.table] = After(s)]
  /\ tabs' = CASE s.op = "create" -> tabs \cup {s.table}
                 [] s.op = "drop" -> tabs \ {s.table}
                 [] OTHER -> tabs
  /\ thr' = [q \in Threads |-> IF q = t THEN Executed(t, Tail(thr[t].todo))
                               ELSE [thr[q] EXCEPT !.stale = @ \/ (Busy(q) /\ Head(thr[q].todo).op = "fetch")]]
  /\ UNCHANGED <<db, lock, deleted, unsure>>

(* It fails, because of the tables or for another reason. *)
WriteFails(t) ==
  LET s == Head(thr[t].todo) IN
  /\ Busy(t) /\ thr[t].at = "locked" /\ s.op \in {"insert", "delete"}
  /\ thr' = [thr EXCEPT ![t] = Executed(t, IF s.must THEN <<>> ELSE Tail(thr[t].todo))]
  /\ unsure' = IF Possible(s) THEN unsure \cup {thr[t].about} ELSE unsure
  /\ UNCHANGED <<db, lock, tabs, rowsOf, deleted>>

FindRow(t) ==
  LET s == Head(thr[t].todo) IN
  /\ Busy(t) /\ thr[t].at = "locked" /\ s.op = "find"
  /\ thr' = [thr EXCEPT ![t] = Executed(t, Skip(Tail(thr[t].todo), IF s.uuid \in UuidsOf(s.table) THEN s.iffound ELSE s.ifnone))]
  /\ UNCHANGED <<db, lock, tabs, rowsOf, deleted, unsure>>

(* The uuids of the rows a SELECT has *)
Result(s) ==
  {u \in UuidsOf(s.table) : \E r \in rowsOf[s.from] : r.uuid = u /\ (s.from = "admin" \/ r.ref = s.of)}

(* SELECT of a list; without a row the call returns *)
QueryRows(t) ==
  LET s == Head(thr[t].todo) IN
  /\ Busy(t) /\ thr[t].at = "locked" /\ s.op \in {"count", "fetch"}
  /\ thr' = [thr EXCEPT ![t] = [Executed(t, IF Result(s) = {} THEN <<>> ELSE Tail(thr[t].todo))
                                  EXCEPT !.left = Result(s)]]
  /\ UNCHANGED <<db, lock, tabs, rowsOf, deleted, unsure>>

(* Mutant of sql_fetch_row_sqlite: it steps before it reads. *)
sql_fetch_row_sqlite_late(t) ==
  LET s == Head(thr[t].todo) IN
  /\ Busy(t) /\ thr[t].left # {}
  /\ \E u \in thr[t].left :
       LET more == thr[t].left \ {u} IN
       thr' = [thr EXCEPT ![t].left = more, ![t].count = IF s.op = "count" THEN @ + 1 ELSE @,
                          ![t].got = IF s.op = "fetch" /\ more # {} THEN @ \cup {CHOOSE w \in more : TRUE} ELSE @]
  /\ UNCHANGED <<db, lock, tabs, rowsOf, deleted, unsure>>

(* The next row, counted or put into the list *)
sql_fetch_row_sqlite(t) ==
  LET s == Head(thr[t].todo) IN
  /\ Busy(t) /\ thr[t].left # {}
  /\ \E u \in thr[t].left :
       thr' = [thr EXCEPT ![t].left = @ \ {u}, ![t].count = IF s.op = "count" THEN @ + 1 ELSE @,
                          ![t].got = IF s.op = "fetch" THEN @ \cup {u} ELSE @]
  /\ UNCHANGED <<db, lock, tabs, rowsOf, deleted, unsure>>

(* The statement is over, and the call when it was the last one. *)
Over(t) ==
  LET s == thr[t].then IN
  /\ thr' = [thr EXCEPT ![t] = IF s = <<>> THEN NoCall ELSE [@ EXCEPT !.todo = s, !.at = "wait", !.then = <<>>]]
  /\ deleted' = IF s = <<>> /\ thr[t].name = "delete" THEN deleted \cup {thr[t].about} ELSE deleted
  /\ UNCHANGED <<db, tabs, rowsOf, unsure>>

(* Mutant of sql_free_sqlite: the lock of a list that is empty is kept. *)
sql_free_sqlite_keeps(t) ==
  /\ Busy(t) /\ thr[t].at = "executed" /\ thr[t].left = {}
  /\ lock' = IF Head(thr[t].todo).op = "count" /\ thr[t].count = 0 THEN lock ELSE NoOne
  /\ Over(t)

sql_free_sqlite(t) ==
  /\ Busy(t) /\ thr[t].at = "executed" /\ thr[t].left = {}
  /\ lock' = NoOne
  /\ Over(t)

-----------------------------------------------------------------------------

Manage(t) ==
  \/ db_account_ensure_table_exist(t) \/ db_account_reset(t)
  \/ \E a \in Owners :
       db_account_admin_add(t, a) \/ db_account_license_set(t, a) \/ db_account_admin_del(t, a)

Serve(t) ==
  \/ \E a \in Owners :
       \/ \E u \in Others : db_account_child_add(t, a, u)
       \/ \E d \in Cameras : db_account_device_add(t, a, d)
       \/ db_account_list_child_get(t, a) \/ db_account_device_get(t, a)
  \/ db_account_list_admin_get(t)

Statement(t) ==
  \/ Write(t) \/ WriteFails(t) \/ FindRow(t) \/ QueryRows(t)
  \/ sql_fetch_row_sqlite(t) \/ sql_free_sqlite(t) \/ NoHandle(t)

DbNext ==
  \/ sql_init_sqlite \/ sql_clean_sqlite
  \/ \E t \in Managers : Manage(t)
  \/ \E t \in Threads \ Managers : Serve(t)
  \/ \E t \in Threads : sql_create_new_sqlite(t) \/ Statement(t)

DbSpec == DbInit /\ [][DbNext]_dbVars

-----------------------------------------------------------------------------

(***************************************************************************)
(* A list has as many entries as were counted, and they are the rows of    *)
(* the table, unless a table changed after the count: the lock is released *)
(* between the two queries, and only a change there can write past the end *)
(* of the list or leave entries of it NULL (db_account.c:912).             *)
(***************************************************************************)
ListWhole ==
  \A t \in Threads :
    Busy(t) /\ thr[t].at = "executed" /\ thr[t].left = {} /\ Head(thr[t].todo).op = "fetch" /\ ~thr[t].stale
      => thr[t].got = Result(Head(thr[t].todo)) /\ thr[t].count = Cardinality(thr[t].got)

(***************************************************************************)
(* After db_account_admin_del returned, no account, license, child or      *)
(* device of the admin is left, and none is added to it, until the admin   *)
(* is added again; unless a statement failed or calls about it overlapped. *)
(***************************************************************************)
AdminGone ==
  \A a \in deleted \ unsure :
    /\ a \notin UuidsOf("basic") \cup UuidsOf("admin")
    /\ \A table \in AllTables : \A r \in rowsOf[table] : r.ref # a

(***************************************************************************)
(* access_lock belongs to the thread whose statement is being executed,    *)
(* and to nobody between two statements or after a call, on all paths of   *)
(* all calls: the lock that sql_create_new leaves taken is released by     *)
(* every caller, so that no thread waits for it forever.                   *)
(***************************************************************************)
LockOwned ==
  \A t \in Threads : lock = t <=> Busy(t) /\ thr[t].at \in {"locked", "executed"}
============================================================================
