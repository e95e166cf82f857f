------------------------------ MODULE Accounts ------------------------------
(***************************************************************************)
(* The account and device tables of service/db/db_account.c with the       *)
(* requests that read and change them (service/service_req_account.c and   *)
(* service_req_device.c).                                                  *)
(*                                                                         *)
(* One SQL statement is one step: the sqlite provider holds its lock from  *)
(* sql_create_new to sql_free and there are no transactions.  Processors   *)
(* run requests at the same time, any statement that writes may fail, and  *)
(* the service may die between two statements; the tables stay.            *)
(*                                                                         *)
(* Assertions are compiled out; a build with them dies where one fails,    *)
(* which is one of the ways to crash here.  Sessions are those of module   *)
(* OnlineSession: a request is made for the account its session was opened *)
(* for, whether or not that account still exists.  Requests that only an   *)
(* admin may make and another account sends are refused without effect.    *)
(***************************************************************************)
EXTENDS Naturals, FiniteSets

CONSTANTS
  Processors,   \* threads that run requests
  Admins,       \* t_account_admin: no request adds or removes a license
  Children,     \* uuids that are no admin's, in lower case
  Devices,      \* uuids of devices
  Rows,         \* what a request may store for a device: port, channel, folder
  Workloads     \* kinds of request that clients make together in a behaviour: a
                \* bound, account and device requests share no table they change

ASSUME RowsAssumption == Rows \subseteq [port : Nat, channel : Nat, folder : STRING]
ASSUME WorkloadsAssumption == Workloads \subseteq SUBSET {"account", "device"}
ASSUME NamesAssumption == Admins \cap Children = {} /\ Admins \cap Devices = {}
                            /\ Children \cap Devices = {}

Nobody == "nobody"
NoRow == [port |-> 0, channel |-> 0, folder |-> "none"]

ASSUME NoneAssumption == Nobody \notin Admins \cup Children \cup Devices /\ NoRow \notin Rows

Uuids == Admins \cup Children

VARIABLES
  basic,       \* t_account_basic: the uuids in it
  child,       \* t_account_child: child[u] is ref_admin_uuid of u, or Nobody
  devBasic,    \* t_device_basic: the row of each device, or NoRow
  devOwner,    \* t_account_device: ref_admin_uuid of each device, or Nobody
  proc,        \* proc[p]: the next statement (pc), the account it is for (by),
               \* the uuid and the row it is about
  torn,        \* uuids left half done, or worked on by two requests (history)
  crowded,     \* two devices were being created at the same time (history)
  workload     \* the kinds of request of this behaviour; never changes

tables == <<basic, child, devBasic, devOwner>>
vars == <<tables, proc, torn, crowded, workload>>

Idle == [pc |-> "idle", by |-> Nobody, uuid |-> Nobody, row |-> NoRow]

Init ==
  /\ basic = Admins
  /\ child = [u \in Uuids |-> Nobody]
  /\ devBasic = [d \in Devices |-> NoRow]
  /\ devOwner = [d \in Devices |-> Nobody]
  /\ proc = [p \in Processors |-> Idle]
  /\ torn = {}
  /\ crowded = FALSE
  /\ workload \in Workloads

AddPCs == {"addBasic", "addChild"}
DelPCs == {"delChild", "delBasic"}
DevAddPCs == {"devUuid", "devFolder", "devAdd", "devBasic", "devOwner"}
DevDelPCs == {"devDelBasic", "devDelOwner"}
WritePCs == AddPCs \cup DelPCs \cup DevAddPCs \cup DevDelPCs
HalfPCs == {"addChild", "delBasic", "devOwner", "devDelOwner"}

(* db_account_license_get: there is a row, whatever its dates say. *)
HasLicense(u) == u \in Admins

(* Processor p starts a request whose next statement is pc. *)
Enter(p, pc, a, x, r) ==
  proc' = [proc EXCEPT ![p] = [pc |-> pc, by |-> a, uuid |-> x, row |-> r]]

(* Processor p goes on to statement pc, or answers. *)
Goto(p, pc) == proc' = [proc EXCEPT ![p].pc = pc]
Answer(p) == proc' = [proc EXCEPT ![p] = Idle]

(* A second request that changes x starts. *)
Overlap(x) ==
  torn' = IF \E q \in Processors : proc[q].uuid = x /\ proc[q].pc \in WritePCs
          THEN torn \cup {x} ELSE torn

(* A statement of p failed after another one had its effect, or before one *)
(* that will have it.                                                       *)
Tear(p, failed) == torn' = IF failed THEN torn \cup {proc[p].uuid} ELSE torn

(* The process dies and is started again (db_account_ensure_table_exist     *)
(* finds the tables).                                                       *)
Die ==
  /\ proc' = [p \in Processors |-> Idle]
  /\ torn' = torn \cup {proc[p].uuid : p \in {q \in Processors : proc[q].pc \in HalfPCs}}
  /\ UNCHANGED <<tables, crowded>>

-----------------------------------------------------------------------------
(* req_account_create and db_account_child_add *)

(* The uuid is looked up as the client spelled it and stored in lower case: *)
(* the check that it is new passes for any uuid written in capitals.        *)
Create(p, a, u) ==
  /\ proc[p].pc = "idle"
  /\ Enter(p, "addBasic", a, u, NoRow)
  /\ Overlap(u)
  /\ UNCHANGED <<tables, crowded>>

(* The admin is looked up, then INSERT; uuid is the primary key. *)
AddBasic(p) ==
  /\ proc[p].pc = "addBasic"
  /\ \/ /\ proc[p].by \in basic /\ proc[p].uuid \notin basic
        /\ basic' = basic \cup {proc[p].uuid}
        /\ Goto(p, "addChild")
     \/ Answer(p) /\ UNCHANGED basic
  /\ UNCHANGED <<child, devBasic, devOwner, torn, crowded>>

AddChild(p) ==
  /\ proc[p].pc = "addChild"
  /\ \/ /\ child[proc[p].uuid] = Nobody
        /\ child' = [child EXCEPT ![proc[p].uuid] = proc[p].by]
        /\ UNCHANGED torn
     \/ UNCHANGED child /\ Tear(p, child[proc[p].uuid] = Nobody)
  /\ Answer(p)
  /\ UNCHANGED <<basic, devBasic, devOwner, crowded>>

-----------------------------------------------------------------------------
(* req_account_delete and db_account_child_del *)

(* The row db_account_list_child_get looks for. *)
IsChildOf(u, a) == u \in basic /\ child[u] = a

(* Mutant of Delete: any account but the caller's own. *)
DeleteAnyone(p, a, u) ==
  /\ proc[p].pc = "idle"
  /\ a \in basic /\ u # a
  /\ Enter(p, "delChild", a, u, NoRow)
  /\ Overlap(u)
  /\ UNCHANGED <<tables, crowded>>

(* The password and the license of the caller, and that u is a child of the *)
(* caller and no admin; db_account_child_del comes later.                   *)
Delete(p, a, u) ==
  /\ proc[p].pc = "idle"
  /\ a \in basic /\ u # a /\ IsChildOf(u, a) /\ ~HasLicense(u)
  /\ Enter(p, "delChild", a, u, NoRow)
  /\ Overlap(u)
  /\ UNCHANGED <<tables, crowded>>

DelChild(p) ==
  /\ proc[p].pc = "delChild"
  /\ \/ /\ child' = IF child[proc[p].uuid] = proc[p].by
                    THEN [child EXCEPT ![proc[p].uuid] = Nobody] ELSE child
        /\ UNCHANGED torn
     \/ UNCHANGED child /\ Tear(p, TRUE)
  /\ Goto(p, "delBasic")
  /\ UNCHANGED <<basic, devBasic, devOwner, crowded>>

(* Mutant of DelBasic: the account keeps its password. *)
DelBasicNot(p) ==
  /\ proc[p].pc = "delBasic"
  /\ Answer(p)
  /\ UNCHANGED <<tables, torn, crowded>>

(* DELETE by uuid alone *)
DelBasic(p) ==
  /\ proc[p].pc = "delBasic"
  /\ \/ basic' = basic \ {proc[p].uuid} /\ UNCHANGED torn
     \/ UNCHANGED basic /\ Tear(p, TRUE)
  /\ Answer(p)
  /\ UNCHANGED <<child, devBasic, devOwner, crowded>>

-----------------------------------------------------------------------------
(* req_account_login and req_account_modify; the uuid is the caller's own *)

(* The password is right (db_account_check_user_is_ok). *)
Login(p, u) ==
  /\ proc[p].pc = "idle" /\ u \in basic
  /\ Enter(p, "loginExist", Nobody, u, NoRow)
  /\ UNCHANGED <<tables, torn, crowded>>

(* db_account_check_user_exist: the account again, ... *)
LoginExist(p) ==
  /\ proc[p].pc = "loginExist"
  /\ IF proc[p].uuid \in basic THEN Goto(p, "loginRef") ELSE Answer(p)
  /\ UNCHANGED <<tables, torn, crowded>>

(* ... its license or else its admin. *)
LoginRef(p) ==
  /\ proc[p].pc = "loginRef"
  /\ LET u == proc[p].uuid IN
       Enter(p, "loginList", IF HasLicense(u) THEN u ELSE child[u], u, NoRow)
  /\ UNCHANGED <<tables, torn, crowded>>

(* The row that db_account_list_admin_get or ..._child_get looks for. *)
LoginRow(p) ==
  LET u == proc[p].uuid IN
  IF HasLicense(u) THEN u \in basic ELSE proc[p].by # Nobody /\ IsChildOf(u, proc[p].by)

(* The row is counted and, in a second statement, fetched; without it the   *)
(* handler reads through a null pointer.                                    *)
LoginList(p) ==
  /\ proc[p].pc \in {"loginList", "loginFetch"}
  /\ \/ /\ LoginRow(p)
        /\ IF proc[p].pc = "loginList" THEN Goto(p, "loginFetch") ELSE Answer(p)
        /\ UNCHANGED <<tables, torn, crowded>>
     \/ ~LoginRow(p) /\ Die

Modify(p, u) ==
  /\ proc[p].pc = "idle" /\ u \in basic
  /\ Enter(p, "modify", Nobody, u, NoRow)
  /\ UNCHANGED <<tables, torn, crowded>>

(* db_account_update.  The rows it reads may be gone by then; for an account *)
(* that is, it writes "user not exist" to a buffer it was not given.  What   *)
(* it changes otherwise (password, names) is not told apart here.            *)
Update(p) ==
  /\ proc[p].pc = "modify"
  /\ \/ Answer(p) /\ UNCHANGED <<tables, torn, crowded>>
     \/ proc[p].uuid \notin basic /\ Die

-----------------------------------------------------------------------------
(* req_device_create and db_account_device_add *)

(* The devices of admin a: both rows are there. *)
DevicesOf(a) == {d \in Devices : devOwner[d] = a /\ devBasic[d] # NoRow}

(* db_account_device_check_exist *)
PlaceTaken(a, port, channel) ==
  \E d \in DevicesOf(a) : devBasic[d].port = port /\ devBasic[d].channel = channel

(* Mutant of DevCreate: nothing is compared. *)
DevCreateAnywhere(p, a, d, r) ==
  /\ proc[p].pc = "idle"
  /\ Enter(p, "devUuid", a, d, r)
  /\ Overlap(d)
  /\ crowded' = (crowded \/ \E q \in Processors : proc[q].pc \in DevAddPCs)
  /\ UNCHANGED tables

DevCreate(p, a, d, r) ==
  /\ proc[p].pc = "idle" /\ a \in basic
  /\ ~PlaceTaken(a, r.port, r.channel)
  /\ Enter(p, "devUuid", a, d, r)
  /\ Overlap(d)
  /\ crowded' = (crowded \/ \E q \in Processors : proc[q].pc \in DevAddPCs)
  /\ UNCHANGED tables

(* db_account_device_get: the uuid among the devices of this admin *)
DevUuid(p) ==
  /\ proc[p].pc = "devUuid"
  /\ IF proc[p].uuid \in DevicesOf(proc[p].by) THEN Answer(p) ELSE Goto(p, "devFolder")
  /\ UNCHANGED <<tables, torn, crowded>>

(* db_account_device_workpath_valid: the folder among all devices *)
DevFolder(p) ==
  /\ proc[p].pc = "devFolder"
  /\ IF \E d \in Devices : devBasic[d] # NoRow /\ devBasic[d].folder = proc[p].row.folder
     THEN Answer(p) ELSE Goto(p, "devAdd")
  /\ UNCHANGED <<tables, torn, crowded>>

(* db_account_device_add looks for the admin and compares once more; it     *)
(* passes the port twice.                                                   *)
DevAdd(p) ==
  /\ proc[p].pc = "devAdd"
  /\ IF proc[p].by \notin basic \/ ~HasLicense(proc[p].by)
          \/ PlaceTaken(proc[p].by, proc[p].row.port, proc[p].row.port)
     THEN Answer(p) ELSE Goto(p, "devBasic")
  /\ UNCHANGED <<tables, torn, crowded>>

DevAddBasic(p) ==
  /\ proc[p].pc = "devBasic"
  /\ \/ /\ devBasic[proc[p].uuid] = NoRow
        /\ devBasic' = [devBasic EXCEPT ![proc[p].uuid] = proc[p].row]
        /\ Goto(p, "devOwner")
     \/ Answer(p) /\ UNCHANGED devBasic
  /\ UNCHANGED <<basic, child, devOwner, torn, crowded>>

DevAddOwner(p) ==
  /\ proc[p].pc = "devOwner"
  /\ \/ /\ devOwner[proc[p].uuid] = Nobody
        /\ devOwner' = [devOwner EXCEPT ![proc[p].uuid] = proc[p].by]
        /\ UNCHANGED torn
     \/ UNCHANGED devOwner /\ Tear(p, devOwner[proc[p].uuid] = Nobody)
  /\ Answer(p)
  /\ UNCHANGED <<basic, child, devBasic, crowded>>

-----------------------------------------------------------------------------
(* req_device_delete and db_account_device_del *)

DevDelete(p, a, d) ==
  /\ proc[p].pc = "idle" /\ a \in basic
  /\ d \in DevicesOf(a)
  /\ Enter(p, "devDelBasic", a, d, NoRow)
  /\ Overlap(d)
  /\ UNCHANGED <<tables, crowded>>

(* Mutant of DevDelBasic: the statements in the other order; the row of the *)
(* device is then found by a subquery that is empty.                        *)
DevDelBasicLast(p) ==
  /\ proc[p].pc = "devDelBasic"
  /\ devOwner' = IF devOwner[proc[p].uuid] = proc[p].by
                 THEN [devOwner EXCEPT ![proc[p].uuid] = Nobody] ELSE devOwner
  /\ Goto(p, "devDelOwner")
  /\ UNCHANGED <<basic, child, devBasic, torn, crowded>>

(* DELETE ... WHERE uuid IN (SELECT ... of this admin) *)
DevDelBasic(p) ==
  /\ proc[p].pc = "devDelBasic"
  /\ \/ /\ devBasic' = IF devOwner[proc[p].uuid] = proc[p].by
                       THEN [devBasic EXCEPT ![proc[p].uuid] = NoRow] ELSE devBasic
        /\ UNCHANGED torn
     \/ UNCHANGED devBasic /\ Tear(p, TRUE)
  /\ Goto(p, "devDelOwner")
  /\ UNCHANGED <<basic, child, devOwner, crowded>>

DevDelOwner(p) ==
  /\ proc[p].pc = "devDelOwner"
  /\ \/ /\ devOwner' = IF devOwner[proc[p].uuid] = proc[p].by
                       THEN [devOwner EXCEPT ![proc[p].uuid] = Nobody] ELSE devOwner
        /\ UNCHANGED torn
     \/ UNCHANGED devOwner /\ Tear(p, TRUE)
  /\ Answer(p)
  /\ UNCHANGED <<basic, child, devBasic, crowded>>

-----------------------------------------------------------------------------

AccountRequest(p) ==
  /\ "account" \in workload
  /\ \/ \E a \in Admins, u \in Uuids : Create(p, a, u) \/ Delete(p, a, u)
     \/ \E u \in Uuids : Login(p, u) \/ Modify(p, u)

AccountStep(p) ==
  \/ AddBasic(p) \/ AddChild(p) \/ DelChild(p) \/ DelBasic(p)
  \/ LoginExist(p) \/ LoginRef(p) \/ LoginList(p) \/ Update(p)

DeviceRequest(p) ==
  /\ "device" \in workload
  /\ \E a \in Admins, d \in Devices :
       \/ \E r \in Rows : DevCreate(p, a, d, r)
       \/ DevDelete(p, a, d)

DeviceStep(p) ==
  \/ DevUuid(p) \/ DevFolder(p) \/ DevAdd(p) \/ DevAddBasic(p) \/ DevAddOwner(p)
  \/ DevDelBasic(p) \/ DevDelOwner(p)

Next ==
  /\ \/ \E p \in Processors :
          AccountRequest(p) \/ AccountStep(p) \/ DeviceRequest(p) \/ DeviceStep(p)
     \/ Die
  /\ UNCHANGED workload

Spec == Init /\ [][Next]_vars

-----------------------------------------------------------------------------

PCs == {"idle", "loginExist", "loginRef", "loginList", "loginFetch", "modify"}
         \cup WritePCs

(* The type of the tables and of the requests. *)
TypeOK ==
  /\ basic \subseteq Uuids
  /\ child \in [Uuids -> Admins \cup {Nobody}]
  /\ devBasic \in [Devices -> Rows \cup {NoRow}]
  /\ devOwner \in [Devices -> Admins \cup {Nobody}]
  /\ proc \in [Processors -> [pc : PCs, by : Admins \cup {Nobody},
                              uuid : Uuids \cup Devices \cup {Nobody},
                              row : Rows \cup {NoRow}]]
  /\ torn \subseteq Uuids \cup Devices
  /\ crowded \in BOOLEAN
  /\ workload \in Workloads

(***************************************************************************)
(* No request, however it overlaps others or fails halfway, takes an admin *)
(* account away or makes it somebody's child: the case of which            *)
(* req_account_delete says "should never happen" (service_req_account.c    *)
(* line 369).                                                              *)
(***************************************************************************)
AdminsSafe == \A a \in Admins : a \in basic /\ child[a] = Nobody

(* No request is between its two writes about x. *)
Settled(x) == \A p \in Processors : proc[p].pc \in HalfPCs => proc[p].uuid # x

(***************************************************************************)
(* The two rows of a child account come and go together: an account that   *)
(* can log in belongs to an admin who can delete it, and a uuid without    *)
(* account can be created.  Only a uuid two requests worked on at once, or *)
(* one whose request failed or was cut off between its writes, may differ. *)
(***************************************************************************)
RowsAgree ==
  \A u \in Children \ torn : Settled(u) => (u \in basic <=> child[u] # Nobody)

(* The same for the two rows of a device. *)
DevicesAgree ==
  \A d \in Devices \ torn :
    Settled(d) => (devBasic[d] # NoRow <=> devOwner[d] # Nobody)

(***************************************************************************)
(* An admin has no two devices on one port and channel ("device already    *)
(* exist", db_account.c:1093) and no two devices record to one folder      *)
(* ("-3, work folder exist"), unless devices were created at the same      *)
(* time: nothing but the checks before the INSERT keeps them apart.  A     *)
(* torn device may be the wrong admin's, with the row of another request.  *)
(***************************************************************************)
DevicesApart ==
  ~crowded =>
    /\ \A a \in Admins : \A d, e \in DevicesOf(a) \ torn :
         devBasic[d].port = devBasic[e].port /\ devBasic[d].channel = devBasic[e].channel
           => d = e
    /\ \A d, e \in Devices :
         devBasic[d] # NoRow /\ devBasic[e] # NoRow /\ devBasic[d].folder = devBasic[e].folder
           => d = e

(***************************************************************************)
(* The assertion of req_account_login, "assert(r && count == 1)"           *)
(* (service_req_account.c:80): the account whose password was checked is   *)
(* there when its row is read.                                             *)
(***************************************************************************)
LoginFindsRow == \A p \in Processors : proc[p].pc = "loginList" => LoginRow(p)

-----------------------------------------------------------------------------
(* The parts of the inductive invariant. *)

(* What a request is about: its statement decides between accounts and      *)
(* devices, and no statement that changes an account is about an admin once *)
(* the first one succeeded.                                                 *)
RequestsRight ==
  \A p \in Processors :
    /\ proc[p].pc \in WritePCs => proc[p].by \in Admins
    /\ proc[p].pc \in AddPCs \cup DelPCs => proc[p].uuid \in Uuids
    /\ proc[p].pc \in {"loginExist", "loginRef", "loginList", "loginFetch", "modify"}
         => proc[p].uuid \in Uuids
    /\ proc[p].pc \in {"addChild"} \cup DelPCs => proc[p].uuid \in Children
    /\ proc[p].pc \in DevAddPCs => proc[p].uuid \in Devices /\ proc[p].row \in Rows
    /\ proc[p].pc \in DevDelPCs => proc[p].uuid \in Devices
    /\ proc[p].pc = "idle" => proc[p].uuid = Nobody

(* Only one request at a time changes a uuid that is not torn. *)
OneWriter ==
  \A p, q \in Processors :
    proc[p].pc \in WritePCs /\ proc[q].pc \in WritePCs /\ proc[p].uuid = proc[q].uuid
      => p = q \/ proc[p].uuid \in torn

(* How the rows of an account stand while a request changes it. *)
RowsTrack ==
  \A p \in Processors : proc[p].uuid \notin torn =>
    /\ proc[p].pc = "delChild" =>
         proc[p].uuid \in basic /\ child[proc[p].uuid] = proc[p].by
    /\ proc[p].pc \in {"addChild", "delBasic"} =>
         proc[p].uuid \in basic /\ child[proc[p].uuid] = Nobody

(* How the rows of a device stand while a request changes it. *)
DevicesTrack ==
  \A p \in Processors : proc[p].uuid \notin torn =>
    /\ proc[p].pc = "devDelBasic" => devOwner[proc[p].uuid] = proc[p].by
                                     /\ devBasic[proc[p].uuid] # NoRow
    /\ proc[p].pc = "devOwner" => devOwner[proc[p].uuid] = Nobody
                                  /\ devBasic[proc[p].uuid] # NoRow
    /\ proc[p].pc = "devDelOwner" => devOwner[proc[p].uuid] = proc[p].by
                                     /\ devBasic[proc[p].uuid] = NoRow

(***************************************************************************)
(* While one device is created at a time: between its checks and its last  *)
(* statement no device of the admin takes the place, and from the check of *)
(* the folder to the first INSERT no device takes the folder.              *)
(***************************************************************************)
CreatesAlone ==
  \A p, q \in Processors : proc[p].pc \in DevAddPCs /\ proc[q].pc \in DevAddPCs => p = q

PlaceFree ==
  \A p \in Processors : proc[p].pc \in DevAddPCs =>
    \A e \in DevicesOf(proc[p].by) \ torn :
      ~(devBasic[e].port = proc[p].row.port /\ devBasic[e].channel = proc[p].row.channel)

RowStored ==
  \A p \in Processors :
    proc[p].pc = "devOwner" /\ proc[p].uuid \notin torn => devBasic[proc[p].uuid] = proc[p].row

FolderFree ==
  \A p \in Processors : proc[p].pc \in {"devAdd", "devBasic"} =>
    \A e \in Devices : devBasic[e] # NoRow => devBasic[e].folder # proc[p].row.folder

DevicesInv ==
  /\ ~crowded => CreatesAlone /\ PlaceFree /\ RowStored /\ FolderFree
  /\ DevicesApart

IInv ==
  /\ TypeOK /\ RequestsRight /\ OneWriter
  /\ AdminsSafe /\ RowsTrack /\ RowsAgree
  /\ DevicesTrack /\ DevicesAgree
=============================================================================
