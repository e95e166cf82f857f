----------------------------- MODULE ChildList -----------------------------
(***************************************************************************)
(* req_account_list of service/service_req_account.c: an admin's request   *)
(* for the list of its children.  The handler takes the list from the      *)
(* database, then looks up each child again, with online_session_try_get_  *)
(* child of service_session.c: among the sessions, else in the database.   *)
(* Meanwhile other requests create and delete children, and children log   *)
(* in and out.  (Module AdminDb has the statements of the list, module     *)
(* OnlineSession the references.)                                          *)
(***************************************************************************)
EXTENDS Naturals, FiniteSets

CONSTANTS
  Kids,        \* uuids of an admin's children
  MaxChanges   \* bound: changes by other requests during a list

ASSUME KidsAssumption == IsFiniteSet(Kids)

VARIABLES
  kidRows,     \* children in t_account_basic and t_account_child
  online,      \* children with a session in session_list
  at,          \* the handler: "idle", "list", "walk", "db", "answer"
  todo,        \* listed children that are to be looked up
  now,         \* the child that is being looked up
  counted,     \* count of the answer
  entries,     \* entries of the answer: a child and is_online
  changes,     \* changes so far
  before,      \* kidRows when the request began (history)
  seen         \* seen[c]: what was true of c during the request: that it was in
               \* the database, missing, online, offline (history)

listVars == <<kidRows, online, at, todo, now, counted, entries, changes, before, seen>>

Facts(r, o) == [c \in Kids |-> {IF c \in r THEN "there" ELSE "gone"} \cup {IF c \in o THEN "on" ELSE "off"}]

ListInit ==
  /\ kidRows \in SUBSET Kids /\ online = {}
  /\ at = "idle" /\ todo = {} /\ now = CHOOSE c \in Kids : TRUE
  /\ counted = 0 /\ entries = {}
  /\ changes = 0 /\ before = kidRows
  /\ seen = Facts(kidRows, online)

(* kidRows and online become r and o. *)
Change(r, o) ==
  /\ changes < MaxChanges /\ changes' = changes + 1
  /\ kidRows' = r /\ online' = o
  /\ seen' = [c \in Kids |-> seen[c] \cup Facts(r, o)[c]]
  /\ UNCHANGED <<at, todo, now, counted, entries, before>>

LoginKid(c) == c \in kidRows \ online /\ Change(kidRows, online \cup {c})
Leave(c) == c \in online /\ Change(kidRows, online \ {c})
CreateKid(c) == c \notin kidRows /\ Change(kidRows \cup {c}, online)
Remove(c) == c \in kidRows /\ Change(kidRows \ {c}, online)   \* its session stays

-----------------------------------------------------------------------------
(* The handler *)

Request ==
  /\ at = "idle" /\ at' = "list"
  /\ entries' = {} /\ counted' = 0
  /\ changes' = 0 /\ before' = kidRows /\ seen' = Facts(kidRows, online)
  /\ UNCHANGED <<kidRows, online, todo, now>>

(* db_account_list_child_get: without a child it fails, and the answer is   *)
(* an internal error.                                                       *)
ListGet ==
  /\ at = "list"
  /\ at' = IF kidRows = {} THEN "idle" ELSE "walk"
  /\ todo' = kidRows /\ counted' = Cardinality(kidRows)
  /\ UNCHANGED <<kidRows, online, now, entries, changes, before, seen>>

(* Mutant of TryOnline: a child with a session is listed twice. *)
TryOnlineAgain ==
  \E c \in todo :
    /\ at = "walk" /\ now' = c /\ todo' = todo \ {c}
    /\ at' = "db"
    /\ entries' = IF c \in online THEN entries \cup {[uuid |-> c, is_online |-> TRUE]} ELSE entries
    /\ UNCHANGED <<kidRows, online, counted, changes, before, seen>>

(* online_session_try_get_child: the sessions first *)
TryOnline ==
  \E c \in todo :
    /\ at = "walk" /\ now' = c /\ todo' = todo \ {c}
    /\ \/ c \in online /\ entries' = entries \cup {[uuid |-> c, is_online |-> TRUE]} /\ UNCHANGED at
       \/ c \notin online /\ at' = "db" /\ UNCHANGED entries
    /\ UNCHANGED <<kidRows, online, counted, changes, before, seen>>

(* Then the database; a child that is in neither gets no entry. *)
TryDb ==
  /\ at = "db" /\ at' = "walk"
  /\ entries' = IF now \in kidRows THEN entries \cup {[uuid |-> now, is_online |-> FALSE]} ELSE entries
  /\ UNCHANGED <<kidRows, online, todo, now, counted, changes, before, seen>>

(* All were looked up: db_account_list_free, and the answer is sent. *)
Looked ==
  /\ at = "walk" /\ todo = {} /\ at' = "answer"
  /\ UNCHANGED <<kidRows, online, todo, now, counted, entries, changes, before, seen>>

SendAnswer ==
  /\ at = "answer" /\ at' = "idle"
  /\ UNCHANGED <<kidRows, online, todo, now, counted, entries, changes, before, seen>>

-----------------------------------------------------------------------------

ListNext ==
  \/ Request \/ ListGet \/ TryOnline \/ TryDb \/ Looked \/ SendAnswer
  \/ \E c \in Kids : LoginKid(c) \/ Leave(c) \/ CreateKid(c) \/ Remove(c)

ListSpec == ListInit /\ [][ListNext]_listVars

-----------------------------------------------------------------------------

(***************************************************************************)
(* The answer is true of the time of the request, although it is put       *)
(* together from many reads: a child has at most one entry, and has one if *)
(* it was there all the time; an entry says online or offline only of a    *)
(* child that was; and there are count entries, unless a child was deleted *)
(* meanwhile.                                                              *)
(***************************************************************************)
ListTrue ==
  at = "answer" =>
    /\ \A e, f \in entries : e.uuid = f.uuid => e = f
    /\ \A e \in entries : "there" \in seen[e.uuid] /\ (IF e.is_online THEN "on" ELSE "off") \in seen[e.uuid]
    /\ \A c \in before : "gone" \notin seen[c] => \E e \in entries : e.uuid = c
    /\ Cardinality(entries) < counted => \E c \in Kids : {"there", "gone"} \subseteq seen[c]
============================================================================
