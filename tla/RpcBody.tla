------------------------------ MODULE RpcBody ------------------------------
(***************************************************************************)
(* The body of a packet, from the pairs of a key and a value that the      *)
(* sender appends (rpc_keypair.c, rpc_buffer.c) to those that the receiver *)
(* looks up (rpc_parser.c), for the messages of client/media_api_*.c and   *)
(* service/service_req_*.c.                                                *)
(*                                                                         *)
(* An item of a buffer is a size and the text "key: value".  A text is a   *)
(* sequence of its parts, <<key>> or <<key, value>>; a value is the number *)
(* of its item, or Empty, a string of no bytes.  Bodies are sent as they   *)
(* are: rpc_id_encrypt is crypt_type_none.                                 *)
(***************************************************************************)
EXTENDS Integers, Sequences, FiniteSets

CONSTANT Entries    \* bound: entries of a list

ASSUME EntriesAssumption == Entries \in Nat

Empty == 0
NULL == -1

VARIABLES
  msg,        \* the message
  hole,       \* the item whose value is the empty string, or 0
  buffer,     \* rpc_buffer_t: the items
  position,   \* parse_position
  pairs,      \* rpc_req_t: the pairs the receiver has
  stage       \* "append", "parse", "done", "freed"

bodyVars == <<msg, hole, buffer, position, pairs, stage>>

-----------------------------------------------------------------------------
(* The keys of the messages in the order in which they are appended *)

login_in    == <<"uuid", "pwd", "pid">>
login_out   == <<"rid", "is_admin", "ref_admin_uuid">>
create_in   == <<"uuid", "pwd", "nickname", "comment">>
modify_in   == <<"old_pwd", "new_pwd", "nickname", "comment">>
delete_in   == <<"check_pwd", "del_uuid">>
device_in   == <<"uuid", "plugin_name", "ip", "port", "user", "pwd", "channel", "seg_folder",
                 "seg_in_count", "seg_per_sec", "nickname", "comment", "is_top_level",
                 "ref_parent_uuid">>
version_in  == <<"pid", "ver">>
version_out == <<"rid", "new_ver", "update_log", "force_update">>
touch_out   == <<"rid", "path", "elapsed">>

(* n times the keys of an entry *)
Repeat(keys, n) == [i \in 1..(n * Len(keys)) |-> keys[((i - 1) % Len(keys)) + 1]]

accounts_out(n) ==
  <<"rid", "count">> \o
    Repeat(<<"uuid", "nickname", "comment", "created_time", "is_online", "ip", "port">>, n)

devices_out(n) ==
  <<"rid", "count">> \o
    Repeat(<<"uuid", "plugin_name", "ip", "port", "user", "pwd", "channel", "seg_folder",
             "seg_in_count", "seg_per_sec", "created_time", "nickname", "comment",
             "is_top_level", "ref_parent_uuid">>, n)

(* The messages, and the keys that are asked for with rpc_parser_get *)
Messages ==
  [login_in |-> login_in, login_out |-> login_out, create_in |-> create_in,
   modify_in |-> modify_in, delete_in |-> delete_in, device_in |-> device_in,
   version_in |-> version_in, version_out |-> version_out, touch_out |-> touch_out,
   accounts_out |-> accounts_out(Entries), devices_out |-> devices_out(Entries)]

Lists == {"accounts_out", "devices_out"}

lookups(m) ==
  CASE m \in Lists      -> {"rid", "count"}
    [] m = "touch_out"  -> {"rid", "path", "elapse"}
    [] OTHER            -> {Messages[m][i] : i \in 1..Len(Messages[m])}

(* Values that the sender does not refuse when they are empty.  Of a device  *)
(* these are left out instead, which is the same to the receiver.           *)
MayBeEmpty == {"uuid", "pwd", "old_pwd", "new_pwd", "check_pwd", "del_uuid", "nickname",
               "comment", "ref_parent_uuid"}

(* A text that begins with key k.  "elapse" begins "elapsed"; no other key  *)
(* of a message begins another one.                                         *)
Begins(text, k) == text[1] = k \/ (k = "elapse" /\ text[1] = "elapsed")

-----------------------------------------------------------------------------

BodyInit ==
  /\ msg \in DOMAIN Messages
  /\ hole \in {0} \cup {i \in 1..Len(Messages[msg]) : Messages[msg][i] \in MayBeEmpty}
  /\ buffer = <<>> /\ position = 0
  /\ pairs = <<>>
  /\ stage = "append"

Value(i) == IF i = hole THEN Empty ELSE i

(* rpc_keypair_append with rpc_buffer_append *)
rpc_keypair_append ==
  /\ stage = "append" /\ Len(buffer) < Len(Messages[msg])
  /\ LET i == Len(buffer) + 1 IN buffer' = Append(buffer, <<Messages[msg][i], Value(i)>>)
  /\ UNCHANGED <<msg, hole, position, pairs, stage>>

(* The other side: rpc_parser_new rewinds the buffer it received. *)
Received ==
  /\ stage = "append" /\ Len(buffer) = Len(Messages[msg])
  /\ position' = 0 /\ stage' = "parse"
  /\ UNCHANGED <<msg, hole, buffer, pairs>>

(* Mutant of MoreItems: the end is expected one item too early. *)
MoreItemsShort == position + 1 < Len(buffer)

(* rpc_buffer_next finds another item. *)
MoreItems == position < Len(buffer)

(***************************************************************************)
(* One turn of rpc_parser_new: rpc_keypair_next, rpc_parser_add.  The key  *)
(* is not cut off at the divide: its text goes on to the next zero byte,   *)
(* which is in the size of the next item.  No value is kept for an empty   *)
(* one.                                                                    *)
(***************************************************************************)
rpc_parser_add ==
  /\ stage = "parse" /\ MoreItems
  /\ LET text == buffer[position + 1]
     IN  pairs' = Append(pairs, [key |-> text, value |-> IF text[2] = Empty THEN NULL ELSE text[2]])
  /\ position' = position + 1
  /\ UNCHANGED <<msg, hole, buffer, stage>>

Parsed ==
  /\ stage = "parse" /\ ~MoreItems
  /\ stage' = "done"
  /\ UNCHANGED <<msg, hole, buffer, position, pairs>>

(* After its lookups the receiver frees the pairs. *)
rpc_parser_free ==
  /\ stage = "done"
  /\ stage' = "freed" /\ pairs' = <<>>
  /\ UNCHANGED <<msg, hole, buffer, position>>

BodyNext == rpc_keypair_append \/ Received \/ rpc_parser_add \/ Parsed \/ rpc_parser_free

BodySpec == BodyInit /\ [][BodyNext]_bodyVars

-----------------------------------------------------------------------------
(* The lookups of the receiver *)

rpc_parser_count == Len(pairs)

Hits(k) == {i \in 1..rpc_parser_count : Begins(pairs[i].key, k)}

(* The value of the first pair whose key begins with k *)
rpc_parser_get(k) ==
  IF Hits(k) = {} THEN NULL
  ELSE pairs[CHOOSE i \in Hits(k) : \A j \in Hits(k) : i <= j].value

(***************************************************************************)
(* The entries that the loops of mc_account_list and mc_device_list make:  *)
(* one for each pair of rpc_parser_index whose key is "uuid" for strcmp.   *)
(***************************************************************************)
entries == {i \in 1..rpc_parser_count : pairs[i].key = <<"uuid">>}

-----------------------------------------------------------------------------

(***************************************************************************)
(* For every message of the program the receiver finds under each key the  *)
(* value the sender put there, although keys are compared by their first   *)
(* bytes only; a value of no bytes is found as NULL.                       *)
(***************************************************************************)
LookupRight ==
  stage = "done" =>
    \A k \in lookups(msg), i \in 1..Len(Messages[msg]) :
      Begins(<<Messages[msg][i]>>, k) =>
        rpc_parser_get(k) = IF i = hole THEN NULL ELSE i

(***************************************************************************)
(* "get all registered users", "list device" (media_api.h): the client     *)
(* makes an entry of each one the server listed.                           *)
(***************************************************************************)
ListFilled == (stage = "done" /\ msg \in Lists) => Cardinality(entries) = Entries
============================================================================
