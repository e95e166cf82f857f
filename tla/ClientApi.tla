----------------------------- MODULE ClientApi -----------------------------
(***************************************************************************)
(* What the calls of client/media_api_*.c make of the server's answer, and *)
(* what the handlers of service/service_req_*.c answer: the two tables of  *)
(* numbers ("rid") that have to agree.                                     *)
(*                                                                         *)
(* An answer is <<rid>>, or NoAnswer when rpc_request_new gave no handle   *)
(* or rpc_request_wait ended without an answer.                            *)
(***************************************************************************)
EXTENDS Integers

NoAnswer == <<>>

NotResponse == "mc_server_not_response"

-----------------------------------------------------------------------------
(* The client: the status of a call, by the answer *)

mc_heartbeat(a) ==
  CASE a = NoAnswer -> NotResponse
    [] a = <<0>>    -> "mc_ok"
    [] OTHER        -> "mc_session_expired"

mc_account_login(a) ==
  CASE a = NoAnswer -> NotResponse
    [] a = <<0>>    -> "mc_ok"
    [] a = <<-1>>   -> "mc_invalid_uuid_or_pwd"
    [] a = <<-255>> -> "mc_syntax_error"
    [] a = <<-300>> -> "mc_session_expired"
    [] OTHER        -> "mc_internal_error"

mc_account_logout(a) == mc_heartbeat(a)

(* Mutant of mc_account_create: the two refusals are swapped. *)
mc_account_create_swapped(a) ==
  CASE a = NoAnswer -> NotResponse
    [] a = <<0>>    -> "mc_ok"
    [] a = <<-2>>   -> "mc_no_permission"
    [] a = <<-1>>   -> "mc_uuid_exist"
    [] a = <<-255>> -> "mc_syntax_error"
    [] a = <<-300>> -> "mc_session_expired"
    [] OTHER        -> "mc_internal_error"

mc_account_create(a) ==
  CASE a = NoAnswer -> NotResponse
    [] a = <<0>>    -> "mc_ok"
    [] a = <<-1>>   -> "mc_no_permission"
    [] a = <<-2>>   -> "mc_uuid_exist"
    [] a = <<-255>> -> "mc_syntax_error"
    [] a = <<-300>> -> "mc_session_expired"
    [] OTHER        -> "mc_internal_error"

mc_account_modify(a) ==
  CASE a = NoAnswer -> NotResponse
    [] a = <<0>>    -> "mc_ok"
    [] a = <<-1>>   -> "mc_old_pwd_not_correct"
    [] a = <<-255>> -> "mc_syntax_error"
    [] a = <<-300>> -> "mc_session_expired"
    [] OTHER        -> "mc_internal_error"

mc_account_delete(a) ==
  CASE a = NoAnswer -> NotResponse
    [] a = <<0>>    -> "mc_ok"
    [] a = <<-1>>   -> "mc_no_permission"
    [] a = <<-2>>   -> "mc_old_pwd_not_correct"
    [] a = <<-3>>   -> "mc_delete_cannot_be_owner"
    [] a = <<-4>>   -> "mc_uuid_not_exist"
    [] a = <<-255>> -> "mc_syntax_error"
    [] a = <<-300>> -> "mc_session_expired"
    [] OTHER        -> "mc_internal_error"

mc_account_list(a) ==
  CASE a = NoAnswer -> NotResponse
    [] a = <<0>>    -> "mc_ok"
    [] a = <<-1>>   -> "mc_no_permission"
    [] a = <<-255>> -> "mc_syntax_error"
    [] a = <<-300>> -> "mc_session_expired"
    [] OTHER        -> "mc_internal_error"

mc_device_add(a) ==
  CASE a = NoAnswer -> NotResponse
    [] a = <<0>>    -> "mc_ok"
    [] a = <<-1>>   -> "mc_no_permission"
    [] a = <<-2>>   -> "mc_uuid_exist"
    [] a = <<-3>>   -> "mc_workfolder_exist"
    [] a = <<-300>> -> "mc_session_expired"
    [] OTHER        -> "mc_internal_error"

mc_device_del(a) ==
  CASE a = NoAnswer -> NotResponse
    [] a = <<0>>    -> "mc_ok"
    [] a = <<-1>>   -> "mc_no_permission"
    [] a = <<-2>>   -> "mc_uuid_not_exist"
    [] a = <<-300>> -> "mc_session_expired"
    [] OTHER        -> "mc_internal_error"

mc_device_list(a) == mc_account_list(a)

(* The rid of the three play calls goes to the application as it is. *)
mc_play_device(a) == IF a = NoAnswer THEN NotResponse ELSE "mc_ok"
mc_play_stop(a) == mc_play_device(a)
mc_play_touch(a) == mc_play_device(a)

(* Every answer with all four values is taken, whatever its rid. *)
mc_check_version(a) ==
  CASE a = NoAnswer -> NotResponse
    [] a = <<0>>    -> "mc_ok"
    [] OTHER        -> "mc_internal_error"

-----------------------------------------------------------------------------
(* The server: rid, by what came of the request *)

req_account_login ==
  [done |-> 0, bad_password |-> -1, syntax |-> -255]

req_account_create ==
  [done |-> 0, no_permission |-> -1, exists |-> -2, syntax |-> -255,
   internal |-> -256, expired |-> -300]

req_account_modify ==
  [done |-> 0, bad_password |-> -1, syntax |-> -255, internal |-> -256, expired |-> -300]

req_account_delete ==
  [done |-> 0, no_permission |-> -1, bad_password |-> -2, owner |-> -3,
   missing |-> -4, syntax |-> -255, internal |-> -256, expired |-> -300]

req_account_list ==
  [done |-> 0, no_permission |-> -1, internal |-> -256, expired |-> -300]

(* -255 never comes: the client refuses to send an empty value. *)
req_device_create ==
  [done |-> 0, no_permission |-> -1, exists |-> -2, folder |-> -3,
   internal |-> -256, expired |-> -300]

req_device_delete ==
  [done |-> 0, no_permission |-> -1, missing |-> -2, internal |-> -256, expired |-> -300]

(* one entry of the answer for each entry of the list that was read *)
req_device_list ==
  [done |-> 0, no_permission |-> -1, internal |-> -256, expired |-> -300]

(* done: the count of references, which is 1 here; req_play_stop answers 0 *)
(* whatever it is                                                          *)
req_play_device == [done |-> 1, missing |-> -1, expired |-> -300]
req_play_stop == [done |-> 0, missing |-> -1, expired |-> -300]
req_play_touch == [done |-> 1, missing |-> -1, expired |-> -300]

req_version_check == [done |-> 0]

-----------------------------------------------------------------------------

(* The calls that a session is passed to, and mc_check_version *)
Ops == {"create", "modify", "delete", "list", "dev_add", "dev_del", "dev_list",
        "play", "stop", "touch", "version"}

Handler == [create |-> req_account_create, modify |-> req_account_modify,
            delete |-> req_account_delete, list |-> req_account_list,
            dev_add |-> req_device_create, dev_del |-> req_device_delete,
            dev_list |-> req_device_list, play |-> req_play_device,
            stop |-> req_play_stop, touch |-> req_play_touch,
            version |-> req_version_check]

Status(op, a) ==
  CASE op = "create"   -> mc_account_create(a)
    [] op = "modify"   -> mc_account_modify(a)
    [] op = "delete"   -> mc_account_delete(a)
    [] op = "list"     -> mc_account_list(a)
    [] op = "dev_add"  -> mc_device_add(a)
    [] op = "dev_del"  -> mc_device_del(a)
    [] op = "dev_list" -> mc_device_list(a)
    [] op = "play"     -> mc_play_device(a)
    [] op = "stop"     -> mc_play_stop(a)
    [] op = "touch"    -> mc_play_touch(a)
    [] op = "version"  -> mc_check_version(a)

(* The calls that read the session they are given when they begin *)
Reads == {"modify", "delete"}

(* What the status has to say of each outcome. *)
Meaning ==
  [done |-> "mc_ok", no_permission |-> "mc_no_permission", exists |-> "mc_uuid_exist",
   bad_password |-> "mc_old_pwd_not_correct", owner |-> "mc_delete_cannot_be_owner",
   missing |-> "mc_uuid_not_exist", folder |-> "mc_workfolder_exist",
   syntax |-> "mc_syntax_error", internal |-> "mc_internal_error",
   expired |-> "mc_session_expired"]
============================================================================
