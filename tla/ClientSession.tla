--------------------------- MODULE ClientSession ---------------------------
(***************************************************************************)
(* A client of client/media_api*.c: an application thread that connects,   *)
(* logs in, calls, logs out and disconnects, and the timer's clock, which  *)
(* sends a heartbeat for every login (heartbeart_timer_clock).  A session  *)
(* is the block that mc_account_login allocates; both threads free it.     *)
(*                                                                         *)
(* The application keeps to the API: it logs in when it has no session,    *)
(* makes its other calls with the session it has, and disconnects after    *)
(* a connect.  It gets the answer to its own request or none (RpcRequest   *)
(* says when).  Assertions are not compiled in.                            *)
(***************************************************************************)
EXTENDS Timer, ClientApi

CONSTANTS
  Sessions,   \* addresses of sessions
  None        \* no session: a NULL pointer

ASSUME AddressesAssumption == None \notin Sessions /\ Timers # {}

VARIABLES
  app,       \* the application's thread: "out", the call it is in, or "crash"
             \* after either thread used a session that was freed
  held,      \* the session the application has
  live,      \* sessions that are allocated
  timerOf,   \* timerOf[s]: session->auto_heartbeat
  userdata,  \* userdata[t]: the session timer t was created with
  beat,      \* the callback of the timer at the clock: what it does next
  conn,      \* the connection: "none", "up", or "lost", and no answer comes
  server,    \* the server has a session for this connection
  misled     \* a status did not say what came of the request (history)

clientVars == <<app, held, live, timerOf, userdata, beat, conn, server, misled>>
apiVars == <<timerVars, clientVars>>

up == conn = "up"

ClientInit ==
  /\ TimerInit
  /\ app = "out" /\ held = None /\ live = {}
  /\ timerOf = [s \in Sessions |-> CHOOSE t \in Timers : TRUE]
  /\ userdata = [t \in Timers |-> None]
  /\ beat = "heartbeat"
  /\ conn = "none" /\ server = FALSE
  /\ misled = FALSE

-----------------------------------------------------------------------------
(* The connection *)

(* mc_connect_to_server: mc_env_init, then rpc_client_start, which may fail *)
Connect ==
  /\ app = "out" /\ conn = "none"
  /\ timer_init
  /\ conn' \in {"up", "none"}
  /\ UNCHANGED <<app, held, live, timerOf, userdata, beat, server, misled>>

(* mc_disconnect: mc_env_destroy with rpc_client_stop and timer_destroy.    *)
(* Sessions that are left are never freed and never used.                   *)
Disconnect ==
  /\ app = "out" /\ conn # "none"
  /\ DestroySign
  /\ app' = "disconnect" /\ conn' = "none" /\ held' = None
  /\ UNCHANGED <<live, timerOf, userdata, beat, server, misled>>

Disconnected ==
  /\ app = "disconnect"
  /\ DestroyJoin
  /\ app' = "out" /\ live' = {}
  /\ UNCHANGED <<held, timerOf, userdata, beat, conn, server, misled>>

(* The receiving thread ends: the server closed the connection. *)
Lose ==
  /\ up /\ conn' = "lost"
  /\ UNCHANGED <<timerVars, app, held, live, timerOf, userdata, beat, server, misled>>

(* The server forgets the session: it expired, or another login took over. *)
Expire ==
  /\ server /\ server' = FALSE
  /\ UNCHANGED <<timerVars, app, held, live, timerOf, userdata, beat, conn, misled>>

-----------------------------------------------------------------------------
(* What the server makes of a request *)

(* The answers to a request with outcome o, by the table rid; none arrives  *)
(* if the time runs out or the connection is gone.                          *)
Answers(o, rid) == {NoAnswer} \cup (IF up THEN {<<rid[o]>>} ELSE {})

(* The outcomes of op, by whether there is a session *)
Outcomes(op) ==
  CASE op = "version" -> {"done"}
    [] server         -> (DOMAIN Handler[op]) \ {"expired"}
    [] OTHER          -> {"expired"}

(* A call returns status; right is what it should say if there was an answer. *)
Tell(status, right) == misled' = (misled \/ status \notin {NotResponse, right})

(* rid of req_heartbeat and of req_account_logout *)
SessionRid == IF server THEN <<0>> ELSE <<-300>>

-----------------------------------------------------------------------------
(* The application *)

(* Undefined behaviour: both threads stop. *)
Undefined ==
  /\ app' = "crash" /\ clock' = NoClock
  /\ UNCHANGED <<inited, stopSign, list, remaining, deleted, late, held, live, timerOf, userdata, beat, conn, server, misled>>

LoginBegin ==
  /\ app = "out" /\ conn # "none" /\ held = None
  /\ app' = "login"
  /\ UNCHANGED <<timerVars, held, live, timerOf, userdata, beat, conn, server, misled>>

(* The end of mc_account_login.  A login that got no answer may have been   *)
(* carried out.                                                             *)
LoginOk(s, t) ==
  /\ app = "login" /\ up /\ s \in Sessions \ live
  /\ mc_account_login(<<req_account_login.done>>) = "mc_ok"
  /\ timer_create(t)
  /\ timerOf' = [timerOf EXCEPT ![s] = t]
  /\ userdata' = [userdata EXCEPT ![t] = s]
  /\ live' = live \cup {s} /\ held' = s
  /\ server' = TRUE /\ app' = "out"
  /\ UNCHANGED <<beat, conn, misled>>

LoginFail ==
  /\ app = "login"
  /\ \E o \in DOMAIN req_account_login \ {"done"} : \E a \in Answers(o, req_account_login) :
       Tell(mc_account_login(a), IF o = "bad_password" THEN "mc_invalid_uuid_or_pwd"
                                                       ELSE Meaning[o])
  /\ server' \in IF up THEN {server, TRUE} ELSE {server}
  /\ app' = "out"
  /\ UNCHANGED <<timerVars, held, live, timerOf, userdata, beat, conn>>

(* mc_account_logout up to its request: the mark on the timer, then xfree *)
Release(s) ==
  /\ s \in live
  /\ timer_del(timerOf[s])
  /\ live' = live \ {s}

LogoutBegin ==
  /\ app = "out" /\ held # None
  /\ \/ Release(held) /\ app' = "logout" /\ held' = None
        /\ UNCHANGED <<timerOf, userdata, beat, conn, server, misled>>
     \/ held \notin live /\ Undefined

(* A request that got no answer may have been carried out or not. *)
LogoutEnd ==
  /\ app = "logout"
  /\ \/ up /\ server' = FALSE
        /\ Tell(mc_account_logout(SessionRid), Meaning[IF server THEN "done" ELSE "expired"])
     \/ server' \in (IF up THEN {server, FALSE} ELSE {server}) /\ UNCHANGED misled
  /\ app' = "out"
  /\ UNCHANGED <<timerVars, held, live, timerOf, userdata, beat, conn>>

(***************************************************************************)
(* The other calls.  mc_account_modify and mc_account_delete look into the *)
(* session at once, mc_account_list for each entry of its answer, the      *)
(* others only test that there is one.                                     *)
(***************************************************************************)
CallBegin(op) ==
  /\ app = "out" /\ conn # "none" /\ (held # None \/ op = "version")
  /\ \/ op \in Reads /\ held \notin live /\ Undefined
     \/ /\ op \in Reads => held \in live
        /\ app' = "call"
        /\ UNCHANGED <<timerVars, held, live, timerOf, userdata, beat, conn, server, misled>>

(* The status of a play call says nothing: it passes the rid on. *)
CallEnd(op) ==
  /\ app = "call" /\ (held # None \/ op = "version")
  /\ \E o \in Outcomes(op) : \E a \in Answers(o, Handler[op]) :
       \/ op = "list" /\ a = <<0>> /\ held \notin live /\ Undefined
       \/ /\ (op = "list" /\ a = <<0>>) => held \in live
          /\ IF op \in {"play", "stop", "touch"} THEN UNCHANGED misled ELSE Tell(Status(op, a), Meaning[o])
          /\ app' = "out"
          /\ UNCHANGED <<timerVars, held, live, timerOf, userdata, beat, conn, server>>

-----------------------------------------------------------------------------
(* heartbeart_timer_clock, while the clock is in the callback *)

BeatOk ==
  /\ clock.pc = "call" /\ beat = "heartbeat"
  /\ up /\ mc_heartbeat(SessionRid) = "mc_ok"
  /\ Returned(FALSE)
  /\ UNCHANGED clientVars

(* Mutant of BeatBad: the callback gives up without mc_account_logout. *)
BeatBadKeeps ==
  /\ clock.pc = "call" /\ beat = "heartbeat"
  /\ ~up \/ mc_heartbeat(SessionRid) # "mc_ok"
  /\ Returned(TRUE)
  /\ UNCHANGED clientVars

(* No answer, or no session at the server: log out. *)
BeatBad ==
  /\ clock.pc = "call" /\ beat = "heartbeat"
  /\ \E a \in {NoAnswer} \cup (IF up THEN {SessionRid} ELSE {}) : mc_heartbeat(a) # "mc_ok"
  /\ beat' = "release"
  /\ UNCHANGED <<timerVars, app, held, live, timerOf, userdata, conn, server, misled>>

(* The application's pointer is not this one, and stays. *)
BeatRelease ==
  /\ clock.pc = "call" /\ beat = "release"
  /\ \/ Release(userdata[Here]) /\ beat' = "logout"
        /\ UNCHANGED <<app, held, timerOf, userdata, conn, server, misled>>
     \/ userdata[Here] \notin live /\ Undefined

BeatLogout ==
  /\ clock.pc = "call" /\ beat = "logout"
  /\ Returned(TRUE)
  /\ beat' = "heartbeat"
  /\ server' \in IF up THEN {server, FALSE} ELSE {server}
  /\ UNCHANGED <<app, held, live, timerOf, userdata, conn, misled>>

-----------------------------------------------------------------------------

TheClock == Clock /\ UNCHANGED clientVars

Callback == BeatOk \/ BeatBad \/ BeatRelease \/ BeatLogout

(* Calls end by themselves, at the latest with their timeout. *)
CallReturns ==
  \/ Disconnected \/ LogoutEnd \/ LoginFail
  \/ \E s \in Sessions, t \in Timers : LoginOk(s, t)
  \/ \E op \in Ops : CallEnd(op)

ClientNext ==
  \/ TheClock \/ Callback \/ CallReturns
  \/ Connect \/ Disconnect \/ LoginBegin \/ LogoutBegin
  \/ \E op \in Ops : CallBegin(op)
  \/ Expire \/ Lose

ClientSpec == ClientInit /\ [][ClientNext]_apiVars

(* Time passes: waits that last come again and again. *)
TimePasses == \E e \in 1..MaxElapsed : Tick(e) /\ UNCHANGED clientVars

ClientFairness ==
  /\ WF_apiVars(TheClock) /\ WF_apiVars(Callback)
  /\ WF_apiVars(CallReturns)
  /\ SF_apiVars(TimePasses)

-----------------------------------------------------------------------------

(* The type of the client's state. *)
ClientTypeOK ==
  /\ TimerTypeOK
  /\ app \in {"out", "disconnect", "login", "logout", "call", "crash"}
  /\ held \in Sessions \cup {None} /\ live \subseteq Sessions
  /\ timerOf \in [Sessions -> Timers] /\ userdata \in [Timers -> Sessions \cup {None}]
  /\ beat \in {"heartbeat", "release", "logout"}
  /\ conn \in {"none", "up", "lost"} /\ {server, misled} \subseteq BOOLEAN

(***************************************************************************)
(* A session that was not freed has its own heartbeat timer, listed and    *)
(* not marked, whatever callbacks of former sessions at the same address   *)
(* did; it ends only with the session or with mc_disconnect.               *)
(***************************************************************************)
HeartbeatKept ==
  ~stopSign => \A s \in live : LET t == timerOf[s] IN
                 t \in Listed /\ ~deleted[t] /\ userdata[t] = s

(***************************************************************************)
(* The status of a call says what the server made of the request, or that  *)
(* there was no answer: the two tables of numbers agree.                   *)
(***************************************************************************)
StatusMeans == ~misled

(***************************************************************************)
(* As long as a session lives and the client is not disconnected, another  *)
(* heartbeat is sent for it, although one slow or unanswered heartbeat     *)
(* holds up all the others.                                                *)
(***************************************************************************)
HeartbeatAgain ==
  \A s \in Sessions :
    (s \in live) ~> \/ clock.pc = "call" /\ userdata[Here] = s
                    \/ s \notin live \/ stopSign \/ app = "crash"

(***************************************************************************)
(* The session that mc_account_login returned is the application's until   *)
(* it frees it with mc_account_logout (media_api.h): no thread uses a      *)
(* session that was freed.                                                 *)
(***************************************************************************)
NoFreedSession == app # "crash"
============================================================================
