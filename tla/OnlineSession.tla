--------------------------- MODULE OnlineSession ---------------------------
(***************************************************************************)
(* The online sessions of the service (service/service_session.c) with the *)
(* request handlers that use them (service/service_req_*.c), the heartbeat *)
(* clock and the service's shutdown.                                       *)
(*                                                                         *)
(* Handlers run on the processor threads of the RPC pool, the heartbeat    *)
(* check on the timer thread, online_session_destroy on the main thread.   *)
(* None of them locks session_list.  One walk of the list up to the next   *)
(* session it acts on is one action here: the pointer races inside of a    *)
(* walk are left out, what remains is what goes wrong between two calls.   *)
(* pref_release returns when the count is zero (its lost wakeup is the     *)
(* subject of module Pref).  service_push, called for an evicted session,  *)
(* is an empty stub.                                                       *)
(***************************************************************************)
EXTENDS Naturals, Sequences, FiniteSets

CONSTANTS
  Processors,   \* threads of the pool that run handlers
  Fds,          \* connections
  Accounts,     \* accounts that log in; a login names one by its uuid alone
  Kinds,        \* the kinds of request that arrive besides login
  MaxLogins,    \* bound: number of sessions ever created
  MaxRefs       \* bound: references to one session

(***************************************************************************)
(* What the handlers do with a session after online_session_ref:           *)
(*   query      use it, dref (account create/modify/delete/list, device    *)
(*              list, and device create/delete by one who is no admin)     *)
(*   device     dref, then use its uuid (device create/delete)             *)
(*   heartbeat  dref, then set is_heartbeated                              *)
(*   logout     dref, then online_session_del                              *)
(*   play       use it and return without dref (play, stop, touch)         *)
(***************************************************************************)
AllKinds == {"query", "device", "heartbeat", "logout", "play"}

ASSUME KindsAssumption == Kinds \subseteq AllKinds
ASSUME ProcessorsAssumption == IsFiniteSet(Processors)
ASSUME BoundsAssumption == MaxLogins \in Nat /\ MaxRefs \in Nat
ASSUME NoneAssumption == "none" \notin Fds \cup Accounts

Sids == 1..MaxLogins    \* sessions, numbered in the order they are created
NoSid == 0
None == "none"

VARIABLES
  list,    \* session_list: the sessions in it, in order
  nsid,    \* sessions created so far
  addr,    \* session.net.fd of each session
  acct,    \* session.basic.uuid
  hb,      \* session.net.is_heartbeated
  marked,  \* b_mark_deleted
  rc,      \* the session's pref count
  life,    \* "unborn" | "listed" | "removed" | "freed"
  proc,    \* the processors: the handler each one runs, and where it is
  tsid,    \* the session whose release the timer thread waits for
  mpc,     \* the main thread: "running" | "destroying" | "done"
  msid     \* the session whose release online_session_destroy waits for

attrVars == <<addr, acct, marked>>
sessVars == <<list, nsid, attrVars, hb, rc, life>>
mainVars == <<mpc, msid>>
vars == <<sessVars, proc, tsid, mainVars>>

(* A processor between two requests. *)
Idle == [pc |-> "idle", kind |-> None, fd |-> None, acct |-> None, sid |-> NoSid]

Init ==
  /\ list = <<>>
  /\ nsid = 0
  /\ addr = [s \in Sids |-> None]
  /\ acct = [s \in Sids |-> None]
  /\ hb = [s \in Sids |-> FALSE]
  /\ marked = [s \in Sids |-> FALSE]
  /\ rc = [s \in Sids |-> 0]
  /\ life = [s \in Sids |-> "unborn"]
  /\ proc = [p \in Processors |-> Idle]
  /\ tsid = NoSid
  /\ mpc = "running" /\ msid = NoSid

Listed(s) == \E i \in 1..Len(list) : list[i] = s

(* i is the first position of the list that satisfies P. *)
First(i, P(_)) ==
  /\ i \in 1..Len(list) /\ P(list[i])
  /\ \A j \in 1..(i - 1) : ~P(list[j])

OnFd(f, s) == addr[s] = f

(* The session at position i is taken out of the list (list_del). *)
Unlink(i) ==
  /\ list' = [j \in 1..(Len(list) - 1) |-> IF j < i THEN list[j] ELSE list[j + 1]]
  /\ life' = [life EXCEPT ![list[i]] = "removed"]

(* Mutant of Released: the count is not waited for. *)
ReleasedAtOnce(s) == TRUE

(* pref_release returns. *)
Released(s) == rc[s] = 0

(* xfree: what the session held is gone. *)
Free(s) ==
  /\ life' = [life EXCEPT ![s] = "freed"]
  /\ addr' = [addr EXCEPT ![s] = None]
  /\ acct' = [acct EXCEPT ![s] = None]
  /\ hb' = [hb EXCEPT ![s] = FALSE]
  /\ marked' = [marked EXCEPT ![s] = FALSE]
  /\ UNCHANGED <<list, nsid, rc>>

-----------------------------------------------------------------------------
(* req_account_login and online_session_add *)

Login(p, f, a) ==
  /\ mpc = "running" /\ proc[p].pc = "idle"
  /\ proc' = [proc EXCEPT ![p] = [Idle EXCEPT !.pc = "scanning", !.fd = f, !.acct = a]]
  /\ UNCHANGED <<sessVars, tsid, mainVars>>

(* Mutant of Conflict: the address test is forgotten. *)
ConflictAccountOnly(p, s) == acct[s] = proc[p].acct

(* The same account, or another one on the same connection. *)
Conflict(p, s) == acct[s] = proc[p].acct \/ OnFd(proc[p].fd, s)

(***************************************************************************)
(* The next session in conflict is unlinked; its release is waited for.    *)
(* The walk goes on behind it: what is before it was no conflict, and the  *)
(* addresses and accounts of listed sessions never change.                 *)
(***************************************************************************)
AddRemove(p) ==
  /\ proc[p].pc = "scanning"
  /\ \E i \in 1..Len(list) :
       /\ First(i, LAMBDA s : Conflict(p, s))
       /\ Unlink(i)
       /\ proc' = [proc EXCEPT ![p].pc = "releasing", ![p].sid = list[i]]
  /\ UNCHANGED <<nsid, attrVars, hb, rc, tsid, mainVars>>

AddFree(p) ==
  /\ proc[p].pc = "releasing" /\ Released(proc[p].sid)
  /\ Free(proc[p].sid)
  /\ proc' = [proc EXCEPT ![p].pc = "scanning", ![p].sid = NoSid]
  /\ UNCHANGED <<tsid, mainVars>>

AddScanned(p) ==
  /\ proc[p].pc = "scanning"
  /\ \A i \in 1..Len(list) : ~Conflict(p, list[i])
  /\ proc' = [proc EXCEPT ![p].pc = "appending"]
  /\ UNCHANGED <<sessVars, tsid, mainVars>>

AddAppend(p) ==
  /\ proc[p].pc = "appending" /\ nsid < MaxLogins
  /\ nsid' = nsid + 1
  /\ list' = Append(list, nsid + 1)
  /\ addr' = [addr EXCEPT ![nsid + 1] = proc[p].fd]
  /\ acct' = [acct EXCEPT ![nsid + 1] = proc[p].acct]
  /\ hb' = [hb EXCEPT ![nsid + 1] = TRUE]
  /\ life' = [life EXCEPT ![nsid + 1] = "listed"]
  /\ proc' = [proc EXCEPT ![p] = Idle]
  /\ UNCHANGED <<marked, rc, tsid, mainVars>>

-----------------------------------------------------------------------------
(* The other handlers.  A request on a connection without session is       *)
(* answered -300 and changes nothing.                                      *)

(* online_session_ref: the first session of the connection, marked as      *)
(* deleted or not.                                                         *)
Ref(p, k, f) ==
  /\ mpc = "running" /\ proc[p].pc = "idle"
  /\ \E i \in 1..Len(list) :
       /\ First(i, LAMBDA s : OnFd(f, s))
       /\ rc[list[i]] < MaxRefs
       /\ rc' = [rc EXCEPT ![list[i]] = @ + 1]
       /\ proc' = [proc EXCEPT ![p] =
            [pc |-> "holding", kind |-> k, fd |-> f, acct |-> None, sid |-> list[i]]]
  /\ UNCHANGED <<list, nsid, attrVars, hb, life, tsid, mainVars>>

(* online_session_dref: it searches the list for the session, and does     *)
(* nothing (assert(r) aside) when the session is no longer in it.          *)
Dref(p) ==
  /\ proc[p].pc = "holding" /\ proc[p].kind # "play"
  /\ rc' = IF Listed(proc[p].sid) THEN [rc EXCEPT ![proc[p].sid] = @ - 1] ELSE rc
  /\ proc' = IF proc[p].kind = "query" THEN [proc EXCEPT ![p] = Idle]
                                       ELSE [proc EXCEPT ![p].pc = "after"]
  /\ UNCHANGED <<list, nsid, attrVars, hb, life, tsid, mainVars>>

(* The play handlers return without online_session_dref. *)
PlayReturn(p) ==
  /\ proc[p].pc = "holding" /\ proc[p].kind = "play"
  /\ proc' = [proc EXCEPT ![p] = Idle]
  /\ UNCHANGED <<sessVars, tsid, mainVars>>

(* req_heartbeat writes the flag after dref; into freed memory it is lost. *)
Beat(p) ==
  /\ proc[p].pc = "after" /\ proc[p].kind = "heartbeat"
  /\ hb' = [hb EXCEPT ![proc[p].sid] = life[proc[p].sid] # "freed"]
  /\ proc' = [proc EXCEPT ![p] = Idle]
  /\ UNCHANGED <<list, nsid, attrVars, rc, life, tsid, mainVars>>

(* online_session_del marks the first session of the connection. *)
Mark(p) ==
  /\ proc[p].pc = "after" /\ proc[p].kind = "logout"
  /\ marked' = [s \in Sids |->
       \/ marked[s]
       \/ \E i \in 1..Len(list) :
            list[i] = s /\ First(i, LAMBDA t : OnFd(proc[p].fd, t))]
  /\ proc' = [proc EXCEPT ![p] = Idle]
  /\ UNCHANGED <<list, nsid, addr, acct, hb, rc, life, tsid, mainVars>>

(* The device handlers go on with the uuid inside of the session. *)
UseUuid(p) ==
  /\ proc[p].pc = "after" /\ proc[p].kind = "device"
  /\ proc' = [proc EXCEPT ![p] = Idle]
  /\ UNCHANGED <<sessVars, tsid, mainVars>>

-----------------------------------------------------------------------------
(* online_session_check_all_hearbeat, on the timer thread.  It is called   *)
(* every session_expire_time and stops at once when session_stop_sign is   *)
(* set.                                                                    *)

Expired(s) == ~hb[s] \/ marked[s]

(* Mutant of TickRemove: only a silent session at the head is removed. *)
TickRemoveHead ==
  /\ tsid = NoSid /\ mpc = "running"
  /\ list # <<>> /\ Expired(list[1])
  /\ Unlink(1)
  /\ tsid' = list[1]
  /\ UNCHANGED <<nsid, attrVars, hb, rc, proc, mainVars>>

(* The walk stops at the first session to delete; those before it start a  *)
(* new period.                                                             *)
TickRemove ==
  /\ tsid = NoSid /\ mpc = "running"
  /\ \E i \in 1..Len(list) :
       /\ First(i, Expired)
       /\ Unlink(i)
       /\ tsid' = list[i]
       /\ hb' = [s \in Sids |-> hb[s] /\ \A j \in 1..(i - 1) : list[j] # s]
  /\ UNCHANGED <<nsid, attrVars, rc, proc, mainVars>>

TickAll ==
  /\ tsid = NoSid /\ mpc = "running"
  /\ \A i \in 1..Len(list) : ~Expired(list[i])
  /\ hb' = [s \in Sids |-> hb[s] /\ ~Listed(s)]
  /\ UNCHANGED <<list, nsid, attrVars, rc, life, proc, tsid, mainVars>>

TickFree ==
  /\ tsid # NoSid /\ Released(tsid)
  /\ Free(tsid)
  /\ tsid' = NoSid
  /\ UNCHANGED <<proc, mainVars>>

-----------------------------------------------------------------------------
(* online_session_destroy; rpc_service_stop has joined the processors       *)

DestroyStart ==
  /\ mpc = "running"
  /\ \A p \in Processors : proc[p].pc = "idle"
  /\ mpc' = "destroying"
  /\ UNCHANGED <<sessVars, proc, tsid, msid>>

DestroyRemove ==
  /\ mpc = "destroying" /\ msid = NoSid /\ list # <<>>
  /\ Unlink(1)
  /\ msid' = list[1]
  /\ UNCHANGED <<nsid, attrVars, hb, rc, proc, tsid, mpc>>

DestroyFree ==
  /\ msid # NoSid /\ Released(msid)
  /\ Free(msid)
  /\ msid' = NoSid
  /\ UNCHANGED <<proc, tsid, mpc>>

DestroyDone ==
  /\ mpc = "destroying" /\ msid = NoSid /\ list = <<>>
  /\ mpc' = "done"
  /\ UNCHANGED <<sessVars, proc, tsid, msid>>

-----------------------------------------------------------------------------

Handler(p) ==
  \/ AddRemove(p) \/ AddFree(p) \/ AddScanned(p) \/ AddAppend(p)
  \/ Dref(p) \/ PlayReturn(p) \/ Beat(p) \/ Mark(p) \/ UseUuid(p)

Request(p) ==
  \/ \E f \in Fds, a \in Accounts : Login(p, f, a)
  \/ \E f \in Fds, k \in Kinds : Ref(p, k, f)

Tick == TickRemove \/ TickAll \/ TickFree

Destroy == DestroyStart \/ DestroyRemove \/ DestroyFree \/ DestroyDone

Next ==
  \/ \E p \in Processors : Request(p) \/ Handler(p)
  \/ Tick
  \/ Destroy

(***************************************************************************)
(* Fairness: handlers that have begun go on and the clock keeps ticking    *)
(* (timer_create with session_expire_time).  Requests and shutdown need    *)
(* not come.                                                               *)
(***************************************************************************)
Fairness ==
  /\ \A p \in Processors : WF_vars(Handler(p))
  /\ WF_vars(Tick)

Spec == Init /\ [][Next]_vars

FairSpec == Spec /\ Fairness

-----------------------------------------------------------------------------

Handlers ==
  [pc : {"idle", "scanning", "releasing", "appending", "holding", "after"},
   kind : AllKinds \cup {None},
   fd : Fds \cup {None},
   acct : Accounts \cup {None},
   sid : Sids \cup {NoSid}]

(* The type of the session table and of the threads. *)
TypeOK ==
  /\ list \in Seq(Sids)
  /\ nsid \in 0..MaxLogins
  /\ addr \in [Sids -> Fds \cup {None}]
  /\ acct \in [Sids -> Accounts \cup {None}]
  /\ hb \in [Sids -> BOOLEAN]
  /\ marked \in [Sids -> BOOLEAN]
  /\ rc \in [Sids -> 0..MaxRefs]
  /\ life \in [Sids -> {"unborn", "listed", "removed", "freed"}]
  /\ proc \in [Processors -> Handlers]
  /\ tsid \in Sids \cup {NoSid}
  /\ mpc \in {"running", "destroying", "done"}
  /\ msid \in Sids \cup {NoSid}

Holders(s) == {p \in Processors : proc[p].pc = "holding" /\ proc[p].sid = s}

(***************************************************************************)
(* A session a handler holds a reference to is never freed, whichever of   *)
(* the timer, another login or the shutdown removed it meanwhile           *)
(* (pref_release before every xfree of service_session.c).                 *)
(***************************************************************************)
HeldNotFreed ==
  \A p \in Processors : proc[p].pc = "holding" => life[proc[p].sid] # "freed"

Removing(p, s) == proc[p].pc = "releasing" /\ proc[p].sid = s

(* No session is waited for by two threads. *)
RemoversDiffer ==
  /\ \A p, q \in Processors, s \in Sids : Removing(p, s) /\ Removing(q, s) => p = q
  /\ \A p \in Processors, s \in Sids : Removing(p, s) => s # tsid /\ s # msid
  /\ tsid = msid => tsid = NoSid

(* The sessions that are removed are those a thread waits for. *)
RemovedOwned ==
  \A s \in Sids :
    life[s] = "removed"
      <=> (s = tsid \/ s = msid \/ \E p \in Processors : Removing(p, s))

(***************************************************************************)
(* Login, clock and shutdown never remove the same session: one that is    *)
(* removed has exactly one thread that will free it, any other has none,   *)
(* so no session is leaked or freed twice.                                 *)
(***************************************************************************)
OneRemover == RemoversDiffer /\ RemovedOwned

(***************************************************************************)
(* online_session_add leaves no two sessions of one account or connection. *)
(* It holds while one processor handles logins.                            *)
(***************************************************************************)
SessionsDistinct ==
  \A i, j \in 1..Len(list) :
    i # j => acct[list[i]] # acct[list[j]] /\ addr[list[i]] # addr[list[j]]

(* The timer thread waits for a reference. *)
TimerStuck == tsid # NoSid /\ ~Released(tsid)

(***************************************************************************)
(* A session that logged out or that is silent leaves the list, unless it  *)
(* is heard again or the timer thread is stuck; the walk removes one       *)
(* session per tick and none is starved.                                   *)
(***************************************************************************)
ExpiredLeaves ==
  \A s \in Sids :
    (Listed(s) /\ Expired(s))
      ~> (~Listed(s) \/ ~Expired(s) \/ TimerStuck \/ mpc # "running")

(***************************************************************************)
(* "you must manual call online_session_dref when no more used"            *)
(* (service_session.h:32), read as a promise of the handlers: a session is *)
(* used between ref and dref, so never when it is freed.                   *)
(***************************************************************************)
NoUseAfterFree ==
  \A p \in Processors :
    (proc[p].pc = "after" /\ proc[p].kind \in {"heartbeat", "device"})
      => life[proc[p].sid] # "freed"

(***************************************************************************)
(* "session will be automate expired in 30 seconds"                        *)
(* (service_session.c:112): a session that is silent leaves the list,      *)
(* unless it is heard again, with no help from the other sessions.         *)
(***************************************************************************)
SilentExpires ==
  \A s \in Sids :
    (Listed(s) /\ ~hb[s]) ~> (~Listed(s) \/ hb[s] \/ mpc # "running")

-----------------------------------------------------------------------------
(* The inductive invariant *)

(* The list holds each listed session once and no other. *)
ListSound ==
  /\ \A i \in 1..Len(list) : life[list[i]] = "listed"
  /\ \A i, j \in 1..Len(list) : list[i] = list[j] => i = j

UnbornAhead == \A s \in Sids : s > nsid => life[s] = "unborn"

(* A handler past its search of the list has a session. *)
SidKnown ==
  \A p \in Processors :
    proc[p].pc \in {"releasing", "holding", "after"} => proc[p].sid \in Sids

(* The count never falls below the number of handlers that hold. *)
CountCovers == \A s \in Sids : Cardinality(Holders(s)) <= rc[s]

(* The strengthening the proofs of OnlineSessionProofs rest on. *)
IInv ==
  /\ TypeOK /\ ListSound /\ UnbornAhead /\ SidKnown /\ CountCovers
  /\ HeldNotFreed /\ OneRemover
=============================================================================
