------------------------------- MODULE Timer -------------------------------
(***************************************************************************)
(* The timer of common/timer.c: a list of timers and one clock thread that *)
(* waits a tick, brings the list up to date (timer_synchronize) and calls  *)
(* every timer that is due (timer_step).  The server's session clock and   *)
(* the client's heartbeats hang on it.                                     *)
(*                                                                         *)
(* Nothing guards the list: timer_create and timer_del run in other        *)
(* threads, or in a callback, between any two steps of the clock.  Only    *)
(* the clock takes a timer out of the list and frees it; timer_del marks.  *)
(* A timer is the address malloc gave it, so that a freed one comes back.  *)
(* A step on the list is atomic here; a race of list_add_tail with         *)
(* list_del on the same links is left out.                                 *)
(***************************************************************************)
EXTENDS Integers, Sequences

CONSTANTS
  Timers,      \* addresses of timers
  Period,      \* milliseconds of every timer, in ticks
  MaxElapsed   \* bound: ticks that one wait of the clock takes

ASSUME TicksAssumption == Period \in Nat /\ MaxElapsed \in Nat

VARIABLES
  inited,     \* timer_list_inited
  stopSign,   \* timer_stop_sign
  list,       \* timer_list
  remaining,  \* remaining[t]
  deleted,    \* deleted[t]: b_sign_as_deleted
  clock,      \* the clock: where it is, its place in the list, the ticks it waited
  late        \* history, late[t]: callbacks of t begun after timer_del(t)

timerVars == <<inited, stopSign, list, remaining, deleted, clock, late>>

NoClock == [pc |-> "none", at |-> 1, elapsed |-> 0]

TimerInit ==
  /\ inited = FALSE
  /\ stopSign = FALSE
  /\ list = <<>>
  /\ remaining = [t \in Timers |-> 0]
  /\ deleted = [t \in Timers |-> FALSE]
  /\ clock = NoClock
  /\ late = [t \in Timers |-> 0]

Listed == {list[i] : i \in 1..Len(list)}

Here == list[clock.at]     \* the timer the clock is at

AtEnd == clock.at > Len(list)

-----------------------------------------------------------------------------
(* timer_init, timer_create, timer_del, timer_destroy *)

timer_init ==
  IF inited THEN UNCHANGED timerVars
  ELSE /\ inited' = TRUE
       /\ stopSign' = FALSE
       /\ list' = <<>>
       /\ clock' = [NoClock EXCEPT !.pc = "wait"]
       /\ UNCHANGED <<remaining, deleted, late>>

(* malloc gives out t. *)
timer_create(t) ==
  /\ t \notin Listed
  /\ list' = Append(list, t)
  /\ remaining' = [remaining EXCEPT ![t] = Period]
  /\ deleted' = [deleted EXCEPT ![t] = FALSE]
  /\ late' = [late EXCEPT ![t] = 0]
  /\ UNCHANGED <<inited, stopSign, clock>>

(* -1 for a timer that is not listed, and after timer_destroy *)
timer_del(t) ==
  /\ deleted' = IF inited /\ t \in Listed THEN [deleted EXCEPT ![t] = TRUE] ELSE deleted
  /\ UNCHANGED <<inited, stopSign, list, remaining, clock, late>>

(* timer_destroy up to pthread_join *)
DestroySign ==
  /\ inited
  /\ stopSign' = TRUE
  /\ UNCHANGED <<inited, list, remaining, deleted, clock, late>>

(* timer_destroy after it *)
DestroyJoin ==
  /\ clock.pc = "ended"
  /\ clock' = NoClock
  /\ inited' = FALSE
  /\ UNCHANGED <<stopSign, list, remaining, deleted, late>>

-----------------------------------------------------------------------------
(* The clock thread: timer_clock_proc, timer_step, timer_synchronize *)

(***************************************************************************)
(* timer_tick, for any time: the wait may end at once (tv_nsec is not      *)
(* normalised) or late.                                                    *)
(***************************************************************************)
Tick(e) ==
  /\ clock.pc = "wait"
  /\ clock' = [pc |-> "sync", at |-> 1, elapsed |-> e]
  /\ UNCHANGED <<inited, stopSign, list, remaining, deleted, late>>

Without(i) == SubSeq(list, 1, i - 1) \o SubSeq(list, i + 1, Len(list))

Less(m, n) == IF m > n THEN m - n ELSE 0

(* Mutant of SyncVisit: a timer signed as deleted is kept. *)
SyncVisitKeeps ==
  /\ clock.pc = "sync" /\ ~AtEnd
  /\ remaining' = [remaining EXCEPT ![Here] = Less(@, clock.elapsed)]
  /\ clock' = [clock EXCEPT !.at = @ + 1]
  /\ UNCHANGED <<inited, stopSign, list, deleted, late>>

(* Mutant of SyncVisit: the time that went by is not taken off. *)
SyncVisitStill ==
  /\ clock.pc = "sync" /\ ~AtEnd
  /\ IF deleted[Here] \/ stopSign
     THEN list' = Without(clock.at) /\ UNCHANGED clock
     ELSE clock' = [clock EXCEPT !.at = @ + 1] /\ UNCHANGED list
  /\ UNCHANGED <<inited, stopSign, remaining, deleted, late>>

(* timer_synchronize at one timer *)
SyncVisit ==
  /\ clock.pc = "sync" /\ ~AtEnd
  /\ IF deleted[Here] \/ stopSign
     THEN list' = Without(clock.at) /\ UNCHANGED <<remaining, clock>>
     ELSE /\ remaining' = [remaining EXCEPT ![Here] = Less(@, clock.elapsed)]
          /\ clock' = [clock EXCEPT !.at = @ + 1]
          /\ UNCHANGED list
  /\ UNCHANGED <<inited, stopSign, deleted, late>>

SyncEnd ==
  /\ clock.pc = "sync" /\ AtEnd
  /\ clock' = [NoClock EXCEPT !.pc = IF stopSign THEN "ended" ELSE "walk"]
  /\ UNCHANGED <<inited, stopSign, list, remaining, deleted, late>>

(* timer_step at one timer: its callback begins if it is due, deleted or not *)
Fire ==
  /\ clock.pc = "walk" /\ ~AtEnd /\ remaining[Here] = 0
  /\ clock' = [clock EXCEPT !.pc = "call"]
  /\ late' = IF deleted[Here] THEN [late EXCEPT ![Here] = @ + 1] ELSE late
  /\ UNCHANGED <<inited, stopSign, list, remaining, deleted>>

Skip ==
  /\ clock.pc = "walk" /\ ~AtEnd /\ remaining[Here] # 0
  /\ clock' = [clock EXCEPT !.at = @ + 1]
  /\ UNCHANGED <<inited, stopSign, list, remaining, deleted, late>>

(* The callback returns with *b_abort_clock. *)
Returned(abort) ==
  /\ clock.pc = "call"
  /\ deleted' = IF abort THEN [deleted EXCEPT ![Here] = TRUE] ELSE deleted
  /\ remaining' = IF abort THEN remaining ELSE [remaining EXCEPT ![Here] = Period]
  /\ clock' = [clock EXCEPT !.pc = "walk", !.at = @ + 1]
  /\ UNCHANGED <<inited, stopSign, list, late>>

WalkEnd ==
  /\ clock.pc = "walk" /\ AtEnd
  /\ clock' = [NoClock EXCEPT !.pc = "wait"]
  /\ UNCHANGED <<inited, stopSign, list, remaining, deleted, late>>

(* The clock outside of callbacks *)
Clock ==
  \/ \E e \in 0..MaxElapsed : Tick(e)
  \/ SyncVisit \/ SyncEnd \/ Fire \/ Skip \/ WalkEnd

-----------------------------------------------------------------------------

TimerTypeOK ==
  /\ inited \in BOOLEAN /\ stopSign \in BOOLEAN
  /\ list \in Seq(Timers)
  /\ remaining \in [Timers -> 0..Period]
  /\ deleted \in [Timers -> BOOLEAN]
  /\ clock \in [pc : {"none", "wait", "sync", "walk", "call", "ended"},
                at : Nat \ {0}, elapsed : 0..MaxElapsed]
  /\ late \in [Timers -> Nat]

(***************************************************************************)
(* Once timer_del has marked a timer its callback begins at most once      *)
(* more: in the walk that is under way, never in a later one.              *)
(***************************************************************************)
OneLateCallback == \A t \in Timers : late[t] <= 1
============================================================================
