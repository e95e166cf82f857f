----------------------------- MODULE MCService -----------------------------
(***************************************************************************)
(* Pref, DeviceSession, Service and DayHours side by side for TLC.  They   *)
(* have no state in common: a behaviour is about one of them, which part   *)
(* says, and leaves the others as they began, where none of the steps is   *)
(* possible that the others' fairness asks for.                            *)
(***************************************************************************)
EXTENDS Pref, DeviceSession, Service, DayHours

VARIABLE part

allVars == <<part, vars, deviceVars, serviceVars, weekVars>>

-----------------------------------------------------------------------------

InitAll ==
  /\ part \in {"pref", "device", "service", "week"}
  /\ Init /\ DeviceInit /\ ServiceInit
  /\ WeekInit /\ (part # "week" => weekday = {})

NextAll ==
  \/ part = "pref" /\ Next /\ UNCHANGED <<part, deviceVars, serviceVars, weekVars>>
  \/ part = "device" /\ DeviceNext /\ UNCHANGED <<part, vars, serviceVars, weekVars>>
  \/ part = "service" /\ ServiceNext /\ UNCHANGED <<part, vars, deviceVars, weekVars>>
  \/ part = "week" /\ WeekNext /\ UNCHANGED <<part, vars, deviceVars, serviceVars>>

SpecAll ==
  /\ InitAll /\ [][NextAll]_allVars
  /\ DeviceFairness /\ ServiceFairness
============================================================================
