------------------------------ MODULE DayHours ------------------------------
(***************************************************************************)
(* service/record/day_hours_set.c: the hours of a week in which a device   *)
(* is recorded, an array of seven times 24 characters, and its text for    *)
(* the database.  A call outside of the week is to be refused; the test of *)
(* the hour looks at the day instead, so that some are carried out: they   *)
(* touch an hour of another day or memory next to the array.               *)
(***************************************************************************)
EXTENDS Integers

CONSTANTS
  Weekdays,   \* days that are tried, from 1, and others
  Hours,      \* hours that are tried, from 1, and others
  MaxCalls    \* bound: calls of day_hours_set

VARIABLES
  weekday,  \* the array and the memory around it: the cells that are '1'
  text,     \* the text that day_hours_dump wrote last
  calls,    \* calls so far
  wanted,   \* the hours that were set, by day and hour (history)
  saved,    \* wanted, when the text was written (history)
  stray     \* a call outside of the week was carried out (history)

weekVars == <<weekday, text, calls, wanted, saved, stray>>

Cells == 0..7 * 24 - 1
Week == (1..7) \X (1..24)

Slot(day, hour) == (day - 1) * 24 + hour - 1

(* day_hours_new *)
WeekInit ==
  \E all \in BOOLEAN :
    /\ weekday = IF all THEN Cells ELSE {}
    /\ wanted = IF all THEN Week ELSE {}
    /\ text = {} /\ saved = {} /\ calls = 0 /\ stray = FALSE

(* The test of day_hours_set and day_hours_get *)
Refused(day, hour) == day < 0 \/ day > 7 \/ hour < 0 \/ day > 24

(* Mutant of day_hours_set: days are counted from 0. *)
day_hours_set_day(day, hour, set) ==
  /\ calls < MaxCalls /\ calls' = calls + 1
  /\ ~Refused(day, hour)
  /\ weekday' = IF set THEN weekday \cup {day * 24 + hour - 1} ELSE weekday \ {day * 24 + hour - 1}
  /\ wanted' = IF set THEN wanted \cup {<<day, hour>>} ELSE wanted \ {<<day, hour>>}
  /\ stray' = (stray \/ <<day, hour>> \notin Week)
  /\ UNCHANGED <<text, saved>>

day_hours_set(day, hour, set) ==
  /\ calls < MaxCalls /\ calls' = calls + 1
  /\ IF Refused(day, hour) THEN UNCHANGED <<weekday, wanted, stray>>
     ELSE /\ weekday' = IF set THEN weekday \cup {Slot(day, hour)} ELSE weekday \ {Slot(day, hour)}
          /\ wanted' = IF set THEN wanted \cup {<<day, hour>>} ELSE wanted \ {<<day, hour>>}
          /\ stray' = (stray \/ <<day, hour>> \notin Week)
  /\ UNCHANGED <<text, saved>>

day_hours_get(day, hour) == Slot(day, hour) \in weekday

day_hours_dump ==
  /\ text' = weekday \cap Cells /\ saved' = wanted
  /\ UNCHANGED <<weekday, calls, wanted, stray>>

(* day_hours_free, and day_hours_from with the text that was written *)
day_hours_from ==
  /\ weekday' = text /\ wanted' = saved
  /\ UNCHANGED <<text, calls, saved, stray>>

WeekNext ==
  \/ \E day \in Weekdays, hour \in Hours, set \in BOOLEAN : day_hours_set(day, hour, set)
  \/ day_hours_dump \/ day_hours_from

WeekSpec == WeekInit /\ [][WeekNext]_weekVars

-----------------------------------------------------------------------------

(***************************************************************************)
(* Every hour of the week is what it was set to last, or loaded as, and no *)
(* call touches memory outside of the array, as long as the callers keep   *)
(* to hours 1 to 24 and days 1 to 7.                                       *)
(***************************************************************************)
WeekKept ==
  ~stray => /\ weekday \subseteq Cells
            /\ \A d \in 1..7, h \in 1..24 : day_hours_get(d, h) <=> <<d, h>> \in wanted
============================================================================
