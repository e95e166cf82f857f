\* Four users of an object; two processors and two devices; two starts of the
\* service with two connections; days and hours at the ends of the week and
\* beyond.
SPECIFICATION SpecAll
CONSTANTS
  Users = {u1, u2, u3, u4}
  NoUser = NoUser
  Processors = {p1, p2}
  Players = {p1, p2}
  Devices = {d1, d2}
  MaxBlocks = 2
  MaxPlays = 2
  Conns = {c1, c2}
  MaxStarts = 2
  Weekdays = {0, 1, 2, 7, 8}
  Hours = {0, 1, 24, 25}
  MaxCalls = 3
INVARIANTS NoHolderAfterFree DeviceKept HandlerHasAll WeekKept
PROPERTIES PlaysAnswered 
CHECK_DEADLOCK FALSE
