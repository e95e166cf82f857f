\* Five packets, of which some do not fit; lists of two entries; two addresses
\* for sessions and for timers: a freed one comes back; two connections.
SPECIFICATION SpecAll
CONSTANTS
  Header = 2
  Grow = 5
  Bodies = {0, 1, 3}
  MaxPackets = 5
  MaxPiece = 6
  Entries = 2
  Timers = {t1, t2}
  Sessions = {s1, s2}
  None = None
  Period = 1
  MaxElapsed = 2
  MaxStarts = 2
INVARIANTS LookupRight HeartbeatKept OneLateCallback  ConnSafe
PROPERTIES   HeartbeatAgain StopEnds
CHECK_DEADLOCK FALSE
