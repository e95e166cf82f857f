\* Is a session used after it was freed?
SPECIFICATION ClientSpec
CONSTANTS
  Timers = {t1, t2}
  Sessions = {s1, s2}
  None = None
  Period = 1
  MaxElapsed = 1
INVARIANT NoFreedSession
CHECK_DEADLOCK FALSE
