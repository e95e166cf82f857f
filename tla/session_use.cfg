\* A heartbeat that writes into a freed session.
SPECIFICATION Spec
CONSTANTS
  Processors = {p1}
  Fds = {f1, f2}
  Accounts = {a1, a2}
  Kinds = {"heartbeat"}
  MaxLogins = 2
  MaxRefs = 2
INVARIANT NoUseAfterFree
CHECK_DEADLOCK FALSE
