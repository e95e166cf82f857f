\* A session with a leaked reference stops the clock for all others.
SPECIFICATION FairSpec
CONSTANTS
  Processors = {p1}
  Fds = {f1, f2}
  Accounts = {a1, a2}
  Kinds = {"logout", "play"}
  MaxLogins = 2
  MaxRefs = 1
PROPERTY SilentExpires
CHECK_DEADLOCK FALSE
