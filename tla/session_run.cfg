\* One processor: logins one after the other, clock and shutdown.  Three
\* calls of a client, at most two at a time.
SPECIFICATION SpecAll
CONSTANTS
  Processors = {p1}
  Fds = {f1, f2}
  Accounts = {a1, a2}
  Kinds = {"query", "device", "heartbeat", "logout", "play"}
  MaxLogins = 3
  MaxRefs = 1
  MaxCallers = 2
  MaxCalls = 3
  Categories = {"login", "list"}
  cat <- ThreeCalls
INVARIANTS   OwnAnswer
PROPERTIES ExpiredLeaves AnswerEndsWait
CHECK_DEADLOCK FALSE
