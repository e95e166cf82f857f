\* Two processors, two connections on descriptors that are reused.
SPECIFICATION FairSpec
CONSTANTS
  Processors = {p1, p2}
  Fds = {f1}
  MaxConns = 2
  MaxMsgs = 3
  MaxPosts = 1
  MaxNotes = 1
 
PROPERTIES ReplySent 
CHECK_DEADLOCK FALSE
