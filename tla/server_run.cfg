\* Two processors; two admins, two child accounts or two devices; lists of
\* two children; a thread that manages admins of the database beside one that
\* serves requests.
SPECIFICATION SpecAll
CONSTANTS
  Processors = {p1, p2}
  Admins = {a1, a2}
  Children = {u1, u2}
  Devices = {d1, d2}
  Rows <- MCRows
  Workloads = {{"account"}, {"device"}}
  Kids = {c1, c2}
  MaxChanges = 4
  Managers = {t1}
  Threads = {t1, t2}
  Owners = {o1}
  Others = {"child"}
  Cameras = {e1}
SYMMETRY Interchangeable
INVARIANTS AdminsSafe RowsAgree DevicesAgree DevicesApart ListTrue ListWhole  
CHECK_DEADLOCK FALSE
