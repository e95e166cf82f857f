\* A login beside requests that create and delete accounts.
SPECIFICATION Spec
CONSTANTS
  Processors = {p1, p2}
  Admins = {a1, a2}
  Children = {u1}
  Devices = {}
  Rows <- MCRows
  Workloads = {{"account"}}
INVARIANT LoginFindsRow
