\* Two requests by the same or by two devices, answered in parallel.
SPECIFICATION Spec
CONSTANTS
  Nodes = {n1, n2}
  Whitelist = {n1}
  Requests = {r1, r2}
  Users = {u1, u2}
  MaxRestarts = 1
CHECK_DEADLOCK FALSE
INVARIANTS
  GrantedIsAllowed
  PendingIsAwaited
  DiskFollows
PROPERTY WaitingIsAnswered
