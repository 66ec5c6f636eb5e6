\* One device subscribes, watches and leaves, and may come back: either it asks
\* twice, or it asks once and the owner stops the share or something fails.  The
\* timers of the join window and of the last watcher run out at any time.  (What
\* holds for any number of devices and calls is proved in ShareProofs.)
SPECIFICATION Spec
CONSTANTS
  Nodes = {n1}
  TimerThreads = {t1}
  Loop = Loop
  Owner = Owner
  MaxActs = 2
  MaxJoins = 1
  MaxLeaves = 1
CHECK_DEADLOCK FALSE
INVARIANTS
  AuthorizationOwned
  RunningIsEnrolled
PROPERTIES
  EndedIsReaped
  UnwatchedStops
