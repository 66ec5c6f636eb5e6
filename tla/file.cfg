\* One file, possibly empty or changed while it is read; two receivers.
SPECIFICATION Spec
CONSTANTS
  Files = {f1}
  Receivers = {r1, r2}
  NoFile = NoFile
  Chunk = 2
  QueueSize = 2
  Backlog = 1
  Unreliable = TRUE
  MaxUnits = 2
  MaxSeconds = 1
CHECK_DEADLOCK FALSE
INVARIANTS
  SavedIsWhole
  OnTimeIsServed
PROPERTY ReceiverEnds
