\* One end sends a file and may close; one of the two cancels; the connection
\* may break, and either device vanish.
SPECIFICATION Spec
CONSTANTS
  Sides = {a, b}
  Senders = {a}
  MaxFiles = 1
  MaxChunks = 2
  MaxCancels = 1
  Capacity = 1
  Closers = {a}
  Unreliable = TRUE
CHECK_DEADLOCK FALSE
INVARIANTS
  CompletedIsSaved
  SavedIsWhole
  OneOutcome
  TempOwned
PROPERTY ClosedSettles
