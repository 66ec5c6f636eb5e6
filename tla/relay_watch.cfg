SPECIFICATION Spec
CONSTANTS
  StreamIds = {s1}
  NoId = NoId
  Pushers = {p1}
  LocalPushers = {p1}
  Proxiers = {}
  Watchers = {w1, w2}
  Controlled = FALSE
  Kinds = {"key", "delta"}
  Capacity = 1
  MaxHello = 1
  MaxChannels = 2
  MaxFrames = 3
INVARIANTS
  LastLeaveReported
PROPERTIES
  SentInOrder
  NoSilentGap
CHECK_DEADLOCK FALSE
SYMMETRY WatchSymmetry
