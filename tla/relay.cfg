\* A push, a proxy and the kernel's teardown race on one id, with a watcher.
SPECIFICATION Spec
CONSTANTS
  StreamIds = {s1}
  NoId = NoId
  Pushers = {p1}
  LocalPushers = {p1}
  Proxiers = {x1}
  Watchers = {w1}
  Controlled = TRUE
  Kinds = {"key"}
  Capacity = 1
  MaxHello = 1
  MaxChannels = 2
  MaxFrames = 1
INVARIANTS
  EveryStreamOwned
  EndedAtMostOnce
PROPERTIES
  KeepsDirectory
  DeadSourceReleasesWatchers
CHECK_DEADLOCK FALSE
