SPECIFICATION Spec
CONSTANTS
  PtrTtl = 5
  HostTtl = 3
  RefreshLeft = 2
  MaxTries = 1
  MaxVersion = 2
  MaxNet = 1
INVARIANTS
  ShownIsCached
PROPERTIES
  RemovedIsGone
  GhostsGo
