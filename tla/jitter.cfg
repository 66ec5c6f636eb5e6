SPECIFICATION Spec
CONSTANTS
  Modulus = 12
  Capacity = 2
  First = 9
  MinWait = 0
  MaxWait = 1
  MaxFrames = 4
  MaxCopies = 1
  MaxArrivals = 5
  Window = 3
CHECK_DEADLOCK FALSE
INVARIANTS
  InOrder
  GroupsWhole
PROPERTIES
  NewestKept
  Unstuck
