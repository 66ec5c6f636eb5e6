\* Both devices dial; one may vanish, one link break, either jam, one close.
SPECIFICATION ManagerSpec
CONSTANTS
  Devices = {a, b}
  MaxLinks = 2
  MaxCloses = 1
  MaxLookups = 1
  Fragile = {1}
  Duplex = {1, 2}
  Mortal = {b}
CHECK_DEADLOCK FALSE
INVARIANTS
  OpenIsListed
PROPERTY LookupAnswered
