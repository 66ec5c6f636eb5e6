SPECIFICATION ProbingSpec
CONSTANTS
  a = a
  b = b
  c = c
  Nodes = {a, b}
  Rank <- MCRank
  Wanted <- MCSame
  MaxName = 2
  MaxRegisters = 1
  MaxUnregisters = 1
  MaxLost = 1
INVARIANTS UniqueNames
PROPERTIES ProbedThrice Announced
CHECK_DEADLOCK FALSE
