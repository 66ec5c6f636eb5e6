\* Two pushes, one of which may be refused, and a watcher of another stream.
SPECIFICATION Spec
CONSTANTS
  p1 = p1
  p2 = p2
  w = w
  s1 = s1
  s2 = s2
  s3 = s3
  Nobody = Nobody
  Other = Other
  Sessions = {p1, p2, w}
  Ids = {s1, s2, s3}
  Role <- MCRole
  Sid <- MCSid
  Foreign = {s3}
  MayRefuse = {p2}
  Fragile = TRUE
CHECK_DEADLOCK FALSE
INVARIANTS
  Paired
PROPERTIES
  StreamLeaves
  Answered
