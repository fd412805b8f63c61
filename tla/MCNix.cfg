CONSTANTS
  s = s  a = a  b = b  c = c  d = d  t = t
  Node = {s, a, b, c, d, t}
  None = None
  Scenarios <- Mixed
  NewLinks <- Diagonals
  WordSize = 2
SPECIFICATION Spec
INVARIANTS
  TypeOK
  FollowsVector
  DeliveredByShortestWay
  NothingLost
  CachedVectorsLive
CHECK_DEADLOCK FALSE
