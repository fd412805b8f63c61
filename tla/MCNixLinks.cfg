CONSTANTS
  s = s  a = a  b = b  c = c  d = d  t = t
  Node = {s, a, b, c, d, t}
  None = None
  Scenarios <- Flap
  NewLinks <- Diagonals
  WordSize = 2
SPECIFICATION Spec
INVARIANTS
  NeighborsRecounted
CHECK_DEADLOCK FALSE
