SPECIFICATION Spec
CONSTANTS
  s1 = s1
  s2 = s2
  c1 = c1
  c2 = c2
  Switch = {s1, s2}
  Client = {c1, c2}
  Registrant = {s1, s2}
  Home <- MCHome
  m_count <- OneNone
  Chunk = 2
  MaxRegist = 5
  Lossy = TRUE
  Stoppable = {c1}
INVARIANTS
  RepliesCarryTheList
  TypeOK
CHECK_DEADLOCK FALSE
