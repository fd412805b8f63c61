SPECIFICATION FairSpec
CONSTANTS
  s1 = s1
  s2 = s2
  r = r
  c1 = c1
  c2 = c2
  e = e
  Switch <- MCSwitch
  Res = r
  Client <- MCClient
  EID = {e}
  TheEID = e
  Home <- MCHome
  m_count <- Unlimited
  MaxSize = 8
  TableSize = 3
  MaxSends = 3
  Lossy = FALSE
  Stoppable <- NoStop
PROPERTIES
  ReadAnswered
CHECK_DEADLOCK FALSE
