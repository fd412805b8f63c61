CONSTANTS
  a = a  b = b  c = c  x = x  w = w  r = r  e1 = e1
  Nil = Nil
  Switch = {a, b, c}
  Relay = {x}
  Client = {w, r}
  EID = {e1}
  MaxIf = 3
  Route <- MCRoute
  IfOf <- MCIfOf
  Dr <- MCDr
  FunctionType <- MCFunctionType
  Count <- MCCount
  WriteEid <- SameEid
  ReadEid <- SameEid
  Entry = {a, c}
  Sampled = {b, c}
  Delays = {1, 2}
  DelayBound = 2
  ScoreBound = 1
  TreeTypes = {"Seanet", "SPT", "RPT"}
  Phased = FALSE
  Lossy = TRUE
  Stoppable = {b}
SPECIFICATION Spec
INVARIANTS
  TypeOK
  GraftLeavesBranch
  DataFollowsBranch
  RegisteredHaveJoined
PROPERTIES
  ImplementsRegistry
CHECK_DEADLOCK FALSE
