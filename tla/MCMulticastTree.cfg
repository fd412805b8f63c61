CONSTANTS
  a = a  b = b  c = c  d = d  w = w  r = r  q = q  e1 = e1  e2 = e2
  Nil = Nil
  Switch = {a, b, c, d}
  Relay = {}
  Client = {w, r, q}
  MaxIf = 3
  Route <- MCRoute
  IfOf <- MCIfOf
  Dr <- MCDr
  FunctionType <- MCFunctionType
  Entry = {a, c, d}
  Sampled = {b, d}
  Delays = {1, 2}
  DelayBound = 2
  ScoreBound = 3
  TreeTypes = {"Seanet", "SPT"}
  EID = {e1, e2}
  Count <- TwoOfThree
  WriteEid <- BothEids
  ReadEid <- BothEids
  Phased = TRUE
  Lossy = FALSE
  Stoppable = {}
SPECIFICATION FairSpec
INVARIANTS
  RegistrationLeavesPath
  LoadIsWhatInterfacesHold
  TreeConnected
  SptRootIsSource
PROPERTIES
  WrittenGetsRegistered
  JoinGetsServed
CHECK_DEADLOCK FALSE
