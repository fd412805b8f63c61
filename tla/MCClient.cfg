SPECIFICATION FairSpec
CONSTANTS
  w1 = w1
  w2 = w2
  r1 = r1
  a1 = a1
  Client = {w1, w2, r1, a1}
  function_type <- Types
  switch_index <- Indices
  total_switch_num = 2
  MaxPackets = 3
  EID_UNIT = 4
  Base = 2
  Byte = 5
  AllCount = 3
  Stoppable = {r1, a1}
INVARIANTS
  GroupsWrittenOnce
  SweepComplete
  ReadsNameGroups
PROPERTIES
  ChainsEnd
CHECK_DEADLOCK FALSE
