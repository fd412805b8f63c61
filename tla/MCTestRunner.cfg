CONSTANTS
  w1 = w1
  w2 = w2
  Worker = {w1, w2}
  None = None
  TestLists <- SomeLists
  OptionSets <- SomeOptions
  MaxLost = 1
SPECIFICATION FairSpec
INVARIANTS
  TypeOK
  SuccessMeansPassed
  ReportCoversAll
  InterruptStops
PROPERTIES
  ImplementsReport
  Returns
CHECK_DEADLOCK FALSE
