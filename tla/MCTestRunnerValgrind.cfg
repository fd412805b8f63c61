CONSTANTS
  w1 = w1
  w2 = w2
  Worker = {w1, w2}
  None = None
  TestLists <- OneSuite
  OptionSets <- SomeOptions
  MaxLost = 0
SPECIFICATION Spec
INVARIANTS
  ValgrindErrorsReported
CHECK_DEADLOCK FALSE
