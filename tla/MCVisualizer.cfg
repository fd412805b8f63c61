CONSTANTS
  None = None
  Periods = {1, 2}
  MaxTime = 3
  StopTime = 2
  MaxMessages = 1
  MaxUser = 4
SPECIFICATION FairSpec
INVARIANTS
  TypeOK
  MessagesShownOnce
  NeverFarAhead
  PlayingHasTimer
PROPERTIES
  QuitEnds
  PlayAdvances
CHECK_DEADLOCK FALSE
