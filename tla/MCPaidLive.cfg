CONSTANTS
  Calls = {c1, c2}
  Foreign = Foreign
  NoAnswer = NoAnswer
  Tries = 2
  MaxForeign = 0
  MaxCrashes = 1
  MaxRecorderChanges = 1
SPECIFICATION FairSpec
CHECK_DEADLOCK FALSE
PROPERTY EveryCallEnds
