CONSTANTS
  Calls = {c1, c2}
  Foreign = Foreign
  NoAnswer = NoAnswer
  Tries = 2
  MaxForeign = 0
  MaxCrashes = 0
  MaxRecorderChanges = 0
SPECIFICATION Spec
CHECK_DEADLOCK FALSE
INVARIANT MeteringNeverBreaksSettlement
