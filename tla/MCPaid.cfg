CONSTANTS
  Calls = {c1, c2}
  Foreign = Foreign
  NoAnswer = NoAnswer
  Tries = 1
  MaxForeign = 1
  MaxCrashes = 1
  MaxRecorderChanges = 1
SPECIFICATION Spec
SYMMETRY Symmetry
CHECK_DEADLOCK FALSE
INVARIANTS ChargedForADecision PaymentMatchesOutcome NeverAnOlderDecision MeteredAtMostOnce
PROPERTY ImplementsPaidCall
