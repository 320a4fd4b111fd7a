CONSTANTS
  IPs = {ip1}
  None = None
  Kinds = {"probe", "paid"}
  PerMin = 3
  Cap = 0
  Window = 2
  CacheMs = 1
  DayLength = 3
  MaxTime = 1
  MaxCalls = 4
SPECIFICATION Spec
SYMMETRY Symmetry
CHECK_DEADLOCK FALSE
INVARIANT LimitedOnlyAfterPaidDecisions
