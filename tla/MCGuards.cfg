CONSTANTS
  IPs = {ip1, ip2}
  None = None
  Kinds = {"paid"}
  PerMin = 2
  Cap = 2
  Window = 1
  CacheMs = 1
  DayLength = 3
  MaxTime = 3
  MaxCalls = 4
SPECIFICATION Spec
SYMMETRY Symmetry
CHECK_DEADLOCK FALSE
INVARIANTS FewerThanTwicePerMin CapPerDay JudgedByFreshBalance
