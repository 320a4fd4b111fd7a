SPECIFICATION MCSpec
CONSTANTS
  Payers = {operator, client}
  Recorders = {facilitator}
  Owner = operator
  Meter = meter
  Amounts = {0, 1, 3}
  W = 4
  MaxRecords = 5
  None = none
  MaxLaunchers = 4
  HealthChecks = 2
  Slots = {"c1", "c2"}
  MinWei = 2
  MaxBalance = 3
  CacheMs = 1
  HelloCalls = {"h"}
  PayrollCalls = {"p"}
  Tries = 2
  MaxForeign = 1
  Prices <- MCPrices
  MaxDecimals = 2
  Refused = refused
  MaxScripts = 2
  MaxDecisions = 2
  Need = 2
  Gain = 2
  MaxDemos = 3
  MaxBatches = 2
CHECK_DEADLOCK FALSE
INVARIANTS
  Types
  WordsStayServiceable SumsAreOfWhatWasPaid
  NobodyIsLeftBehind ApiBehindFacilitator
  FailsOnlyWhenOthersSpent
  ChargedForResults
  AmountIsThePrice
  PublishedIsReady
  UndisturbedVerdict
PROPERTIES
  HalfPairEnds FollowsTheBalance ImplementsPaidCall
