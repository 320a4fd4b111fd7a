SPECIFICATION MCSpec
CONSTANTS
  None = none
  Registries = {"treasury", "payroll"}
  CdeOf <- MCCdeOf
  Txs = {"t1"}
  Absent = absent
  Networks = {"sepolia", "mainnet"}
  NetworkOf <- MCNetworkOf
  MaxId = 2
  Loops = {"l1", "l2"}
  Foreign = "foreign"
  Torn = torn
  Portfolios <- MCPortfolios
  Prices = {4, 5}
  Thresholds <- MCThresholds
  UsdcUnit = 10
  WethUnit = 51
  Step = 2
  Tries = 2
  LogSize = 1
  MaxForeign = 1
  Accounts = {"a1", "a2"}
  Chains = {"sepolia", "mainnet"}
  Sepolia = "sepolia"
  MaxChanges = 1
  MaxClicks = 1
  Addresses = {"s1", "s2"}
  OwnersOf <- MCOwnersOf
  NewOwners <- MCNewOwners
  MaxSwaps = 1
  MaxChecks = 2
  Endpoints = {"treasury", "payroll", "own"}
  BadUrl = "bad"
  Presets = {"treasury", "payroll"}
  BodyOf <- MCBodyOf
  Bodies = {"decision", "raise"}
  Garbled = "garbled"
  MaxEdits = 3
  MaxPays = 2
  Polls = {"p1", "p2"}
  ListMax = 1
  MaxDecisions = 2
  MaxEvents = 1
  MaxDeploys = 1
  Parts <- AllParts
CHECK_DEADLOCK FALSE
INVARIANTS
  Types
  ActsOnNoOlderEvent LoneSwapSucceeds LogKeepsRecent
  ValidIsSound SoundIsValid
  AtRestShowsTheWallet NeverStuckConnecting BelongsToShownSafe
  OnePaymentPerClick
  OneAnswerIsConsistent
PROPERTIES
  EveryLoopEnds Converges
