CONSTANTS
  WAD = 1
  PRICEFEED_PRECISION = 1
  MAX_LEVERAGE = 20
  LEVERAGE_PRECISION = 1
  lp1 = lp1
  lp2 = lp2
  DaiOfEach = 4
  Users <- MCUsers
  Providers <- MCUsers
  InitialDai <- MCInitialDai
  TradeXContract = TradeXContract
  PoolContract = PoolContract
  Others = {}
  NoTradeX = NoTradeX
  SelfSpendNeedsAllowance = TRUE
  PoolAmounts = {1, 3}
  OpenInterests = {0, 2}
  MaxSupply = 7
  MaxBook = 9
SPECIFICATION MCSpec
SYMMETRY MCSymmetry
INVARIANTS
  SupplyIsSumOfShares
PROPERTIES
  NoDilution
  BookMovesWithCash
  ProvidersRespectUtilization
