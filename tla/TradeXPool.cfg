CONSTANTS
  WAD = 1
  PRICEFEED_PRECISION = 1
  MAX_LEVERAGE = 20
  LEVERAGE_PRECISION = 1
  MIN_SIZE = 1
  MIN_COLLATERAL = 20
  t1 = t1
  t2 = t2
  lp = lp
  TradeXContract = TradeXContract
  PoolContract = PoolContract
  Others = {}
  NoTradeX = NoTradeX
  MCTraders = {t1}
  TraderDai = 200
  ProviderDai = 1000
  Users <- MCUsers
  Traders <- MCTraders
  Providers <- MCProviders
  InitialDai <- MCInitialDai
  Payees = {t1}
  SelfSpendNeedsAllowance = FALSE
  PoolAmounts = {1000}
  OpenInterests = {}
  Answers <- MCBrokenFeed
  Sizes = {1, 2}
  Collaterals = {60}
  Reductions = {29}
  MaxCalls = 4
  MaxBook = 2000
  MaxSupply = 2000
SPECIFICATION MCSpec
PROPERTIES
  OpenInterestFollowsPosition
  LimitExceededOnlyByPayout
  SharePriceFallsOnlyByPayout
