CONSTANTS
  WAD = 1
  PRICEFEED_PRECISION = 1
  MAX_LEVERAGE = 20
  LEVERAGE_PRECISION = 1
  MIN_SIZE = 1
  MIN_COLLATERAL = 20
  t1 = t1
  t2 = t2
  lp = lp
  TradeXContract = TradeXContract
  PoolContract = PoolContract
  Others = {}
  NoTradeX = NoTradeX
  MCTraders = {t1, t2}
  TraderDai = 300
  ProviderDai = 4000
  Users <- MCUsers
  Traders <- MCTraders
  Providers <- MCProviders
  InitialDai <- MCInitialDai
  Payees = {}
  SelfSpendNeedsAllowance = FALSE
  PoolAmounts = {4000}
  OpenInterests = {}
  Answers = {1000, 1100}
  Sizes = {1, 2}
  Collaterals = {110}
  Reductions = {59, 60}
  MaxCalls = 5
  MaxBook = 4000
  MaxSupply = 8000
SPECIFICATION MCSpec
SYMMETRY MCSymmetry
INVARIANTS
  TypeOK
  CollateralBacked
PROPERTIES
  LimitPassedOnlyByDecrease
  NoFreeGain
  NoUnpaidDeletion
  MarginLostOnlyByLoss
  LiqPriceStaleOnlyByLoss
  UnderwaterEndsByLeverage
  ImplementsEscrow
