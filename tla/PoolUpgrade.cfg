CONSTANTS
  WAD = 1
  PRICEFEED_PRECISION = 1
  MAX_LEVERAGE = 20
  LEVERAGE_PRECISION = 1
  MIN_SIZE = 1
  MIN_COLLATERAL = 20
  t1 = t1
  lp = lp
  OldTradeX = OldTradeX
  NewTradeX = NewTradeX
  PoolContract = PoolContract
  NoTradeX = NoTradeX
  TraderDai = 200
  ProviderDai = 1000
  Users <- MCUsers
  Traders = {t1}
  Providers = {lp}
  InitialDai <- MCInitialDai
  SelfSpendNeedsAllowance = FALSE
  PoolAmounts = {500}
  Answers = {500, 560}
  Sizes = {1}
  Collaterals = {60}
  Reductions = {35}
  MaxCalls = 9
SPECIFICATION MCSpec
INVARIANTS
  BothBacked
PROPERTIES
  ReplacedLosesProtection
