CONSTANTS
  WAD = 10
  PRICEFEED_PRECISION = 3
  MAX_LEVERAGE = 20
  LEVERAGE_PRECISION = 4
  MaxPrice = 25
  MaxSize = 20
  MaxCollateral = 30
SPECIFICATION CasesSpec
INVARIANTS
  RoundTripLosesLittle
  ExitPriceSpendsLossBudget
  AcceptedLeverageIsMargined
