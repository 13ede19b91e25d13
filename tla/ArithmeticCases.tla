-------------------------- MODULE ArithmeticCases ---------------------------
(***************************************************************************)
(* The arithmetic of TradeXMath against what its results are for, over     *)
(* bounded inputs.  A behaviour is one case: a position's size, collateral *)
(* and entry price; a step goes to the next price of the feed.             *)
(***************************************************************************)
EXTENDS TradeXMath

CONSTANTS MaxPrice, MaxSize, MaxCollateral

VARIABLES price, size, collateral

caseVars == <<price, size, collateral>>

CasesInit ==
  /\ price = 1
  /\ size \in 1 .. MaxSize
  /\ collateral \in 1 .. MaxCollateral

CasesNext ==
  /\ price' = IF price = MaxPrice THEN 1 ELSE price + 1
  /\ UNCHANGED <<size, collateral>>

CasesSpec == CasesInit /\ [][CasesNext]_caseVars

SizeInUsd == ConvertEthToUsd(size, price)

(* Converting ETH to USD and back never gains ETH, and loses less than     *)
(* what one unit of USD buys, rounded up.                                  *)
RoundTripLosesLittle ==
  LET back == ConvertUsdToEth(SizeInUsd, price)
  IN  /\ back <= size
      /\ (size - back) * EthInUsd(price) < WAD + EthInUsd(price)

(* What a position has gained or lost at its LiqPrice.                     *)
ValueAtLiqPrice == (ExitPrice(SizeInUsd, size, collateral) * size) \div WAD

ProfitAtLiqPrice(isLong) ==
  IF isLong THEN ValueAtLiqPrice - SizeInUsd ELSE SizeInUsd - ValueAtLiqPrice

(* At LiqPrice a long position has lost all of its collateral but the      *)
(* maintenance share, and at most one dollar per ETH of its size more: the *)
(* quotient is in whole dollars before it is scaled to WAD units.          *)
(* calculateExitPrice does not ask isLong and openPosition records its     *)
(* result for both kinds: at its LiqPrice a short has gained at least what *)
(* it could have lost, so the price is no bound of a short's losses.       *)
ExitPriceSpendsLossBudget ==
  ExitPriceOk(SizeInUsd, size, collateral) =>
    LET left == collateral + ProfitAtLiqPrice(TRUE)
    IN  /\ left <= Maintenance(SizeInUsd)
        /\ Maintenance(SizeInUsd) < left + size
        /\ ProfitAtLiqPrice(FALSE) >= LossBudget(SizeInUsd, collateral)

(* Whatever leverage openPosition accepts leaves the maintenance share     *)
(* covered, so calculateExitPrice does not revert on underflow after the   *)
(* leverage check has passed.                                              *)
AcceptedLeverageIsMargined ==
  /\ LeverageOk(collateral)
  /\ Leverage(SizeInUsd, collateral) < MAX_LEVERAGE
  => 0 <= LossBudget(SizeInUsd, collateral)
=============================================================================
