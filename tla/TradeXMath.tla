----------------------------- MODULE TradeXMath -----------------------------
(***************************************************************************)
(* The arithmetic of Pricefeed.sol and of the pure functions of TradeX.sol.*)
(* All amounts are natural numbers: ETH amounts and DAI/USD amounts count  *)
(* units of 1/WAD, prices are in USD with WAD units to the dollar.  `/' on *)
(* uint256 is \div.  Solidity 0.8 reverts on underflow, on division by     *)
(* zero and on a negative answer of the feed (uint256(answer) * 1e10       *)
(* overflows); each operator that can revert has a companion ...Ok that    *)
(* holds iff it does not, and a handler uses the pair.  Overflow of        *)
(* uint256 needs amounts far above any DAI supply and is left out.         *)
(*                                                                         *)
(* Definitions named Operator_Fault are plausible faulty variants of       *)
(* Operator; nothing but the mutation runs uses them.                      *)
(***************************************************************************)
EXTENDS Integers

CONSTANTS
  WAD,                 \* 1e18: units per ETH and per dollar
  PRICEFEED_PRECISION, \* 1e10: scales the feed's answer to WAD units
  MAX_LEVERAGE,        \* 2000: twenty times, in units of 1/LEVERAGE_PRECISION
  LEVERAGE_PRECISION   \* 100

ASSUME MathAssumption ==
  /\ WAD \in Nat \ {0}
  /\ PRICEFEED_PRECISION \in Nat \ {0}
  /\ MAX_LEVERAGE \in Nat \ {0}
  /\ LEVERAGE_PRECISION \in Nat \ {0}

-----------------------------------------------------------------------------
(* Pricefeed.sol                                                           *)

FeedOk(answer) == answer >= 0

EthInUsd(answer) == answer * PRICEFEED_PRECISION

ConvertEthToUsd(amount, answer) == (EthInUsd(answer) * amount) \div WAD

ConvertUsdToEth_DividedFirst(amount, answer) == (amount \div EthInUsd(answer)) * WAD

ConvertUsdToEth(amount, answer) == (amount * WAD) \div EthInUsd(answer)

-----------------------------------------------------------------------------
(* TradeX.sol                                                              *)

\* 0.1% of the size, in USD at the price of the call.
PositionFee(size, answer) == ConvertEthToUsd(size, answer) \div 1000

LeverageOk(collateral) == collateral > 0

Leverage(sizeInUsd, collateral) ==
  (sizeInUsd * LEVERAGE_PRECISION) \div collateral

\* One over the maximal leverage, of the size: 5% of sizeInUsd.
Maintenance_RoundedUp(sizeInUsd) ==
  ((sizeInUsd + MAX_LEVERAGE - 1) \div MAX_LEVERAGE) * LEVERAGE_PRECISION

Maintenance(sizeInUsd) == (sizeInUsd \div MAX_LEVERAGE) * LEVERAGE_PRECISION

\* `x' in calculateExitPrice: the loss the collateral can take before only
\* the maintenance share is left.
LossBudget(sizeInUsd, collateral) == collateral - Maintenance(sizeInUsd)

ExitPriceOk_Unchecked(sizeInUsd, size, collateral) ==
  /\ LossBudget(sizeInUsd, collateral) <= sizeInUsd
  /\ size > 0

ExitPriceOk(sizeInUsd, size, collateral) ==
  /\ 0 <= LossBudget(sizeInUsd, collateral)
  /\ LossBudget(sizeInUsd, collateral) <= sizeInUsd
  /\ size > 0

ExitPrice_Unscaled(sizeInUsd, size, collateral) ==
  (sizeInUsd - LossBudget(sizeInUsd, collateral)) \div size

ExitPrice(sizeInUsd, size, collateral) ==
  ((sizeInUsd - LossBudget(sizeInUsd, collateral)) \div size) * WAD

\* The share of the pool's book that open interest and payouts may use.
MaxUtilization(totalLiquidity) == (totalLiquidity * 8) \div 10
=============================================================================
