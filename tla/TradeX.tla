------------------------------- MODULE TradeX -------------------------------
(***************************************************************************)
(* The contract TradeX (TradeX.sol) together with the LiquidityPool it pays*)
(* traders from, the DAI both hold and the Chainlink feed both depend on.  *)
(* Traders open leveraged long and short positions on ETH, one each, back  *)
(* them with DAI held by TradeX, and settle profits with the pool.         *)
(*                                                                         *)
(* Every external function is one action: a transaction is atomic, and one *)
(* that reverts changes nothing, so it is an action that is not enabled.   *)
(* The interleaving is that of transactions of different accounts and of   *)
(* the feed's updates.                                                     *)
(*                                                                         *)
(* Definitions named Operation_Fault are plausible faulty variants of      *)
(* Operation; nothing but the mutation runs uses them.                     *)
(***************************************************************************)
EXTENDS LiquidityPool

CONSTANTS
  Traders,         \* users that trade
  Payees,          \* users some account calls transferOut for directly
  Answers,         \* answers of the price feed
  Sizes,           \* amounts of ETH passed to open, increase and decrease
  Collaterals,     \* amounts of DAI passed to open and to updateCollateral
  Reductions,      \* amounts of DAI passed to decreaseCollateral
  MIN_SIZE,        \* 1e15
  MIN_COLLATERAL   \* 2e18

ASSUME TradeXAssumption ==
  /\ Traders \subseteq Users
  /\ Payees \subseteq Users
  /\ Answers \subseteq Int
  /\ Sizes \subseteq Nat
  /\ Collaterals \subseteq Nat
  /\ Reductions \subseteq Nat
  /\ MIN_SIZE \in Nat \ {0}
  /\ MIN_COLLATERAL \in Nat

VARIABLES
  positionMeta,  \* the position of each account
  answer         \* what latestRoundData() answers

vars == <<pVars, positionMeta, answer>>

-----------------------------------------------------------------------------
(* Positions                                                               *)

Neither == 0
Long == 1
Short == 2

Position ==
  [isLong : {Neither, Long, Short}, collateral : Nat, sizeInEth : Nat,
   sizeInUsd : Nat, LiqPrice : Nat]

NoPosition ==
  [isLong |-> Neither, collateral |-> 0, sizeInEth |-> 0, sizeInUsd |-> 0,
   LiqPrice |-> 0]

\* A position with the LiqPrice that belongs to it.
PositionOf(isLong, collateral, sizeInEth, sizeInUsd) ==
  [isLong |-> isLong, collateral |-> collateral, sizeInEth |-> sizeInEth,
   sizeInUsd |-> sizeInUsd, LiqPrice |-> ExitPrice(sizeInUsd, sizeInEth, collateral)]

liquidator_fee == 10

IsOpen(p) == p.isLong # Neither

\* calculateUserPnL: positive for isProfit = 1, negative for isProfit = 2.
UserPnL(p) ==
  LET currentSizeValue == ConvertEthToUsd(p.sizeInEth, answer)
  IN  IF p.isLong = Long THEN currentSizeValue - p.sizeInUsd
                         ELSE p.sizeInUsd - currentSizeValue

\* calculateLeverage > MAX_LEVERAGE, or a division by zero, reverts.
WithinMaxLeverage(sizeInUsd, collateral) ==
  /\ LeverageOk(collateral)
  /\ Leverage(sizeInUsd, collateral) <= MAX_LEVERAGE

OverLeveraged(p) ==
  /\ LeverageOk(p.collateral)
  /\ Leverage(p.sizeInUsd, p.collateral) >= MAX_LEVERAGE

\* The cap on open interest, which openPosition and increasePosition check.
UtilizationOk_Existing(addedInUsd) ==
  s_openInterest <= MaxUtilization(s_totalLiquidity)

UtilizationOk(addedInUsd) ==
  s_openInterest + addedInUsd <= MaxUtilization(s_totalLiquidity)

TypeOK ==
  /\ PoolTypeOK
  /\ positionMeta \in [Traders -> Position]
  /\ answer \in Answers

Init ==
  /\ PoolInit
  /\ positionMeta = [t \in Traders |-> NoPosition]
  /\ answer \in Answers

-----------------------------------------------------------------------------
(* Handlers that leave the position open                                   *)

OpenPosition(t, collateral, size, isLong) ==
  LET sizeInUsd == ConvertEthToUsd(size, answer)
      net == collateral - PositionFee(size, answer)
  IN  /\ size >= MIN_SIZE
      /\ collateral >= MIN_COLLATERAL
      /\ ~IsOpen(positionMeta[t])
      /\ FeedOk(answer)
      /\ LeverageOk(net)
      /\ Leverage(sizeInUsd, net) < MAX_LEVERAGE
      /\ UtilizationOk(sizeInUsd)
      /\ CanMove(t, collateral)
      /\ ExitPriceOk(sizeInUsd, size, net)
      /\ dai' = Moved(dai, t, TradeXContract, collateral)
      /\ positionMeta' = [positionMeta EXCEPT
           ![t] = PositionOf(isLong, net, size, sizeInUsd)]
      /\ s_openInterest' = s_openInterest + sizeInUsd
      /\ UNCHANGED <<poolVars, answer>>

IncreasePosition(t, size) ==
  LET p == positionMeta[t]
      addedInUsd == ConvertEthToUsd(size, answer)
      sizeInUsd == p.sizeInUsd + addedInUsd
      sizeInEth == p.sizeInEth + size
      net == p.collateral - PositionFee(size, answer)
  IN  /\ IsOpen(p)
      /\ FeedOk(answer)
      /\ WithinMaxLeverage(sizeInUsd, net)
      /\ UtilizationOk(addedInUsd)
      /\ ExitPriceOk(sizeInUsd, sizeInEth, net)
      /\ positionMeta' = [positionMeta EXCEPT
           ![t] = PositionOf(p.isLong, net, sizeInEth, sizeInUsd)]
      /\ s_openInterest' = s_openInterest + addedInUsd
      /\ UNCHANGED <<dai, poolVars, answer>>

UpdateCollateral_Unpaid(t, amount) ==
  LET p == positionMeta[t]
      collateral == p.collateral + amount
  IN  /\ IsOpen(p)
      /\ amount > MIN_COLLATERAL
      /\ ExitPriceOk(p.sizeInUsd, p.sizeInEth, collateral)
      /\ positionMeta' = [positionMeta EXCEPT
           ![t] = PositionOf(p.isLong, collateral, p.sizeInEth, p.sizeInUsd)]
      /\ UNCHANGED <<dai, poolVars, s_openInterest, answer>>

UpdateCollateral_KeepsLiqPrice(t, amount) ==
  LET p == positionMeta[t]
  IN  /\ IsOpen(p)
      /\ amount > MIN_COLLATERAL
      /\ CanMove(t, amount)
      /\ ExitPriceOk(p.sizeInUsd, p.sizeInEth, p.collateral + amount)
      /\ dai' = Moved(dai, t, TradeXContract, amount)
      /\ positionMeta' = [positionMeta EXCEPT ![t].collateral = @ + amount]
      /\ UNCHANGED <<poolVars, s_openInterest, answer>>

UpdateCollateral(t, amount) ==
  LET p == positionMeta[t]
      collateral == p.collateral + amount
  IN  /\ IsOpen(p)
      /\ amount > MIN_COLLATERAL
      /\ CanMove(t, amount)
      /\ ExitPriceOk(p.sizeInUsd, p.sizeInEth, collateral)
      /\ dai' = Moved(dai, t, TradeXContract, amount)
      /\ positionMeta' = [positionMeta EXCEPT
           ![t] = PositionOf(p.isLong, collateral, p.sizeInEth, p.sizeInUsd)]
      /\ UNCHANGED <<poolVars, s_openInterest, answer>>

ReduceCollateral_ChecksBefore(t, amount) ==
  LET p == positionMeta[t]
      collateral == p.collateral - amount
  IN  /\ amount < p.collateral
      /\ WithinMaxLeverage(p.sizeInUsd, p.collateral)
      /\ ExitPriceOk(p.sizeInUsd, p.sizeInEth, p.collateral)
      /\ positionMeta' = [positionMeta EXCEPT
           ![t] = PositionOf(p.isLong, collateral, p.sizeInEth, p.sizeInUsd)]
      /\ UNCHANGED <<dai, poolVars, s_openInterest, answer>>

\* The amount is taken off the position; no DAI is sent to the trader.
ReduceCollateral(t, amount) ==
  LET p == positionMeta[t]
      collateral == p.collateral - amount
  IN  /\ p.collateral # 0
      /\ amount # p.collateral
      /\ WithinMaxLeverage(p.sizeInUsd, collateral)
      /\ ExitPriceOk(p.sizeInUsd, p.sizeInEth, collateral)
      /\ positionMeta' = [positionMeta EXCEPT
           ![t] = PositionOf(p.isLong, collateral, p.sizeInEth, p.sizeInUsd)]
      /\ UNCHANGED <<dai, poolVars, s_openInterest, answer>>

\* What a call of the pool's transferOut by TradeX does to cash and book.
PoolPays_Caller(t, amount) ==
  /\ TransferOutOk(amount)
  /\ dai' = Moved(dai, PoolContract, TradeXContract, amount)
  /\ s_totalLiquidity' = s_totalLiquidity - amount

PoolPays_BookKept(t, amount) ==
  /\ TransferOutOk(amount)
  /\ dai' = Moved(dai, PoolContract, t, amount)
  /\ UNCHANGED s_totalLiquidity

PoolPays(t, amount) ==
  /\ TransferOutOk(amount)
  /\ dai' = Moved(dai, PoolContract, t, amount)
  /\ s_totalLiquidity' = s_totalLiquidity - amount

\* What is left of a position is marked at the current price.
RemainingSizeInUsd_Unmarked(p, size) ==
  p.sizeInUsd - ConvertEthToUsd(size, answer)

RemainingSizeInUsd(p, size) == ConvertEthToUsd(p.sizeInEth - size, answer)

\* Part of the position is taken off.  The profit or loss of the WHOLE
\* position is settled, the rest is marked at the current price.  The checks
\* and the new LiqPrice use _tmpPos.collateral - platformFee, the collateral
\* read before a loss was deducted.
ReducePosition(t, size) ==
  LET p == positionMeta[t]
      pnl == UserPnL(p)
      fee == PositionFee(size, answer)
      sizeInEth == p.sizeInEth - size
      sizeInUsd == RemainingSizeInUsd(p, size)
      lost == IF pnl < 0 THEN -pnl ELSE 0
  IN  /\ p.collateral # 0
      /\ size # p.sizeInEth
      /\ FeedOk(answer)
      /\ size < p.sizeInEth
      /\ IsOpen(p)
      /\ \/ /\ pnl > 0
            /\ PoolPays(t, pnl)
         \/ /\ pnl < 0
            /\ lost <= p.collateral
            /\ WithinMaxLeverage(sizeInUsd, p.collateral - fee)
            /\ UNCHANGED <<dai, s_totalLiquidity>>
         \/ /\ pnl = 0
            /\ UNCHANGED <<dai, s_totalLiquidity>>
      /\ ExitPriceOk(sizeInUsd, sizeInEth, p.collateral - fee)
      /\ p.collateral - lost >= fee
      /\ s_openInterest >= ConvertEthToUsd(size, answer)
      /\ positionMeta' = [positionMeta EXCEPT ![t] =
           [PositionOf(p.isLong, p.collateral - fee, sizeInEth, sizeInUsd)
              EXCEPT !.collateral = @ - lost]]
      /\ s_openInterest' = s_openInterest - ConvertEthToUsd(size, answer)
      /\ UNCHANGED <<shares, totalSupply, tradeX, answer>>

-----------------------------------------------------------------------------
(* Handlers that delete the position                                       *)

DeletePosition_Unchecked(t) ==
  /\ s_openInterest' = s_openInterest - positionMeta[t].sizeInUsd
  /\ positionMeta' = [positionMeta EXCEPT ![t] = NoPosition]

DeletePosition_KeepsInterest(t) ==
  /\ positionMeta' = [positionMeta EXCEPT ![t] = NoPosition]
  /\ UNCHANGED s_openInterest

DeletePosition(t) ==
  /\ s_openInterest >= positionMeta[t].sizeInUsd
  /\ s_openInterest' = s_openInterest - positionMeta[t].sizeInUsd
  /\ positionMeta' = [positionMeta EXCEPT ![t] = NoPosition]

\* A profit comes from the pool and the collateral from TradeX; after a loss
\* the pool pays what is left of the collateral, and TradeX keeps all of it.
ClosePosition(t) ==
  LET p == positionMeta[t]
      pnl == UserPnL(p)
  IN  /\ p.collateral # 0
      /\ IsOpen(p)
      /\ FeedOk(answer)
      /\ \/ /\ pnl > 0
            /\ TransferOutOk(pnl)
            /\ CanMove(TradeXContract, p.collateral)
            /\ dai' = Moved(Moved(dai, PoolContract, t, pnl),
                            TradeXContract, t, p.collateral)
            /\ s_totalLiquidity' = s_totalLiquidity - pnl
         \/ /\ pnl < 0
            /\ p.collateral + pnl >= 0
            /\ PoolPays(t, p.collateral + pnl)
         \/ /\ pnl = 0
            /\ CanMove(TradeXContract, p.collateral)
            /\ dai' = Moved(dai, TradeXContract, t, p.collateral)
            /\ UNCHANGED s_totalLiquidity
      /\ DeletePosition(t)
      /\ UNCHANGED <<shares, totalSupply, tradeX, answer>>

\* Taking off the whole size, or the whole collateral, closes the position.
DecreasePosition(t, size) ==
  \/ /\ size = positionMeta[t].sizeInEth
     /\ ClosePosition(t)
  \/ ReducePosition(t, size)

DecreaseCollateral(t, amount) ==
  \/ /\ amount = positionMeta[t].collateral
     /\ ClosePosition(t)
  \/ ReduceCollateral(t, amount)

\* Any account may call it; no price is read.  Both transfers are made with
\* transferFrom(address(this), ...), and the pool's book is not told.
Liquidate_RewardTwice(caller, t) ==
  LET p == positionMeta[t]
      reward == p.collateral \div liquidator_fee
  IN  /\ OverLeveraged(p)
      /\ SelfSpendOk(reward)
      /\ SelfSpendOk(p.collateral)
      /\ CanMove(TradeXContract, p.collateral + reward)
      /\ dai' = Moved(Moved(dai, TradeXContract, caller, reward),
                      TradeXContract, PoolContract, p.collateral)
      /\ DeletePosition(t)
      /\ UNCHANGED <<poolVars, answer>>

Liquidate_AnyLeverage(caller, t) ==
  LET p == positionMeta[t]
      reward == p.collateral \div liquidator_fee
      rest == p.collateral - reward
  IN  /\ IsOpen(p)
      /\ SelfSpendOk(reward)
      /\ SelfSpendOk(rest)
      /\ CanMove(TradeXContract, p.collateral)
      /\ dai' = Moved(Moved(dai, TradeXContract, caller, reward),
                      TradeXContract, PoolContract, rest)
      /\ DeletePosition(t)
      /\ UNCHANGED <<poolVars, answer>>

Liquidate(caller, t) ==
  LET p == positionMeta[t]
      reward == p.collateral \div liquidator_fee
      rest == p.collateral - reward
  IN  /\ OverLeveraged(p)
      /\ SelfSpendOk(reward)
      /\ SelfSpendOk(rest)
      /\ CanMove(TradeXContract, p.collateral)
      /\ dai' = Moved(Moved(dai, TradeXContract, caller, reward),
                      TradeXContract, PoolContract, rest)
      /\ DeletePosition(t)
      /\ UNCHANGED <<poolVars, answer>>

-----------------------------------------------------------------------------
(* The system                                                              *)

OracleUpdate ==
  /\ answer' \in Answers
  /\ UNCHANGED <<pVars, positionMeta>>

TraderStep(t) ==
  \/ \E c \in Collaterals, s \in Sizes, l \in {Long, Short} : OpenPosition(t, c, s, l)
  \/ \E s \in Sizes : IncreasePosition(t, s) \/ DecreasePosition(t, s)
  \/ \E c \in Collaterals : UpdateCollateral(t, c)
  \/ \E a \in Reductions : DecreaseCollateral(t, a)
  \/ ClosePosition(t)

LiquidationStep == \E caller \in Users, t \in Traders : Liquidate(caller, t)

\* transferOut has no check on its caller.
DirectPayout == \E u \in Payees, a \in PoolAmounts : TransferOut(u, a)

PoolStep ==
  /\ ProviderStep \/ DirectPayout \/ OwnerStep \/ ArrivalStep
  /\ UNCHANGED <<positionMeta, answer>>

Next ==
  \/ \E t \in Traders : TraderStep(t)
  \/ LiquidationStep
  \/ OracleUpdate
  \/ PoolStep

Spec == Init /\ [][Next]_vars
-----------------------------------------------------------------------------
(* Properties: positions and the DAI behind them                           *)

\* All traders' collateral, as positionMeta records it.
TotalCollateral == Total([t \in Traders |-> positionMeta[t].collateral])

(* TradeX holds at least the collateral it has recorded: closing or        *)
(* liquidating one trader never spends the collateral of another.          *)
CollateralBacked == TotalCollateral <= dai[TradeXContract]

(* What TradeX holds beyond the recorded collateral (fees, the collateral  *)
(* of positions closed at a loss, what decreaseCollateral took off) never  *)
(* leaves it: every DAI it sends is collateral of the position that goes.  *)
SurplusNeverLeaves ==
  [][ dai'[TradeXContract] - TotalCollateral'
        >= dai[TradeXContract] - TotalCollateral ]_vars

(* A position is open exactly while it has a size, and what a close or a   *)
(* liquidation leaves is the empty record.  calculateExitPrice divides by  *)
(* sizeInEth, and openPosition looks at isLong alone.                      *)
PositionShape ==
  \A t \in Traders :
    /\ IsOpen(positionMeta[t]) => positionMeta[t].sizeInEth > 0
    /\ ~IsOpen(positionMeta[t]) => positionMeta[t] = NoPosition

\* A deletion by liquidate() rather than by closePosition(): only then does
\* DAI flow from TradeX to the pool.
Liquidated(t) ==
  /\ IsOpen(positionMeta[t])
  /\ ~IsOpen(positionMeta'[t])
  /\ dai'[PoolContract] > dai[PoolContract]

\* What a trader owns if its position were settled at the current price.
Equity(t) ==
  dai[t] + (IF IsOpen(positionMeta[t])
            THEN positionMeta[t].collateral + UserPnL(positionMeta[t])
            ELSE 0)

\* What two truncated conversions can lose against one: nothing if
\* conversions are exact.
RoundingUnit == IF WAD = 1 THEN 0 ELSE 1

(* No call to TradeX makes a trader richer: marked at the price of the     *)
(* call, balance plus collateral plus profit or loss only falls (by fees,  *)
(* and by what decreaseCollateral forgets to pay), but for one unit where  *)
(* two truncated conversions of increasePosition become one.  Settling the *)
(* profit of the whole position in decreasePosition and marking the rest   *)
(* at the new price must fit together for this; a liquidation is exempt, it*)
(* forgives a loss beyond the collateral and rewards its caller.           *)
NoFreeGain ==
  [][ /\ positionMeta' # positionMeta
      /\ \A t \in Traders : ~Liquidated(t)
      => \A t \in Traders : Equity(t)' <= Equity(t) + RoundingUnit ]_vars

\* The collateral covers the share of the size that calculateExitPrice
\* reserves.
Margined(p) == IsOpen(p) => p.collateral >= Maintenance(p.sizeInUsd)

(* An open position goes below its maintenance margin only in              *)
(* decreasePosition at a loss, which marks what is left at the current     *)
(* price and whose checks see the collateral from before the loss.         *)
MarginLostOnlyByLoss ==
  [][ \A t \in Traders :
        Margined(positionMeta[t]) =>
          \/ Margined(positionMeta'[t])
          \/ /\ UserPnL(positionMeta[t]) < 0
             /\ positionMeta'[t].sizeInEth <= positionMeta[t].sizeInEth
             /\ positionMeta'[t].sizeInUsd =
                  ConvertEthToUsd(positionMeta'[t].sizeInEth, answer) ]_vars

\* The recorded LiqPrice is calculateExitPrice of the recorded position.
LiqPriceExact(p) ==
  IsOpen(p) => p.LiqPrice = ExitPrice(p.sizeInUsd, p.sizeInEth, p.collateral)

(* LiqPrice is what the four tests of the handlers assert, calculateExit-  *)
(* Price of the position as recorded, after every call but one: after a    *)
(* partial decrease at a loss it belongs to the collateral from before it. *)
LiqPriceStaleOnlyByLoss ==
  [][ \A t \in Traders :
        LiqPriceExact(positionMeta[t]) =>
          \/ LiqPriceExact(positionMeta'[t])
          \/ /\ UserPnL(positionMeta[t]) < 0
             /\ positionMeta'[t].sizeInEth <= positionMeta[t].sizeInEth
             /\ positionMeta'[t].sizeInUsd =
                  ConvertEthToUsd(positionMeta'[t].sizeInEth, answer) ]_vars

\* What decreasePosition leaves of a position: it re-marks the size, even if
\* nothing is taken off.
Reduced(p, q) ==
  /\ q.sizeInEth <= p.sizeInEth
  /\ <<q.sizeInEth, q.sizeInUsd>> # <<p.sizeInEth, p.sizeInUsd>>

(* A position is opened below the maximal leverage (>= refuses).  Later    *)
(* calls take it to exactly the maximum at most (there > refuses, and      *)
(* liquidate() accepts), but for two: decreasePosition, which looks at the *)
(* leverage only after a loss and then at the collateral from before it,   *)
(* and updateCollateral of a position that has lost its whole collateral.  *)
LimitPassedOnlyByDecrease ==
  [][ \A t \in Traders :
        LET p == positionMeta[t]
            q == positionMeta'[t]
        IN  ~OverLeveraged(p) /\ OverLeveraged(q) =>
              /\ IsOpen(p)
              /\ \/ Leverage(q.sizeInUsd, q.collateral) = MAX_LEVERAGE
                 \/ Reduced(p, q)
                 \/ p.collateral = 0 ]_vars

(* A position that has lost more than its collateral cannot be closed, and *)
(* liquidate() does not look at the price: unless the price comes back or  *)
(* its trader pays in, it can only end as over-leveraged by its recorded   *)
(* size.                                                                   *)
UnderwaterEndsByLeverage ==
  [][ \A t \in Traders :
        /\ IsOpen(positionMeta[t]) /\ ~IsOpen(positionMeta'[t])
        /\ positionMeta[t].collateral + UserPnL(positionMeta[t]) < 0
        => OverLeveraged(positionMeta[t]) ]_vars

(* A trader whose position disappears is paid, unless the position was at  *)
(* or over the maximal leverage or its loss is the whole collateral.       *)
NoUnpaidDeletion ==
  [][ \A t \in Traders :
        IsOpen(positionMeta[t]) /\ ~IsOpen(positionMeta'[t]) =>
          \/ dai'[t] > dai[t]
          \/ OverLeveraged(positionMeta[t])
          \/ positionMeta[t].collateral + UserPnL(positionMeta[t]) = 0 ]_vars

\* The escrow of collateral that TradeX keeps.
Promise == INSTANCE Escrow WITH
  held <- dai[TradeXContract],
  owed <- [t \in Traders |-> positionMeta[t].collateral]

(* TradeX implements Escrow: each call changes the claim of one trader, DAI*)
(* leaves TradeX only as the whole collateral of a position that ends, and *)
(* what a fee or a loss takes from a claim stays.                          *)
ImplementsEscrow == Promise!Spec

-----------------------------------------------------------------------------
(* Properties: open interest, the pool's book and its shares               *)

(* Open interest moves exactly with the one position that changes: by the  *)
(* change of its recorded size, except in decreasePosition, where it falls *)
(* by the current value of the size taken off.                             *)
OpenInterestFollowsPosition ==
  [][ /\ positionMeta' = positionMeta => s_openInterest' = s_openInterest
      /\ \A t \in Traders :
           LET p == positionMeta[t]
               q == positionMeta'[t]
           IN  q # p =>
                 s_openInterest' - s_openInterest =
                   IF IsOpen(q) /\ q.sizeInEth <= p.sizeInEth
                   THEN -ConvertEthToUsd(p.sizeInEth - q.sizeInEth, answer)
                   ELSE q.sizeInUsd - p.sizeInUsd ]_vars

\* Sizes that convert without a remainder: multiples of 1e8 wei.
ExactSizes == \A s \in Sizes : \E k \in Nat : PRICEFEED_PRECISION * s = WAD * k

(* While the price stands still and every size converts without a remain-  *)
(* der (ExactSizes), open interest is the sum of the recorded sizes, so no *)
(* close or liquidation can fail on s_openInterest -= sizeInUsd.           *)
OpenInterestExact ==
  s_openInterest = Total([t \in Traders |-> positionMeta[t].sizeInUsd])

(* Open interest within the limit stays within it, whoever acts: only a    *)
(* payout of the pool, which lowers the book with no share burnt, breaks   *)
(* it.                                                                     *)
LimitExceededOnlyByPayout ==
  [][ s_openInterest <= MaxUtilization(s_totalLiquidity) =>
        \/ s_openInterest' <= MaxUtilization(s_totalLiquidity')
        \/ s_totalLiquidity' < s_totalLiquidity /\ totalSupply' = totalSupply ]_vars

(* The value of a share falls only when the pool pays a trader.            *)
SharePriceFallsOnlyByPayout ==
  [][ (dai'[PoolContract] + 1) * (totalSupply + 1)
        < (dai[PoolContract] + 1) * (totalSupply' + 1) =>
        s_totalLiquidity' < s_totalLiquidity /\ totalSupply' = totalSupply ]_vars

-----------------------------------------------------------------------------
(* Liveness                                                                *)

\* Some account keeps looking for positions to liquidate; the reward is the
\* incentive.  Nobody else has to act.
LiquidatorsAct ==
  \A t \in Traders : WF_vars(\E caller \in Users : Liquidate(caller, t))

FairSpec == Spec /\ LiquidatorsAct

(* A position at or over the maximal leverage does not stay so.            *)
OverLeverageIsCleared ==
  \A t \in Traders : OverLeveraged(positionMeta[t]) ~> ~OverLeveraged(positionMeta[t])

-----------------------------------------------------------------------------
(* What tests and comments of the repository say                           *)

(* testdecreasePositionRevertsIfsizeisBig, test_closePosition...: once all *)
(* positions are closed, getOpenInterest() is 0.                           *)
FlatMeansNoOpenInterest ==
  (\A t \in Traders : ~IsOpen(positionMeta[t])) => s_openInterest = 0
=============================================================================
