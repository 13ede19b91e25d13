--------------------------- MODULE TradeX_proofs ----------------------------
(***************************************************************************)
(* Proofs about TradeX, for any traders, amounts, prices and token, and    *)
(* any positive scale factors and limits.  Every handler of TradeX changes *)
(* the position of one trader; TradeEffect says what such a step may do to *)
(* the rest of the state, each handler is shown to have that effect, and   *)
(* the invariant and the action properties follow from the effect.         *)
(***************************************************************************)
EXTENDS TradeX, LiquidityPool_proofs

-----------------------------------------------------------------------------
(* Arithmetic                                                              *)

(* Conversions and the fee are natural numbers while the feed answers a    *)
(* natural number.                                                         *)
LEMMA ConversionNat ==
  ASSUME NEW size \in Nat, NEW a \in Int, FeedOk(a)
  PROVE  ConvertEthToUsd(size, a) \in Nat /\ PositionFee(size, a) \in Nat
<1>1. EthInUsd(a) \in Nat
  BY MathAssumption, ProductNat DEF FeedOk, EthInUsd
<1>2. EthInUsd(a) * size \in Nat
  BY <1>1, ProductNat
<1>3. ConvertEthToUsd(size, a) \in Nat
  BY <1>2, MathAssumption, DivBounds DEF ConvertEthToUsd
<1> QED  BY <1>3, DivBounds DEF PositionFee

(* Converting no ETH yields nothing, whatever the feed answers.            *)
LEMMA ConvertZero ==
  ASSUME NEW a \in Int
  PROVE  ConvertEthToUsd(0, a) = 0
<1>1. EthInUsd(a) \in Int
  BY MathAssumption DEF EthInUsd
<1>2. EthInUsd(a) * 0 = 0
  BY <1>1
<1> QED  BY <1>2, MathAssumption DEF ConvertEthToUsd

(* calculateExitPrice returns a natural number when it does not revert.    *)
LEMMA ExitPriceNat ==
  ASSUME NEW sizeInUsd \in Nat, NEW size \in Nat, NEW collateral \in Int,
         ExitPriceOk(sizeInUsd, size, collateral)
  PROVE  ExitPrice(sizeInUsd, size, collateral) \in Nat
<1>1. sizeInUsd \div MAX_LEVERAGE \in Nat
  BY MathAssumption, DivBounds
<1>2. Maintenance(sizeInUsd) \in Nat
  BY <1>1, MathAssumption, ProductNat DEF Maintenance
<1>3. sizeInUsd - LossBudget(sizeInUsd, collateral) \in Nat
  BY <1>2 DEF ExitPriceOk, LossBudget
<1>4. size \in Nat \ {0}
  BY DEF ExitPriceOk
<1>5. (sizeInUsd - LossBudget(sizeInUsd, collateral)) \div size \in Nat
  BY <1>3, <1>4, DivBounds
<1> QED  BY <1>5, MathAssumption, ProductNat DEF ExitPrice

-----------------------------------------------------------------------------
(* The invariant                                                           *)

CollateralOf == [t \in Traders |-> positionMeta[t].collateral]

Shaped(p) ==
  /\ IsOpen(p) => p.sizeInEth > 0
  /\ ~IsOpen(p) => p = NoPosition

TradeXInv ==
  /\ PoolInv
  /\ positionMeta \in [Traders -> Position]
  /\ answer \in Answers
  /\ \A t \in Traders : Shaped(positionMeta[t])
  /\ IsFiniteSet(Units(CollateralOf))
  /\ CollateralBacked

\* How open interest follows a position that changes from p to q.
InterestChange(p, q) ==
  IF IsOpen(q) /\ q.sizeInEth <= p.sizeInEth
  THEN -ConvertEthToUsd(p.sizeInEth - q.sizeInEth, answer)
  ELSE q.sizeInUsd - p.sizeInUsd

\* What marking to the current price at a loss may do to a position's margin.
LossMarked(p, q) ==
  /\ UserPnL(p) < 0
  /\ q.sizeInEth <= p.sizeInEth
  /\ q.sizeInUsd = ConvertEthToUsd(q.sizeInEth, answer)

\* What a handler of TradeX may do, t being the trader whose position it is.
TradeEffect(t, q) ==
  /\ q \in Position
  /\ Shaped(q)
  /\ positionMeta' = [positionMeta EXCEPT ![t] = q]
  /\ dai' \in [Accounts -> Nat]
  /\ dai'[TradeXContract] - dai[TradeXContract]
       >= q.collateral - positionMeta[t].collateral
  /\ dai'[PoolContract] < dai[PoolContract] => s_totalLiquidity' < s_totalLiquidity
  /\ s_totalLiquidity' \in Nat
  /\ s_openInterest' \in Nat
  /\ s_openInterest' - s_openInterest = InterestChange(positionMeta[t], q)
  /\ s_openInterest <= MaxUtilization(s_totalLiquidity) =>
       \/ s_openInterest' <= MaxUtilization(s_totalLiquidity')
       \/ s_totalLiquidity' < s_totalLiquidity
  /\ Margined(q) \/ LossMarked(positionMeta[t], q)
  /\ IsOpen(positionMeta[t]) /\ ~IsOpen(q) =>
       \/ dai'[t] > dai[t]
       \/ OverLeveraged(positionMeta[t])
       \/ positionMeta[t].collateral + UserPnL(positionMeta[t]) = 0
  /\ IsOpen(positionMeta[t]) /\ ~IsOpen(q)
       /\ positionMeta[t].collateral + UserPnL(positionMeta[t]) < 0
       => OverLeveraged(positionMeta[t])
  /\ LiqPriceExact(q) \/ LossMarked(positionMeta[t], q)
  /\ \/ dai'[TradeXContract] >= dai[TradeXContract]
     \/ /\ q.collateral = 0
        /\ dai'[TradeXContract] = dai[TradeXContract] - positionMeta[t].collateral
  /\ UNCHANGED <<shares, totalSupply, tradeX, answer>>

TradeStep == \E t \in Traders, q \in Position : TradeEffect(t, q)

(* What the invariant says of the state a handler starts from.             *)
LEMMA InvFacts ==
  ASSUME TradeXInv, NEW t \in Traders
  PROVE  /\ t \in Accounts /\ TradeXContract \in Accounts /\ PoolContract \in Accounts
         /\ t # TradeXContract /\ t # PoolContract /\ TradeXContract # PoolContract
         /\ dai \in [Accounts -> Nat]
         /\ dai[t] \in Nat /\ dai[TradeXContract] \in Nat /\ dai[PoolContract] \in Nat
         /\ s_totalLiquidity \in Nat /\ s_openInterest \in Nat
         /\ positionMeta[t] \in Position
         /\ positionMeta[t].collateral \in Nat
         /\ positionMeta[t].sizeInEth \in Nat
         /\ positionMeta[t].sizeInUsd \in Nat
         /\ positionMeta[t].LiqPrice \in Nat
         /\ positionMeta[t].isLong \in {Neither, Long, Short}
         /\ Shaped(positionMeta[t])
         /\ answer \in Int
<1>1. t \in Users
  BY TradeXAssumption
<1>2. dai \in [Accounts -> Nat]
  BY DEF TradeXInv, PoolInv, PoolTypeOK, LedgerTypeOK
<1>3. positionMeta[t] \in Position
  BY DEF TradeXInv
<1> QED
  BY <1>1, <1>2, <1>3, LedgerAssumption, TradeXAssumption
     DEF TradeXInv, PoolInv, PoolTypeOK, Accounts, Position

-----------------------------------------------------------------------------
(* Every handler has the effect                                            *)

(* A position as the handlers record it.                                   *)
LEMMA PositionOfFacts ==
  ASSUME NEW isLong \in {Long, Short}, NEW collateral \in Nat,
         NEW sizeInEth \in Nat, NEW sizeInUsd \in Nat,
         ExitPriceOk(sizeInUsd, sizeInEth, collateral)
  PROVE  /\ PositionOf(isLong, collateral, sizeInEth, sizeInUsd) \in Position
         /\ Shaped(PositionOf(isLong, collateral, sizeInEth, sizeInUsd))
         /\ IsOpen(PositionOf(isLong, collateral, sizeInEth, sizeInUsd))
         /\ Margined(PositionOf(isLong, collateral, sizeInEth, sizeInUsd))
         /\ LiqPriceExact(PositionOf(isLong, collateral, sizeInEth, sizeInUsd))
         /\ PositionOf(isLong, collateral, sizeInEth, sizeInUsd).isLong = isLong
         /\ PositionOf(isLong, collateral, sizeInEth, sizeInUsd).collateral = collateral
         /\ PositionOf(isLong, collateral, sizeInEth, sizeInUsd).sizeInEth = sizeInEth
         /\ PositionOf(isLong, collateral, sizeInEth, sizeInUsd).sizeInUsd = sizeInUsd
<1> DEFINE price == ExitPrice(sizeInUsd, sizeInEth, collateral)
           q == [isLong |-> isLong, collateral |-> collateral, sizeInEth |-> sizeInEth,
                 sizeInUsd |-> sizeInUsd, LiqPrice |-> price]
<1>1. price \in Nat
  BY ExitPriceNat
<1>2. sizeInEth > 0
  BY DEF ExitPriceOk
<1>3. PositionOf(isLong, collateral, sizeInEth, sizeInUsd) = q
  BY DEF PositionOf
<1> HIDE DEF price
<1>4. q \in Position /\ Shaped(q) /\ IsOpen(q)
  BY <1>1, <1>2 DEF Position, Shaped, IsOpen, Neither, Long, Short
<1>5. Margined(q)
  <2>1. Maintenance(sizeInUsd) \in Nat
    BY MathAssumption, DivBounds, ProductNat DEF Maintenance
  <2> QED  BY <2>1 DEF Margined, ExitPriceOk, LossBudget
<1>6. LiqPriceExact(q)
  BY DEF LiqPriceExact, price
<1> QED  BY <1>3, <1>4, <1>5, <1>6

(* A transfer into TradeX.                                                 *)
LEMMA PaidIn ==
  ASSUME TradeXInv, NEW t \in Traders, NEW v \in Nat, CanMove(t, v),
         dai' = Moved(dai, t, TradeXContract, v)
  PROVE  /\ dai' \in [Accounts -> Nat]
         /\ dai'[TradeXContract] = dai[TradeXContract] + v
         /\ dai'[PoolContract] = dai[PoolContract]
<1>1. dai \in [Accounts -> Nat] /\ dai[t] >= v
      /\ t \in Accounts /\ TradeXContract \in Accounts /\ PoolContract \in Accounts
      /\ t # TradeXContract /\ t # PoolContract /\ TradeXContract # PoolContract
  BY InvFacts DEF CanMove
<1> QED  BY <1>1, MovedBalances

(* openPosition                                                            *)
LEMMA OpenPositionEffect ==
  ASSUME TradeXInv, NEW t \in Traders, NEW collateral \in Nat, NEW size \in Nat,
         NEW isLong \in {Long, Short},
         OpenPosition(t, collateral, size, isLong)
  PROVE  TradeStep
<1> DEFINE p == positionMeta[t]
           sizeInUsd == ConvertEthToUsd(size, answer)
           net == collateral - PositionFee(size, answer)
           q == PositionOf(isLong, net, size, sizeInUsd)
<1>1. /\ FeedOk(answer)
      /\ size >= MIN_SIZE
      /\ LeverageOk(net)
      /\ UtilizationOk(sizeInUsd)
      /\ ~IsOpen(p)
      /\ CanMove(t, collateral)
      /\ ExitPriceOk(sizeInUsd, size, net)
      /\ dai' = Moved(dai, t, TradeXContract, collateral)
      /\ positionMeta' = [positionMeta EXCEPT ![t] = q]
      /\ s_openInterest' = s_openInterest + sizeInUsd
      /\ UNCHANGED <<poolVars, answer>>
  BY DEF OpenPosition
<1>2. sizeInUsd \in Nat /\ PositionFee(size, answer) \in Nat
  BY <1>1, ConversionNat, InvFacts
<1>3. net \in Nat /\ net <= collateral
  BY <1>1, <1>2 DEF LeverageOk
<1>5. size > 0
  BY <1>1, TradeXAssumption
<1>6. p = NoPosition
  BY <1>1, InvFacts DEF Shaped
<1>7. /\ dai' \in [Accounts -> Nat]
      /\ dai'[TradeXContract] = dai[TradeXContract] + collateral
      /\ dai'[PoolContract] = dai[PoolContract]
  BY <1>1, PaidIn
<1> HIDE DEF sizeInUsd, net
<1>8. /\ q \in Position /\ Shaped(q) /\ IsOpen(q) /\ Margined(q) /\ LiqPriceExact(q)
      /\ q.collateral = net
      /\ q.sizeInEth = size
      /\ q.sizeInUsd = sizeInUsd
  BY <1>1, <1>2, <1>3, PositionOfFacts
<1> HIDE DEF q
<1>9. s_openInterest' - s_openInterest = InterestChange(p, q)
  BY <1>1, <1>2, <1>5, <1>6, <1>8, InvFacts DEF InterestChange, NoPosition
<1>10. dai'[TradeXContract] - dai[TradeXContract] >= q.collateral - p.collateral
  BY <1>3, <1>6, <1>7, <1>8, InvFacts DEF NoPosition
<1>11. TradeEffect(t, q)
  BY <1>1, <1>2, <1>7, <1>8, <1>9, <1>10, InvFacts DEF TradeEffect, UtilizationOk, poolVars
<1> QED  BY <1>8, <1>11 DEF TradeStep

(* increasePosition                                                        *)
LEMMA IncreasePositionEffect ==
  ASSUME TradeXInv, NEW t \in Traders, NEW size \in Nat, IncreasePosition(t, size)
  PROVE  TradeStep
<1> DEFINE p == positionMeta[t]
           addedInUsd == ConvertEthToUsd(size, answer)
           sizeInUsd == p.sizeInUsd + addedInUsd
           sizeInEth == p.sizeInEth + size
           net == p.collateral - PositionFee(size, answer)
           q == PositionOf(p.isLong, net, sizeInEth, sizeInUsd)
<1>1. /\ FeedOk(answer)
      /\ IsOpen(p)
      /\ LeverageOk(net)
      /\ UtilizationOk(addedInUsd)
      /\ ExitPriceOk(sizeInUsd, sizeInEth, net)
      /\ positionMeta' = [positionMeta EXCEPT ![t] = q]
      /\ s_openInterest' = s_openInterest + addedInUsd
      /\ UNCHANGED <<dai, poolVars, answer>>
  BY DEF IncreasePosition, WithinMaxLeverage
<1>2. addedInUsd \in Nat /\ PositionFee(size, answer) \in Nat
  BY <1>1, ConversionNat, InvFacts
<1>3. size = 0 => addedInUsd = 0
  BY ConvertZero, InvFacts
<1>4. net \in Nat /\ net <= p.collateral
  BY <1>1, <1>2, InvFacts DEF LeverageOk
<1>5. sizeInUsd \in Nat /\ sizeInEth \in Nat
  BY <1>2, InvFacts
<1>6. p.isLong \in {Long, Short}
  BY <1>1, InvFacts DEF IsOpen
<1>7. p.sizeInEth > 0
  BY <1>1, InvFacts DEF Shaped
<1>8. /\ q \in Position /\ Shaped(q) /\ IsOpen(q) /\ Margined(q) /\ LiqPriceExact(q)
      /\ q.collateral = net
      /\ q.sizeInEth = sizeInEth
      /\ q.sizeInUsd = sizeInUsd
  <2> HIDE DEF sizeInUsd, net, sizeInEth
  <2> QED  BY <1>1, <1>4, <1>5, <1>6, PositionOfFacts
<1> HIDE DEF q
<1>9. s_openInterest' - s_openInterest = InterestChange(p, q)
  <2>1. s_openInterest' - s_openInterest = addedInUsd
    BY <1>1, <1>2, InvFacts
  <2>2. q.sizeInUsd - p.sizeInUsd = addedInUsd
    BY <1>2, <1>8, InvFacts
  <2>3. CASE size = 0
    <3>1. p.sizeInEth - q.sizeInEth = 0
      BY <1>8, <2>3, InvFacts
    <3>2. InterestChange(p, q) = 0
      BY <1>3, <2>2, <2>3, <3>1, ConvertZero, InvFacts DEF InterestChange
    <3> QED  BY <1>3, <2>1, <2>3, <3>2
  <2>4. CASE size > 0
    BY <1>7, <1>8, <2>1, <2>2, <2>4, InvFacts DEF InterestChange
  <2> QED  BY <2>3, <2>4
<1>10. 0 >= q.collateral - p.collateral
  BY <1>4, <1>8, InvFacts
<1> HIDE DEF addedInUsd
<1>11. TradeEffect(t, q)
  BY <1>1, <1>2, <1>8, <1>9, <1>10, InvFacts DEF TradeEffect, UtilizationOk, poolVars
<1> QED  BY <1>8, <1>11 DEF TradeStep

(* A change of collateral and LiqPrice alone, as updateCollateral and      *)
(* decreaseCollateral make it.                                             *)
LEMMA CollateralChange ==
  ASSUME TradeXInv, NEW t \in Traders, NEW collateral \in Nat,
         IsOpen(positionMeta[t]),
         ExitPriceOk(positionMeta[t].sizeInUsd, positionMeta[t].sizeInEth, collateral),
         positionMeta' = [positionMeta EXCEPT
           ![t] = PositionOf(positionMeta[t].isLong, collateral,
                             positionMeta[t].sizeInEth, positionMeta[t].sizeInUsd)],
         dai' \in [Accounts -> Nat],
         dai'[TradeXContract] - dai[TradeXContract] >= collateral - positionMeta[t].collateral,
         dai'[TradeXContract] >= dai[TradeXContract],
         dai'[PoolContract] = dai[PoolContract],
         UNCHANGED <<poolVars, s_openInterest, answer>>
  PROVE  TradeStep
<1> DEFINE p == positionMeta[t]
           q == PositionOf(p.isLong, collateral, p.sizeInEth, p.sizeInUsd)
<1>1. /\ q \in Position /\ Shaped(q) /\ IsOpen(q) /\ Margined(q) /\ LiqPriceExact(q)
      /\ q.collateral = collateral
      /\ q.sizeInEth = p.sizeInEth
      /\ q.sizeInUsd = p.sizeInUsd
  <2>1. p.isLong \in {Long, Short}
    BY InvFacts DEF IsOpen
  <2>2. p.sizeInEth \in Nat /\ p.sizeInUsd \in Nat
    BY InvFacts
  <2> QED  BY <2>1, <2>2, PositionOfFacts
<1> HIDE DEF q
<1>2. s_openInterest' - s_openInterest = InterestChange(p, q)
  <2>1. p.sizeInEth - q.sizeInEth = 0 /\ q.sizeInUsd - p.sizeInUsd = 0
    BY <1>1, InvFacts
  <2>2. s_openInterest' - s_openInterest = 0
    BY InvFacts
  <2>3. InterestChange(p, q) = 0
    BY <2>1, ConvertZero, InvFacts DEF InterestChange
  <2> QED  BY <2>2, <2>3
<1>3. dai'[PoolContract] \in Nat /\ ~(dai'[PoolContract] < dai[PoolContract])
  BY InvFacts
<1>4. positionMeta' = [positionMeta EXCEPT ![t] = q]
  BY DEF q
<1>5. TradeEffect(t, q)
  BY <1>1, <1>2, <1>3, <1>4, InvFacts DEF TradeEffect, poolVars
<1> QED  BY <1>1, <1>5 DEF TradeStep

(* updateCollateral                                                        *)
LEMMA UpdateCollateralEffect ==
  ASSUME TradeXInv, NEW t \in Traders, NEW amount \in Nat, UpdateCollateral(t, amount)
  PROVE  TradeStep
<1>1. /\ dai' \in [Accounts -> Nat]
      /\ dai'[TradeXContract] = dai[TradeXContract] + amount
      /\ dai'[PoolContract] = dai[PoolContract]
  BY PaidIn DEF UpdateCollateral
<1>2. positionMeta[t].collateral + amount \in Nat
  BY InvFacts
<1>3. /\ dai'[TradeXContract] - dai[TradeXContract]
        >= (positionMeta[t].collateral + amount) - positionMeta[t].collateral
      /\ dai'[TradeXContract] >= dai[TradeXContract]
  BY <1>1, InvFacts
<1> QED
  BY <1>1, <1>2, <1>3, CollateralChange DEF UpdateCollateral

(* decreaseCollateral, when it does not close the position                 *)
LEMMA ReduceCollateralEffect ==
  ASSUME TradeXInv, NEW t \in Traders, NEW amount \in Nat, ReduceCollateral(t, amount)
  PROVE  TradeStep
<1> DEFINE p == positionMeta[t]
           collateral == p.collateral - amount
<1>1. /\ p.collateral # 0
      /\ LeverageOk(collateral)
      /\ ExitPriceOk(p.sizeInUsd, p.sizeInEth, collateral)
      /\ positionMeta' = [positionMeta EXCEPT
           ![t] = PositionOf(p.isLong, collateral, p.sizeInEth, p.sizeInUsd)]
      /\ UNCHANGED <<dai, poolVars, s_openInterest, answer>>
  BY DEF ReduceCollateral, WithinMaxLeverage
<1>2. collateral \in Nat /\ collateral <= p.collateral
  BY <1>1, InvFacts DEF LeverageOk
<1>3. IsOpen(p)
  BY <1>1, InvFacts DEF Shaped, NoPosition
<1> HIDE DEF collateral
<1>4. /\ dai'[TradeXContract] - dai[TradeXContract] >= collateral - p.collateral
      /\ dai'[TradeXContract] >= dai[TradeXContract]
  BY <1>1, <1>2, InvFacts
<1> QED
  BY <1>1, <1>2, <1>3, <1>4, InvFacts, CollateralChange

(* A transfer out of the pool that TradeX calls for.                       *)
LEMMA PaidByPool ==
  ASSUME TradeXInv, NEW t \in Traders, NEW v \in Nat, PoolPays(t, v)
  PROVE  /\ dai' \in [Accounts -> Nat]
         /\ dai'[TradeXContract] = dai[TradeXContract]
         /\ dai'[PoolContract] = dai[PoolContract] - v
         /\ dai'[t] = dai[t] + v
         /\ s_totalLiquidity' = s_totalLiquidity - v
         /\ s_totalLiquidity' \in Nat
<1>1. /\ dai \in [Accounts -> Nat] /\ dai[PoolContract] >= v
      /\ t \in Accounts /\ TradeXContract \in Accounts /\ PoolContract \in Accounts
      /\ t # TradeXContract /\ t # PoolContract /\ TradeXContract # PoolContract
      /\ s_totalLiquidity \in Nat /\ s_totalLiquidity >= v
      /\ dai' = Moved(dai, PoolContract, t, v)
      /\ s_totalLiquidity' = s_totalLiquidity - v
  BY InvFacts DEF PoolPays, TransferOutOk, CanMove
<1> QED  BY <1>1, MovedBalances

(* Profit and loss are whole numbers of units.                             *)
LEMMA PnLInt ==
  ASSUME TradeXInv, NEW t \in Traders, FeedOk(answer)
  PROVE  UserPnL(positionMeta[t]) \in Int
<1>1. ConvertEthToUsd(positionMeta[t].sizeInEth, answer) \in Nat
  BY InvFacts, ConversionNat
<1> QED  BY <1>1, InvFacts DEF UserPnL

(* decreasePosition, when it does not close the position                   *)
LEMMA ReducePositionEffect ==
  ASSUME TradeXInv, NEW t \in Traders, NEW size \in Nat, ReducePosition(t, size)
  PROVE  TradeStep
<1> DEFINE p == positionMeta[t]
           pnl == UserPnL(p)
           fee == PositionFee(size, answer)
           taken == ConvertEthToUsd(size, answer)
           sizeInEth == p.sizeInEth - size
           sizeInUsd == RemainingSizeInUsd(p, size)
           lost == IF pnl < 0 THEN -pnl ELSE 0
           marked == PositionOf(p.isLong, p.collateral - fee, sizeInEth, sizeInUsd)
           q == [marked EXCEPT !.collateral = @ - lost]
<1>1. /\ FeedOk(answer)
      /\ size < p.sizeInEth
      /\ IsOpen(p)
      /\ ExitPriceOk(sizeInUsd, sizeInEth, p.collateral - fee)
      /\ p.collateral - lost >= fee
      /\ s_openInterest >= taken
      /\ positionMeta' = [positionMeta EXCEPT ![t] = q]
      /\ s_openInterest' = s_openInterest - taken
      /\ UNCHANGED <<shares, totalSupply, tradeX, answer>>
  BY DEF ReducePosition
<1>2. \/ pnl > 0 /\ PoolPays(t, pnl)
      \/ UNCHANGED <<dai, s_totalLiquidity>>
  BY DEF ReducePosition
<1>3. pnl \in Int /\ fee \in Nat /\ taken \in Nat
  BY <1>1, PnLInt, ConversionNat, InvFacts
<1>4. lost \in Nat
  BY <1>3
<1>5. sizeInEth \in Nat /\ p.sizeInEth - sizeInEth = size /\ sizeInEth <= p.sizeInEth
  BY <1>1, InvFacts
<1>6. sizeInUsd \in Nat
  <2>1. sizeInUsd = ConvertEthToUsd(sizeInEth, answer)
    BY DEF RemainingSizeInUsd
  <2> HIDE DEF sizeInEth
  <2> QED  BY <1>1, <1>5, <2>1, ConversionNat, InvFacts
<1> HIDE DEF sizeInUsd, fee, lost, taken, pnl
<1>7. p.collateral - fee \in Nat /\ p.collateral - fee - lost \in Nat
  BY <1>1, <1>3, <1>4, InvFacts
<1>8. /\ marked \in Position /\ Shaped(marked) /\ IsOpen(marked) /\ Margined(marked)
      /\ LiqPriceExact(marked)
      /\ marked.collateral = p.collateral - fee
      /\ marked.sizeInEth = sizeInEth
      /\ marked.sizeInUsd = sizeInUsd
  <2>1. p.isLong \in {Long, Short}
    BY <1>1, InvFacts DEF IsOpen
  <2> HIDE DEF sizeInEth
  <2> QED  BY <1>1, <1>5, <1>6, <1>7, <2>1, PositionOfFacts
<1> HIDE DEF marked
<1>9. /\ q \in Position /\ Shaped(q) /\ IsOpen(q)
      /\ q.collateral = p.collateral - fee - lost
      /\ q.sizeInEth = sizeInEth
      /\ q.sizeInUsd = sizeInUsd
  <2>1. marked.sizeInEth > 0
    BY <1>8 DEF Shaped
  <2> HIDE DEF sizeInEth
  <2> QED  BY <1>7, <1>8, <2>1 DEF Position, Shaped, IsOpen, Neither
<1>10. /\ dai' \in [Accounts -> Nat]
       /\ dai'[TradeXContract] = dai[TradeXContract]
       /\ s_totalLiquidity' \in Nat
       /\ \/ s_totalLiquidity' < s_totalLiquidity
          \/ s_totalLiquidity' = s_totalLiquidity /\ dai'[PoolContract] = dai[PoolContract]
  <2>1. CASE pnl > 0 /\ PoolPays(t, pnl)
    BY <1>3, <2>1, PaidByPool, InvFacts
  <2>2. CASE UNCHANGED <<dai, s_totalLiquidity>>
    BY <2>2, InvFacts
  <2> QED  BY <1>2, <2>1, <2>2
<1> HIDE DEF q
<1>11. s_openInterest' - s_openInterest = InterestChange(p, q)
  <2>1. s_openInterest' - s_openInterest = -taken
    BY <1>1, <1>3, InvFacts
  <2>2. InterestChange(p, q) = -taken
    BY <1>5, <1>9 DEF InterestChange, taken
  <2> QED  BY <2>1, <2>2
<1>12. /\ s_openInterest' \in Nat
       /\ s_openInterest' <= s_openInterest
       /\ dai'[TradeXContract] - dai[TradeXContract] >= q.collateral - p.collateral
  BY <1>1, <1>3, <1>4, <1>9, <1>10, InvFacts
<1>13. s_openInterest <= MaxUtilization(s_totalLiquidity) =>
         \/ s_openInterest' <= MaxUtilization(s_totalLiquidity')
         \/ s_totalLiquidity' < s_totalLiquidity
  <2>1. MaxUtilization(s_totalLiquidity) \in Nat
    BY MaxUtilizationBound, InvFacts
  <2> QED  BY <1>10, <1>12, <2>1, InvFacts
<1>14. Margined(q) \/ LossMarked(p, q)
  <2>1. CASE pnl < 0
    BY <1>5, <1>9, <2>1 DEF LossMarked, pnl, sizeInUsd, RemainingSizeInUsd
  <2>2. CASE ~(pnl < 0)
    <3>1. q.collateral = marked.collateral
      BY <1>7, <1>8, <1>9, <2>2 DEF lost
    <3> QED  BY <1>8, <1>9, <3>1 DEF Margined
  <2> QED  BY <2>1, <2>2
<1>15. LiqPriceExact(q) \/ LossMarked(p, q)
  <2>1. CASE pnl < 0
    BY <1>5, <1>9, <2>1 DEF LossMarked, pnl, sizeInUsd, RemainingSizeInUsd
  <2>2. CASE ~(pnl < 0)
    <3>1. q.LiqPrice = marked.LiqPrice
      BY <1>8 DEF q, Position
    <3>2. q.collateral = marked.collateral
      BY <1>7, <1>8, <1>9, <2>2 DEF lost
    <3> QED  BY <1>8, <1>9, <3>1, <3>2 DEF LiqPriceExact
  <2> QED  BY <2>1, <2>2
<1>16. dai'[TradeXContract] >= dai[TradeXContract]
  BY <1>10, InvFacts
<1>17. TradeEffect(t, q)
  BY <1>1, <1>9, <1>10, <1>11, <1>12, <1>13, <1>14, <1>15, <1>16, InvFacts DEF TradeEffect
<1> QED  BY <1>9, <1>17 DEF TradeStep

(* Every deletion: TradeX gives out no more than the collateral, and the   *)
(* book falls if the pool gives out anything.                              *)
LEMMA DeletionEffect ==
  ASSUME TradeXInv, NEW t \in Traders, DeletePosition(t),
         dai' \in [Accounts -> Nat],
         \/ dai'[TradeXContract] >= dai[TradeXContract]
         \/ dai'[TradeXContract] = dai[TradeXContract] - positionMeta[t].collateral,
         s_totalLiquidity' \in Nat,
         \/ s_totalLiquidity' < s_totalLiquidity
         \/ s_totalLiquidity' = s_totalLiquidity /\ dai'[PoolContract] >= dai[PoolContract],
         \/ dai'[t] > dai[t]
         \/ OverLeveraged(positionMeta[t])
         \/ positionMeta[t].collateral + UserPnL(positionMeta[t]) = 0,
         positionMeta[t].collateral + UserPnL(positionMeta[t]) < 0
           => OverLeveraged(positionMeta[t]),
         UNCHANGED <<shares, totalSupply, tradeX, answer>>
  PROVE  TradeStep
<1> DEFINE p == positionMeta[t]
           q == NoPosition
<1>1. /\ q \in Position /\ Shaped(q) /\ ~IsOpen(q) /\ Margined(q) /\ LiqPriceExact(q)
      /\ q.collateral = 0 /\ q.sizeInUsd = 0
  BY DEF NoPosition, Position, Shaped, IsOpen, Margined, LiqPriceExact, Neither
<1>2. /\ s_openInterest >= p.sizeInUsd
      /\ s_openInterest' = s_openInterest - p.sizeInUsd
      /\ positionMeta' = [positionMeta EXCEPT ![t] = q]
  BY DEF DeletePosition
<1> HIDE DEF q
<1>3. s_openInterest' - s_openInterest = InterestChange(p, q)
  BY <1>1, <1>2, InvFacts DEF InterestChange
<1>4. s_openInterest' \in Nat /\ s_openInterest' <= s_openInterest
  BY <1>2, InvFacts
<1>5. dai'[TradeXContract] - dai[TradeXContract] >= q.collateral - p.collateral
  BY <1>1, InvFacts
<1>6. dai'[PoolContract] < dai[PoolContract] => s_totalLiquidity' < s_totalLiquidity
  BY InvFacts
<1>7. s_openInterest <= MaxUtilization(s_totalLiquidity) =>
        \/ s_openInterest' <= MaxUtilization(s_totalLiquidity')
        \/ s_totalLiquidity' < s_totalLiquidity
  <2>1. MaxUtilization(s_totalLiquidity) \in Nat
    BY MaxUtilizationBound, InvFacts
  <2> QED  BY <1>4, <2>1, InvFacts
<1>8. TradeEffect(t, q)
  BY <1>1, <1>2, <1>3, <1>4, <1>5, <1>6, <1>7 DEF TradeEffect
<1> QED  BY <1>1, <1>8 DEF TradeStep

(* closePosition                                                           *)
LEMMA ClosePositionEffect ==
  ASSUME TradeXInv, NEW t \in Traders, ClosePosition(t)
  PROVE  TradeStep
<1> DEFINE p == positionMeta[t]
           pnl == UserPnL(p)
<1>1. /\ FeedOk(answer)
      /\ p.collateral # 0
      /\ DeletePosition(t)
      /\ UNCHANGED <<shares, totalSupply, tradeX, answer>>
  BY DEF ClosePosition
<1>2. \/ /\ pnl > 0
         /\ TransferOutOk(pnl)
         /\ CanMove(TradeXContract, p.collateral)
         /\ dai' = Moved(Moved(dai, PoolContract, t, pnl), TradeXContract, t, p.collateral)
         /\ s_totalLiquidity' = s_totalLiquidity - pnl
      \/ /\ pnl < 0
         /\ p.collateral + pnl >= 0
         /\ PoolPays(t, p.collateral + pnl)
      \/ /\ pnl = 0
         /\ CanMove(TradeXContract, p.collateral)
         /\ dai' = Moved(dai, TradeXContract, t, p.collateral)
         /\ UNCHANGED s_totalLiquidity
  BY DEF ClosePosition
<1>3. pnl \in Int /\ p.collateral \in Nat
  BY <1>1, PnLInt, InvFacts
<1> HIDE DEF pnl
<1>4. /\ dai \in [Accounts -> Nat]
      /\ t \in Accounts /\ TradeXContract \in Accounts /\ PoolContract \in Accounts
      /\ t # TradeXContract /\ t # PoolContract /\ TradeXContract # PoolContract
      /\ dai[t] \in Nat /\ dai[TradeXContract] \in Nat /\ dai[PoolContract] \in Nat
      /\ s_totalLiquidity \in Nat
  BY InvFacts
<1>5. /\ dai' \in [Accounts -> Nat]
      /\ \/ dai'[TradeXContract] >= dai[TradeXContract]
         \/ dai'[TradeXContract] = dai[TradeXContract] - p.collateral
      /\ s_totalLiquidity' \in Nat
      /\ p.collateral + pnl >= 0
      /\ \/ s_totalLiquidity' < s_totalLiquidity
         \/ s_totalLiquidity' = s_totalLiquidity /\ dai'[PoolContract] >= dai[PoolContract]
      /\ dai'[t] > dai[t] \/ p.collateral + pnl = 0
  <2>1. CASE /\ pnl > 0
             /\ TransferOutOk(pnl)
             /\ CanMove(TradeXContract, p.collateral)
             /\ dai' = Moved(Moved(dai, PoolContract, t, pnl), TradeXContract, t, p.collateral)
             /\ s_totalLiquidity' = s_totalLiquidity - pnl
    <3> DEFINE paid == Moved(dai, PoolContract, t, pnl)
    <3>1. pnl \in Nat /\ dai[PoolContract] >= pnl /\ s_totalLiquidity >= pnl
      BY <1>3, <2>1 DEF TransferOutOk, CanMove
    <3>2. /\ paid \in [Accounts -> Nat]
          /\ paid[TradeXContract] = dai[TradeXContract]
          /\ paid[t] = dai[t] + pnl
      BY <1>4, <3>1, MovedBalances
    <3>3. paid[TradeXContract] >= p.collateral
      BY <2>1, <3>2 DEF CanMove
    <3>4. dai' = Moved(paid, TradeXContract, t, p.collateral)
      BY <2>1
    <3> HIDE DEF paid
    <3>5. /\ dai' \in [Accounts -> Nat]
          /\ dai'[TradeXContract] = dai[TradeXContract] - p.collateral
          /\ dai'[t] = paid[t] + p.collateral
      <4>1. /\ p.collateral \in Nat /\ t \in Accounts /\ TradeXContract \in Accounts
            /\ TradeXContract # t
        BY <1>3, <1>4
      <4>2. /\ dai' \in [Accounts -> Nat]
            /\ dai'[TradeXContract] = paid[TradeXContract] - p.collateral
            /\ dai'[t] = paid[t] + p.collateral
        BY <3>2, <3>3, <3>4, <4>1, MovedBalances
      <4> QED  BY <3>2, <4>2
    <3>6. s_totalLiquidity' \in Nat /\ s_totalLiquidity' < s_totalLiquidity
      BY <1>4, <2>1, <3>1
    <3>7. dai'[t] > dai[t]
      BY <1>3, <1>4, <2>1, <3>2, <3>5
    <3>8. dai'[TradeXContract] = dai[TradeXContract] - p.collateral /\ p.collateral + pnl >= 0
      BY <1>3, <2>1, <3>2, <3>5
    <3> QED  BY <3>5, <3>6, <3>7, <3>8
  <2>2. CASE /\ p.collateral + pnl >= 0
             /\ PoolPays(t, p.collateral + pnl)
    <3>1. p.collateral + pnl \in Nat
      BY <1>3, <2>2
    <3> DEFINE left == p.collateral + pnl
    <3>2. left \in Nat /\ PoolPays(t, left)
      BY <2>2, <3>1
    <3> HIDE DEF left
    <3>3. /\ dai' \in [Accounts -> Nat]
          /\ dai'[TradeXContract] = dai[TradeXContract]
          /\ dai'[PoolContract] = dai[PoolContract] - left
          /\ dai'[t] = dai[t] + left
          /\ s_totalLiquidity' = s_totalLiquidity - left
          /\ s_totalLiquidity' \in Nat
      BY <3>2, PaidByPool
    <3> QED  BY <1>3, <1>4, <3>2, <3>3 DEF left
  <2>3. CASE /\ pnl = 0
             /\ CanMove(TradeXContract, p.collateral)
             /\ dai' = Moved(dai, TradeXContract, t, p.collateral)
             /\ UNCHANGED s_totalLiquidity
    <3>1. dai[TradeXContract] >= p.collateral
      BY <2>3 DEF CanMove
    <3>2. /\ dai' \in [Accounts -> Nat]
          /\ dai'[TradeXContract] = dai[TradeXContract] - p.collateral
          /\ dai'[PoolContract] = dai[PoolContract]
          /\ dai'[t] = dai[t] + p.collateral
      BY <1>3, <1>4, <2>3, <3>1, MovedBalances
    <3> QED  BY <1>1, <1>3, <1>4, <2>3, <3>2
  <2> QED  BY <1>2, <2>1, <2>2, <2>3
<1>6. ~(p.collateral + pnl < 0)
  BY <1>3, <1>5
<1> QED  BY <1>1, <1>5, <1>6, DeletionEffect DEF pnl

(* liquidate                                                               *)
LEMMA LiquidateEffect ==
  ASSUME TradeXInv, NEW caller \in Users, NEW t \in Traders, Liquidate(caller, t)
  PROVE  TradeStep
<1> DEFINE p == positionMeta[t]
           reward == p.collateral \div liquidator_fee
           rest == p.collateral - reward
           rewarded == Moved(dai, TradeXContract, caller, reward)
<1>1. /\ dai[TradeXContract] >= p.collateral
      /\ dai' = Moved(rewarded, TradeXContract, PoolContract, rest)
      /\ OverLeveraged(p)
      /\ DeletePosition(t)
      /\ UNCHANGED <<shares, totalSupply, s_totalLiquidity, tradeX, answer>>
  BY DEF Liquidate, CanMove, poolVars
<1>2. /\ dai \in [Accounts -> Nat]
      /\ caller \in Accounts /\ TradeXContract \in Accounts /\ PoolContract \in Accounts
      /\ caller # TradeXContract /\ caller # PoolContract /\ TradeXContract # PoolContract
      /\ dai[TradeXContract] \in Nat /\ dai[PoolContract] \in Nat
      /\ s_totalLiquidity \in Nat /\ p.collateral \in Nat
  BY InvFacts, LedgerAssumption DEF Accounts
<1>3. reward \in Nat /\ rest \in Nat /\ reward + rest = p.collateral
  BY <1>2 DEF liquidator_fee
<1> HIDE DEF reward, rest
<1>4. /\ rewarded \in [Accounts -> Nat]
      /\ rewarded[TradeXContract] = dai[TradeXContract] - reward
      /\ rewarded[PoolContract] = dai[PoolContract]
  BY <1>1, <1>2, <1>3, MovedBalances
<1> HIDE DEF rewarded
<1>5. rewarded[TradeXContract] >= rest
  BY <1>1, <1>2, <1>3, <1>4
<1>6. /\ dai' \in [Accounts -> Nat]
      /\ dai'[TradeXContract] = rewarded[TradeXContract] - rest
      /\ dai'[PoolContract] = rewarded[PoolContract] + rest
  BY <1>1, <1>2, <1>3, <1>4, <1>5, MovedBalances
<1>7. /\ dai'[TradeXContract] = dai[TradeXContract] - p.collateral
      /\ dai'[PoolContract] >= dai[PoolContract]
  BY <1>2, <1>3, <1>4, <1>6
<1> QED  BY <1>1, <1>2, <1>6, <1>7, DeletionEffect

(* Every step of a trader or a liquidator.                                 *)
LEMMA HandlerEffect ==
  ASSUME TradeXInv, (\E t \in Traders : TraderStep(t)) \/ LiquidationStep
  PROVE  TradeStep
<1>1. CASE LiquidationStep
  BY <1>1, LiquidateEffect DEF LiquidationStep
<1>2. ASSUME NEW t \in Traders, TraderStep(t)
      PROVE  TradeStep
  <2>1. CASE \E c \in Collaterals, s \in Sizes, l \in {Long, Short} : OpenPosition(t, c, s, l)
    BY <2>1, TradeXAssumption, OpenPositionEffect
  <2>2. CASE \E s \in Sizes : IncreasePosition(t, s)
    BY <2>2, TradeXAssumption, IncreasePositionEffect
  <2>3. CASE \E s \in Sizes : ReducePosition(t, s)
    BY <2>3, TradeXAssumption, ReducePositionEffect
  <2>4. CASE \E c \in Collaterals : UpdateCollateral(t, c)
    BY <2>4, TradeXAssumption, UpdateCollateralEffect
  <2>5. CASE \E a \in Reductions : ReduceCollateral(t, a)
    BY <2>5, TradeXAssumption, ReduceCollateralEffect
  <2>6. CASE ClosePosition(t)
    BY <2>6, ClosePositionEffect
  <2> QED
    BY <1>2, <2>1, <2>2, <2>3, <2>4, <2>5, <2>6
       DEF TraderStep, DecreasePosition, DecreaseCollateral
<1> QED  BY <1>1, <1>2

-----------------------------------------------------------------------------
(* Every step preserves the invariant                                      *)

(* The total of the collateral follows the one position that changes.      *)
LEMMA TradeEffectTotal ==
  ASSUME TradeXInv, NEW t \in Traders, NEW q \in Position, TradeEffect(t, q)
  PROVE  /\ IsFiniteSet(Units(CollateralOf))'
         /\ TotalCollateral \in Nat /\ TotalCollateral' \in Nat
         /\ TotalCollateral' = TotalCollateral - positionMeta[t].collateral + q.collateral
<1> DEFINE f == CollateralOf
           g == CollateralOf'
<1>1. positionMeta \in [Traders -> Position] /\ positionMeta[t].collateral \in Nat
  BY InvFacts DEF TradeXInv
<1>2. q.collateral \in Nat /\ positionMeta' = [positionMeta EXCEPT ![t] = q]
  BY DEF TradeEffect, Position
<1>3. /\ DOMAIN f = Traders /\ DOMAIN g = Traders
      /\ f[t] = positionMeta[t].collateral /\ g[t] = q.collateral
      /\ \A u \in Traders : u # t => g[u] = f[u]
  BY <1>1, <1>2 DEF CollateralOf
<1>4. IsFiniteSet(Units(f))
  BY DEF TradeXInv
<1> HIDE DEF f, g
<1>5. /\ IsFiniteSet(Units(g)) /\ Total(f) \in Nat /\ Total(g) \in Nat
      /\ Total(g) = Total(f) - f[t] + g[t]
  BY <1>1, <1>2, <1>3, <1>4, TotalUpdate
<1> QED  BY <1>3, <1>5 DEF f, g, CollateralOf, TotalCollateral

(* A handler of TradeX, by its effect.                                     *)
LEMMA TradeStepInv ==
  ASSUME TradeXInv, TradeStep
  PROVE  TradeXInv'
<1>1. PICK t \in Traders, q \in Position : TradeEffect(t, q)
  BY DEF TradeStep
<1>2. PoolInv'
  BY <1>1 DEF TradeEffect, TradeXInv, PoolInv, PoolTypeOK, LedgerTypeOK, SupplyIsSumOfShares
<1>3. /\ positionMeta' \in [Traders -> Position]
      /\ \A u \in Traders : Shaped(positionMeta'[u])
  <2>1. Shaped(q) /\ positionMeta' = [positionMeta EXCEPT ![t] = q]
    BY <1>1 DEF TradeEffect
  <2> QED  BY <2>1 DEF TradeXInv
<1>4. answer' \in Answers
  BY <1>1 DEF TradeEffect, TradeXInv
<1>5. IsFiniteSet(Units(CollateralOf))'
  BY <1>1, TradeEffectTotal
<1>6. CollateralBacked'
  <2>1. /\ TotalCollateral \in Nat /\ TotalCollateral' \in Nat
        /\ TotalCollateral' = TotalCollateral - positionMeta[t].collateral + q.collateral
    BY <1>1, TradeEffectTotal
  <2>2. TotalCollateral <= dai[TradeXContract]
    BY DEF TradeXInv, CollateralBacked
  <2>3. dai'[TradeXContract] - dai[TradeXContract] >= q.collateral - positionMeta[t].collateral
    BY <1>1 DEF TradeEffect
  <2>4. dai'[TradeXContract] \in Nat
    BY <1>1, InvFacts DEF TradeEffect
  <2>5. q.collateral \in Nat
    BY DEF Position
  <2> QED  BY <2>1, <2>2, <2>3, <2>4, <2>5, InvFacts DEF CollateralBacked
<1>7. (\A u \in Traders : Shaped(positionMeta[u]))'
  BY <1>3
<1> QED  BY <1>2, <1>3, <1>4, <1>5, <1>6, <1>7 DEF TradeXInv

(* Providers, payouts, the owner and DAI that arrives uncalled leave       *)
(* TradeX's DAI where it is, or add to it, and do not touch open interest. *)
LEMMA PoolStepKeepsTradeX ==
  ASSUME PoolTypeOK, ProviderStep \/ DirectPayout \/ OwnerStep \/ ArrivalStep
  PROVE  dai'[TradeXContract] >= dai[TradeXContract] /\ s_openInterest' = s_openInterest
<1>1. /\ dai \in [Accounts -> Nat]
      /\ TradeXContract \in Accounts /\ PoolContract \in Accounts
      /\ TradeXContract # PoolContract
      /\ dai[TradeXContract] \in Nat
      /\ \A u \in Users : u \in Accounts /\ u # TradeXContract
  BY LedgerAssumption DEF PoolTypeOK, LedgerTypeOK, Accounts
<1>2. CASE ProviderStep
  BY <1>1, <1>2, ProviderStepMoves, ProviderStepKeeps, LedgerAssumption
<1>3. CASE DirectPayout
  <2>1. PICK u \in Payees, a \in PoolAmounts : TransferOut(u, a)
    BY <1>3 DEF DirectPayout
  <2>2. u \in Users /\ a \in Nat
    BY PoolAssumption, TradeXAssumption
  <2>3. dai'[TradeXContract] = dai[TradeXContract]
    BY <1>1, <2>1, <2>2, MovedBalances DEF TransferOut, TransferOutOk, CanMove
  <2> QED  BY <1>1, <2>1, <2>3 DEF TransferOut
<1>4. CASE OwnerStep
  BY <1>1, <1>4 DEF OwnerStep, Initialize, UpdateTradeX
<1>5. CASE ArrivalStep
  <2>1. PICK u \in Users, c \in {PoolContract, TradeXContract}, a \in PoolAmounts :
          DaiArrives(u, c, a)
    BY <1>5 DEF ArrivalStep
  <2>2. /\ a \in Nat /\ dai[u] >= a
        /\ dai' = Moved(dai, u, c, a)
        /\ s_openInterest' = s_openInterest
    BY <2>1, PoolAssumption DEF DaiArrives, DaiTransfer, CanMove
  <2>3. CASE c = PoolContract
    BY <1>1, <2>2, <2>3, MovedBalances
  <2>4. CASE c = TradeXContract
    <3>1. dai'[TradeXContract] = dai[TradeXContract] + a
      BY <1>1, <2>2, <2>4, MovedBalances
    <3> QED  BY <1>1, <2>2, <3>1
  <2> QED  BY <2>3, <2>4
<1> QED  BY <1>2, <1>3, <1>4, <1>5

(* The steps of the pool.                                                  *)
LEMMA PoolStepInv ==
  ASSUME TradeXInv, PoolStep
  PROVE  TradeXInv'
<1>1. PoolInv /\ PoolTypeOK
  BY DEF TradeXInv, PoolInv
<1>2. PoolInv'
  <2>1. CASE ProviderStep
    BY <1>1, <2>1, ProviderStepInv
  <2>2. CASE DirectPayout
    BY <1>1, <2>2, PoolAssumption, TradeXAssumption, TransferOutInv DEF DirectPayout
  <2>3. CASE OwnerStep
    BY <1>1, <2>3, OwnerStepInv
  <2>4. CASE ArrivalStep
    BY <1>1, <2>4, ArrivalStepInv
  <2> QED  BY <2>1, <2>2, <2>3, <2>4 DEF PoolStep
<1>3. UNCHANGED <<positionMeta, answer>>
  BY DEF PoolStep
<1>4. CollateralBacked'
  <2>1. dai'[TradeXContract] >= dai[TradeXContract]
    BY <1>1, PoolStepKeepsTradeX DEF PoolStep
  <2>2. TotalCollateral' = TotalCollateral
    BY <1>3 DEF TotalCollateral
  <2>3. TotalCollateral \in Nat
    BY FS_CardinalityType DEF TradeXInv, CollateralOf, TotalCollateral, Total
  <2>4. dai'[TradeXContract] \in Nat /\ dai[TradeXContract] \in Nat
    BY <1>1, <1>2, LedgerAssumption DEF PoolInv, PoolTypeOK, LedgerTypeOK, Accounts
  <2>5. TotalCollateral <= dai[TradeXContract]
    BY DEF TradeXInv, CollateralBacked
  <2> QED  BY <2>1, <2>2, <2>3, <2>4, <2>5 DEF CollateralBacked
<1>5. IsFiniteSet(Units(CollateralOf))'
  BY <1>3 DEF TradeXInv, CollateralOf
<1> QED  BY <1>2, <1>3, <1>4, <1>5 DEF TradeXInv

(* A new answer of the feed, and a step that changes nothing.              *)
LEMMA QuietStepInv ==
  ASSUME TradeXInv, answer' \in Answers, UNCHANGED <<pVars, positionMeta>>
  PROVE  TradeXInv'
<1>1. UNCHANGED <<dai, shares, totalSupply, s_totalLiquidity, tradeX, s_openInterest, positionMeta>>
  BY DEF pVars, poolVars
<1>2. PoolInv'
  BY <1>1 DEF TradeXInv, PoolInv, PoolTypeOK, LedgerTypeOK, SupplyIsSumOfShares
<1>3. IsFiniteSet(Units(CollateralOf))' /\ CollateralBacked'
  BY <1>1 DEF TradeXInv, CollateralOf, CollateralBacked, TotalCollateral
<1> QED  BY <1>1, <1>2, <1>3 DEF TradeXInv

(* What leaves TradeX, its DAI and its positions alone and keeps the pool  *)
(* sound.                                                                  *)
LEMMA BystanderInv ==
  ASSUME TradeXInv, PoolInv', dai'[TradeXContract] = dai[TradeXContract],
         positionMeta' = positionMeta, answer' \in Answers
  PROVE  TradeXInv'
BY DEF TradeXInv, CollateralOf, CollateralBacked, TotalCollateral

(* The state in which the contracts are deployed, with or without this     *)
(* TradeX as the one the pool asks.                                        *)
LEMMA DeployedInv ==
  ASSUME LedgerInit, shares = [u \in Users |-> 0], totalSupply = 0, s_totalLiquidity = 0,
         tradeX \in {NoTradeX, TradeXContract}, s_openInterest = 0,
         positionMeta = [t \in Traders |-> NoPosition], answer \in Answers
  PROVE  TradeXInv
<1>1. PoolInv
  <2>1. LedgerTypeOK
    BY LedgerAssumption DEF LedgerInit, LedgerTypeOK, Accounts
  <2>2. IsFiniteSet(Units(shares)) /\ Total(shares) = 0
    BY TotalZero
  <2> QED  BY <2>1, <2>2 DEF PoolTypeOK, PoolInv, SupplyIsSumOfShares
<1>2. NoPosition \in Position /\ Shaped(NoPosition) /\ NoPosition.collateral = 0
  BY DEF NoPosition, Position, Shaped, IsOpen, Neither
<1>3. \A t \in DOMAIN CollateralOf : CollateralOf[t] = 0
  BY <1>2 DEF CollateralOf
<1>4. IsFiniteSet(Units(CollateralOf)) /\ Total(CollateralOf) = 0
  BY <1>3, TotalZero
<1>5. dai[TradeXContract] \in Nat
  BY <1>1, LedgerAssumption DEF PoolInv, PoolTypeOK, LedgerTypeOK, Accounts
<1>6. CollateralBacked
  BY <1>4, <1>5 DEF CollateralBacked, TotalCollateral, CollateralOf
<1> QED  BY <1>1, <1>2, <1>4, <1>6 DEF TradeXInv

(* The initial state of the composed system.                               *)
LEMMA InitInv ==
  ASSUME Init
  PROVE  TradeXInv
BY DeployedInv DEF Init, PoolInit

(* The invariant is inductive.                                             *)
LEMMA NextInv ==
  ASSUME TradeXInv, [Next]_vars
  PROVE  TradeXInv'
<1>1. CASE (\E t \in Traders : TraderStep(t)) \/ LiquidationStep
  BY <1>1, HandlerEffect, TradeStepInv
<1>2. CASE OracleUpdate
  BY <1>2, QuietStepInv DEF OracleUpdate
<1>3. CASE PoolStep
  BY <1>3, PoolStepInv
<1>4. CASE UNCHANGED vars
  BY <1>4, QuietStepInv DEF vars, TradeXInv
<1> QED  BY <1>1, <1>2, <1>3, <1>4 DEF Next

(* TradeX, the pool and the DAI between them keep TradeXInv: types, the    *)
(* shape of positions, the supply of shares and the backing of collateral, *)
(* for any traders, amounts, prices and either kind of token.              *)
THEOREM TradeXInvariant == Spec => []TradeXInv
<1>1. Init => TradeXInv
  BY InitInv
<1>2. TradeXInv /\ [Next]_vars => TradeXInv'
  BY NextInv
<1> QED  BY <1>1, <1>2, PTL DEF Spec

(* Balances, shares, book, positions and open interest never leave their   *)
(* types: no accepted call makes one of them negative.                     *)
THEOREM TradeXTypeCorrect == Spec => []TypeOK
<1>1. TradeXInv => TypeOK
  BY DEF TradeXInv, PoolInv, TypeOK
<1> QED  BY <1>1, TradeXInvariant, PTL

(* A position is open exactly while it has a size, and a deletion leaves   *)
(* the empty record: openPosition can rely on isLong alone.                *)
THEOREM TradeXPositionShape == Spec => []PositionShape
<1>1. TradeXInv => PositionShape
  BY DEF TradeXInv, PositionShape, Shaped
<1> QED  BY <1>1, TradeXInvariant, PTL

(* The supply of TXC is the sum of its balances while real traders move the*)
(* pool's cash and book.                                                   *)
THEOREM TradeXSupplyCorrect == Spec => []SupplyIsSumOfShares
<1>1. TradeXInv => SupplyIsSumOfShares
  BY DEF TradeXInv, PoolInv
<1> QED  BY <1>1, TradeXInvariant, PTL

(* TradeX always holds the collateral it has recorded for all traders.     *)
THEOREM TradeXCollateralBacked == Spec => []CollateralBacked
<1>1. TradeXInv => CollateralBacked
  BY DEF TradeXInv
<1> QED  BY <1>1, TradeXInvariant, PTL

-----------------------------------------------------------------------------
(* Action properties                                                       *)

(* What TradeX holds beyond the recorded collateral never leaves it:       *)
(* whoever is paid, closed or liquidated gets its own collateral at most.  *)
THEOREM TradeXSurplusKept == Spec => SurplusNeverLeaves
<1>1. TradeXInv /\ [Next]_vars =>
        [ dai'[TradeXContract] - TotalCollateral'
            >= dai[TradeXContract] - TotalCollateral ]_vars
  <2> SUFFICES ASSUME TradeXInv, Next
               PROVE  dai'[TradeXContract] - TotalCollateral'
                        >= dai[TradeXContract] - TotalCollateral
    OBVIOUS
  <2>1. TotalCollateral \in Nat /\ dai[TradeXContract] \in Nat
    BY FS_CardinalityType, LedgerAssumption
       DEF TradeXInv, CollateralOf, TotalCollateral, Total, PoolInv, PoolTypeOK,
           LedgerTypeOK, Accounts
  <2>2. TradeXInv'
    BY NextInv
  <2>3. dai'[TradeXContract] \in Nat
    BY <2>2, LedgerAssumption DEF TradeXInv, PoolInv, PoolTypeOK, LedgerTypeOK, Accounts
  <2>4. CASE (\E t \in Traders : TraderStep(t)) \/ LiquidationStep
    <3>1. PICK t \in Traders, q \in Position : TradeEffect(t, q)
      BY <2>4, HandlerEffect DEF TradeStep
    <3>2. /\ TotalCollateral' \in Nat
          /\ TotalCollateral' = TotalCollateral - positionMeta[t].collateral + q.collateral
      BY <3>1, TradeEffectTotal
    <3>3. dai'[TradeXContract] - dai[TradeXContract] >= q.collateral - positionMeta[t].collateral
      BY <3>1 DEF TradeEffect
    <3>4. q.collateral \in Nat /\ positionMeta[t].collateral \in Nat
      BY InvFacts DEF Position
    <3> QED  BY <2>1, <2>3, <3>2, <3>3, <3>4
  <2>5. CASE OracleUpdate
    BY <2>1, <2>5 DEF OracleUpdate, pVars, TotalCollateral
  <2>6. CASE PoolStep
    <3>1. dai'[TradeXContract] >= dai[TradeXContract]
      BY <2>6, PoolStepKeepsTradeX DEF PoolStep, TradeXInv, PoolInv
    <3>2. TotalCollateral' = TotalCollateral
      BY <2>6 DEF PoolStep, TotalCollateral
    <3> QED  BY <2>1, <2>3, <3>1, <3>2
  <2> QED  BY <2>4, <2>5, <2>6 DEF Next
<1> QED
  BY <1>1, TradeXInvariant, PTL DEF Spec, SurplusNeverLeaves

(* A handler changes one position only.                                    *)
LEMMA OnePositionChanges ==
  ASSUME TradeXInv, NEW t \in Traders, NEW q \in Position, TradeEffect(t, q)
  PROVE  /\ positionMeta'[t] = q
         /\ \A u \in Traders : u # t => positionMeta'[u] = positionMeta[u]
BY DEF TradeXInv, TradeEffect

(* A step that changes a position is a handler's; every other step keeps   *)
(* all positions and open interest.                                        *)
LEMMA OtherStepsKeepPositions ==
  ASSUME TradeXInv, OracleUpdate \/ PoolStep
  PROVE  positionMeta' = positionMeta /\ s_openInterest' = s_openInterest
<1>1. CASE OracleUpdate
  BY <1>1 DEF OracleUpdate, pVars
<1>2. CASE PoolStep
  BY <1>2, PoolStepKeepsTradeX DEF PoolStep, TradeXInv, PoolInv
<1> QED  BY <1>1, <1>2

(* Open interest moves with the one position that changes, and otherwise   *)
(* not at all.                                                             *)
THEOREM TradeXOpenInterestFollows == Spec => OpenInterestFollowsPosition
<1> DEFINE Follows ==
      /\ positionMeta' = positionMeta => s_openInterest' = s_openInterest
      /\ \A t \in Traders :
           positionMeta'[t] # positionMeta[t] =>
             s_openInterest' - s_openInterest =
               InterestChange(positionMeta[t], positionMeta'[t])
<1>1. TradeXInv /\ [Next]_vars => [Follows]_vars
  <2> SUFFICES ASSUME TradeXInv, Next
               PROVE  Follows
    OBVIOUS
  <2>1. CASE (\E t \in Traders : TraderStep(t)) \/ LiquidationStep
    <3>1. PICK t \in Traders, q \in Position : TradeEffect(t, q)
      BY <2>1, HandlerEffect DEF TradeStep
    <3>2. s_openInterest' - s_openInterest = InterestChange(positionMeta[t], q)
      BY <3>1 DEF TradeEffect
    <3>3. /\ positionMeta'[t] = q
          /\ \A u \in Traders : u # t => positionMeta'[u] = positionMeta[u]
      BY <3>1, OnePositionChanges
    <3>4. ASSUME positionMeta' = positionMeta
          PROVE  s_openInterest' = s_openInterest
      <4>1. q = positionMeta[t]
        BY <3>3, <3>4
      <4>2. /\ positionMeta[t].sizeInEth - positionMeta[t].sizeInEth = 0
            /\ positionMeta[t].sizeInUsd - positionMeta[t].sizeInUsd = 0
        BY InvFacts
      <4>3. InterestChange(positionMeta[t], q) = 0
        BY <4>1, <4>2, ConvertZero, InvFacts DEF InterestChange
      <4>4. s_openInterest' \in Nat
        BY <3>1 DEF TradeEffect
      <4> QED  BY <3>2, <4>3, <4>4, InvFacts
    <3> QED  BY <3>2, <3>3, <3>4
  <2>2. CASE OracleUpdate \/ PoolStep
    BY <2>2, OtherStepsKeepPositions
  <2> QED  BY <2>1, <2>2 DEF Next
<1>2. [Follows]_vars =>
        [ /\ positionMeta' = positionMeta => s_openInterest' = s_openInterest
          /\ \A t \in Traders :
               LET p == positionMeta[t]
                   q == positionMeta'[t]
               IN  q # p =>
                     s_openInterest' - s_openInterest =
                       IF IsOpen(q) /\ q.sizeInEth <= p.sizeInEth
                       THEN -ConvertEthToUsd(p.sizeInEth - q.sizeInEth, answer)
                       ELSE q.sizeInUsd - p.sizeInUsd ]_vars
  BY DEF InterestChange
<1> HIDE DEF Follows
<1> QED
  BY <1>1, <1>2, TradeXInvariant, PTL DEF Spec, OpenInterestFollowsPosition

(* Open interest within the limit leaves it only when the pool pays: no    *)
(* opening, increase, withdrawal or liquidation takes it over the limit.   *)
THEOREM TradeXLimitKept == Spec => LimitExceededOnlyByPayout
<1> DEFINE Kept ==
      s_openInterest <= MaxUtilization(s_totalLiquidity) =>
        \/ s_openInterest' <= MaxUtilization(s_totalLiquidity')
        \/ s_totalLiquidity' < s_totalLiquidity /\ totalSupply' = totalSupply
<1>1. TradeXInv /\ [Next]_vars => [Kept]_vars
  <2> SUFFICES ASSUME TradeXInv, Next, s_openInterest <= MaxUtilization(s_totalLiquidity)
               PROVE  \/ s_openInterest' <= MaxUtilization(s_totalLiquidity')
                      \/ s_totalLiquidity' < s_totalLiquidity /\ totalSupply' = totalSupply
    OBVIOUS
  <2>1. PoolTypeOK
    BY DEF TradeXInv, PoolInv
  <2>2. CASE (\E t \in Traders : TraderStep(t)) \/ LiquidationStep
    <3>1. PICK t \in Traders, q \in Position : TradeEffect(t, q)
      BY <2>2, HandlerEffect DEF TradeStep
    <3> QED  BY <3>1 DEF TradeEffect
  <2>3. CASE OracleUpdate
    BY <2>3 DEF OracleUpdate, pVars, poolVars
  <2>4. CASE PoolStep
    <3>1. CASE ProviderStep
      BY <2>1, <3>1, ProviderStepUtilization
    <3>2. CASE DirectPayout
      <4>1. PICK u \in Payees, a \in PoolAmounts : TransferOut(u, a)
        BY <3>2 DEF DirectPayout
      <4>2. a \in Nat /\ s_totalLiquidity \in Nat
        BY <2>1, PoolAssumption DEF PoolTypeOK
      <4>3. CASE a = 0
        BY <4>1, <4>2, <4>3 DEF TransferOut
      <4>4. CASE a > 0
        BY <4>1, <4>2, <4>4 DEF TransferOut
      <4> QED  BY <4>2, <4>3, <4>4
    <3>3. CASE OwnerStep \/ ArrivalStep
      BY <3>3 DEF OwnerStep, Initialize, UpdateTradeX, ArrivalStep, DaiArrives, poolVars
    <3> QED  BY <2>4, <3>1, <3>2, <3>3 DEF PoolStep
  <2> QED  BY <2>2, <2>3, <2>4 DEF Next
<1> QED
  BY <1>1, TradeXInvariant, PTL DEF Spec, LimitExceededOnlyByPayout

(* More cash at the same supply of shares is no worse a price.             *)
LEMMA MoreCashKeepsPrice ==
  ASSUME NEW A \in Nat, NEW B \in Nat, NEW S \in Nat, B >= A
  PROVE  ~((B + 1) * (S + 1) < (A + 1) * (S + 1))
<1>1. PICK d \in Nat : B + 1 = (A + 1) + d
  <2>1. B - A \in Nat /\ B + 1 = (A + 1) + (B - A)
    OBVIOUS
  <2> QED  BY <2>1
<1>2. (B + 1) * (S + 1) = (A + 1) * (S + 1) + d * (S + 1)
  BY <1>1
<1>3. d * (S + 1) \in Nat /\ (A + 1) * (S + 1) \in Nat
  BY ProductNat
<1> QED  BY <1>2, <1>3

(* The value of a share falls only when the pool pays a trader: trading,   *)
(* liquidations, providers coming and going and DAI that arrives never     *)
(* lower it.                                                               *)
THEOREM TradeXSharePriceKept == Spec => SharePriceFallsOnlyByPayout
<1> DEFINE Falls ==
      (dai'[PoolContract] + 1) * (totalSupply + 1)
        < (dai[PoolContract] + 1) * (totalSupply' + 1)
    Paid == s_totalLiquidity' < s_totalLiquidity /\ totalSupply' = totalSupply
<1>1. TradeXInv /\ [Next]_vars => [Falls => Paid]_vars
  <2> SUFFICES ASSUME TradeXInv, Next
               PROVE  Falls => Paid
    OBVIOUS
  <2>1. PoolTypeOK /\ PoolTypeOK'
    BY NextInv DEF TradeXInv, PoolInv
  <2>2. /\ dai[PoolContract] \in Nat /\ dai'[PoolContract] \in Nat
        /\ totalSupply \in Nat /\ totalSupply' \in Nat
        /\ s_totalLiquidity \in Nat
    BY <2>1, LedgerAssumption DEF PoolTypeOK, LedgerTypeOK, Accounts
  <2>3. totalSupply' = totalSupply /\ dai'[PoolContract] >= dai[PoolContract] => ~Falls
    BY <2>2, MoreCashKeepsPrice
  <2>4. CASE (\E t \in Traders : TraderStep(t)) \/ LiquidationStep
    <3>1. PICK t \in Traders, q \in Position : TradeEffect(t, q)
      BY <2>4, HandlerEffect DEF TradeStep
    <3>2. /\ dai'[PoolContract] < dai[PoolContract] => s_totalLiquidity' < s_totalLiquidity
          /\ totalSupply' = totalSupply
      BY <3>1 DEF TradeEffect
    <3> HIDE DEF Falls
    <3> QED  BY <2>2, <2>3, <3>2
  <2>5. CASE OracleUpdate
    <3> HIDE DEF Falls
    <3> QED  BY <2>2, <2>3, <2>5 DEF OracleUpdate, pVars, poolVars
  <2>6. CASE PoolStep
    <3>1. CASE ProviderStep
      <4>1. (dai'[PoolContract] + 1) * (totalSupply + 1)
              >= (dai[PoolContract] + 1) * (totalSupply' + 1)
        BY <2>1, <3>1, ProviderStepDilution
      <4>2. /\ (dai'[PoolContract] + 1) * (totalSupply + 1) \in Nat
            /\ (dai[PoolContract] + 1) * (totalSupply' + 1) \in Nat
        BY <2>2, ProductNat
      <4> QED  BY <4>1, <4>2
    <3>2. CASE DirectPayout
      <4>1. PICK u \in Payees, a \in PoolAmounts : TransferOut(u, a)
        BY <3>2 DEF DirectPayout
      <4>2. a \in Nat /\ u \in Users
        BY PoolAssumption, TradeXAssumption
      <4>3. /\ dai'[PoolContract] = dai[PoolContract] - a
            /\ s_totalLiquidity' = s_totalLiquidity - a
            /\ totalSupply' = totalSupply
        BY <2>1, <4>1, <4>2, CashPaid DEF TransferOut
      <4>4. CASE a = 0
        <5> HIDE DEF Falls
        <5> QED  BY <2>2, <2>3, <4>3, <4>4
      <4>5. CASE a > 0
        BY <2>2, <4>2, <4>3, <4>5
      <4> QED  BY <4>2, <4>4, <4>5
    <3>3. CASE OwnerStep
      <4>1. totalSupply' = totalSupply /\ dai'[PoolContract] = dai[PoolContract]
        BY <3>3 DEF OwnerStep, Initialize, UpdateTradeX
      <4> HIDE DEF Falls
      <4> QED  BY <2>2, <2>3, <4>1
    <3>4. CASE ArrivalStep
      <4>1. PICK u \in Users, c \in {PoolContract, TradeXContract}, a \in PoolAmounts :
              DaiArrives(u, c, a)
        BY <3>4 DEF ArrivalStep
      <4>2. /\ a \in Nat /\ dai[u] >= a /\ dai' = Moved(dai, u, c, a)
            /\ totalSupply' = totalSupply
        BY <4>1, PoolAssumption DEF DaiArrives, DaiTransfer, CanMove, poolVars
      <4>3. /\ u \in Accounts /\ TradeXContract \in Accounts /\ PoolContract \in Accounts
            /\ u # TradeXContract /\ u # PoolContract /\ TradeXContract # PoolContract
            /\ dai \in [Accounts -> Nat]
        BY <2>1, LedgerAssumption DEF PoolTypeOK, LedgerTypeOK, Accounts
      <4>4. dai'[PoolContract] >= dai[PoolContract]
        <5>1. CASE c = PoolContract
          BY <2>2, <4>2, <4>3, <5>1, MovedBalances
        <5>2. CASE c = TradeXContract
          BY <2>2, <4>2, <4>3, <5>2, MovedBalances
        <5> QED  BY <5>1, <5>2
      <4> HIDE DEF Falls
      <4> QED  BY <2>3, <4>2, <4>4
    <3> QED  BY <2>6, <3>1, <3>2, <3>3, <3>4 DEF PoolStep
  <2> QED  BY <2>4, <2>5, <2>6 DEF Next
<1> QED
  BY <1>1, TradeXInvariant, PTL DEF Spec, SharePriceFallsOnlyByPayout

(* An open position goes below its maintenance margin only in a partial    *)
(* decrease at a loss: every other call that changes it leaves the margin. *)
THEOREM TradeXMarginKept == Spec => MarginLostOnlyByLoss
<1> DEFINE Kept == \A t \in Traders :
             Margined(positionMeta[t]) =>
               Margined(positionMeta'[t]) \/ LossMarked(positionMeta[t], positionMeta'[t])
<1>1. TradeXInv /\ [Next]_vars => [Kept]_vars
  <2> SUFFICES ASSUME TradeXInv, Next
               PROVE  Kept
    OBVIOUS
  <2>1. CASE (\E t \in Traders : TraderStep(t)) \/ LiquidationStep
    <3>1. PICK t \in Traders, q \in Position : TradeEffect(t, q)
      BY <2>1, HandlerEffect DEF TradeStep
    <3>2. Margined(q) \/ LossMarked(positionMeta[t], q)
      BY <3>1 DEF TradeEffect
    <3> QED  BY <3>1, <3>2, OnePositionChanges
  <2>2. CASE OracleUpdate \/ PoolStep
    BY <2>2, OtherStepsKeepPositions
  <2> QED  BY <2>1, <2>2 DEF Next
<1>2. [Kept]_vars =>
        [ \A t \in Traders :
            Margined(positionMeta[t]) =>
              \/ Margined(positionMeta'[t])
              \/ /\ UserPnL(positionMeta[t]) < 0
                 /\ positionMeta'[t].sizeInEth <= positionMeta[t].sizeInEth
                 /\ positionMeta'[t].sizeInUsd =
                      ConvertEthToUsd(positionMeta'[t].sizeInEth, answer) ]_vars
  BY DEF LossMarked
<1> HIDE DEF Kept
<1> QED
  BY <1>1, <1>2, TradeXInvariant, PTL DEF Spec, MarginLostOnlyByLoss

(* No position disappears unpaid unless it is over-leveraged or its loss   *)
(* is its whole collateral.                                                *)
THEOREM TradeXNoUnpaidDeletion == Spec => NoUnpaidDeletion
<1> DEFINE DeletionPaid == \A t \in Traders :
             IsOpen(positionMeta[t]) /\ ~IsOpen(positionMeta'[t]) =>
               \/ dai'[t] > dai[t]
               \/ OverLeveraged(positionMeta[t])
               \/ positionMeta[t].collateral + UserPnL(positionMeta[t]) = 0
<1>1. TradeXInv /\ [Next]_vars => [DeletionPaid]_vars
  <2> SUFFICES ASSUME TradeXInv, Next
               PROVE  DeletionPaid
    OBVIOUS
  <2>1. CASE (\E t \in Traders : TraderStep(t)) \/ LiquidationStep
    <3>1. PICK t \in Traders, q \in Position : TradeEffect(t, q)
      BY <2>1, HandlerEffect DEF TradeStep
    <3>2. IsOpen(positionMeta[t]) /\ ~IsOpen(q) =>
            \/ dai'[t] > dai[t]
            \/ OverLeveraged(positionMeta[t])
            \/ positionMeta[t].collateral + UserPnL(positionMeta[t]) = 0
      BY <3>1 DEF TradeEffect
    <3> QED  BY <3>1, <3>2, OnePositionChanges
  <2>2. CASE OracleUpdate \/ PoolStep
    BY <2>2, OtherStepsKeepPositions
  <2> QED  BY <2>1, <2>2 DEF Next
<1> QED
  BY <1>1, TradeXInvariant, PTL DEF Spec, NoUnpaidDeletion

(* LiqPrice goes stale only in a partial decrease at a loss.               *)
THEOREM TradeXLiqPriceKept == Spec => LiqPriceStaleOnlyByLoss
<1> DEFINE Kept == \A t \in Traders :
             LiqPriceExact(positionMeta[t]) =>
               LiqPriceExact(positionMeta'[t]) \/ LossMarked(positionMeta[t], positionMeta'[t])
<1>1. TradeXInv /\ [Next]_vars => [Kept]_vars
  <2> SUFFICES ASSUME TradeXInv, Next
               PROVE  Kept
    OBVIOUS
  <2>1. CASE (\E t \in Traders : TraderStep(t)) \/ LiquidationStep
    <3>1. PICK t \in Traders, q \in Position : TradeEffect(t, q)
      BY <2>1, HandlerEffect DEF TradeStep
    <3>2. LiqPriceExact(q) \/ LossMarked(positionMeta[t], q)
      BY <3>1 DEF TradeEffect
    <3> QED  BY <3>1, <3>2, OnePositionChanges
  <2>2. CASE OracleUpdate \/ PoolStep
    BY <2>2, OtherStepsKeepPositions
  <2> QED  BY <2>1, <2>2 DEF Next
<1>2. [Kept]_vars =>
        [ \A t \in Traders :
            LiqPriceExact(positionMeta[t]) =>
              \/ LiqPriceExact(positionMeta'[t])
              \/ /\ UserPnL(positionMeta[t]) < 0
                 /\ positionMeta'[t].sizeInEth <= positionMeta[t].sizeInEth
                 /\ positionMeta'[t].sizeInUsd =
                      ConvertEthToUsd(positionMeta'[t].sizeInEth, answer) ]_vars
  BY DEF LossMarked
<1> HIDE DEF Kept
<1> QED
  BY <1>1, <1>2, TradeXInvariant, PTL DEF Spec, LiqPriceStaleOnlyByLoss

(* A position whose loss exceeds its collateral ends only as over-leveraged*)
(* by its recorded size.                                                   *)
THEOREM TradeXUnderwaterEnds == Spec => UnderwaterEndsByLeverage
<1> DEFINE Ends == \A t \in Traders :
             /\ IsOpen(positionMeta[t]) /\ ~IsOpen(positionMeta'[t])
             /\ positionMeta[t].collateral + UserPnL(positionMeta[t]) < 0
             => OverLeveraged(positionMeta[t])
<1>1. TradeXInv /\ [Next]_vars => [Ends]_vars
  <2> SUFFICES ASSUME TradeXInv, Next
               PROVE  Ends
    OBVIOUS
  <2>1. CASE (\E t \in Traders : TraderStep(t)) \/ LiquidationStep
    <3>1. PICK t \in Traders, q \in Position : TradeEffect(t, q)
      BY <2>1, HandlerEffect DEF TradeStep
    <3>2. /\ IsOpen(positionMeta[t]) /\ ~IsOpen(q)
          /\ positionMeta[t].collateral + UserPnL(positionMeta[t]) < 0
          => OverLeveraged(positionMeta[t])
      BY <3>1 DEF TradeEffect
    <3> QED  BY <3>1, <3>2, OnePositionChanges
  <2>2. CASE OracleUpdate \/ PoolStep
    BY <2>2, OtherStepsKeepPositions
  <2> QED  BY <2>1, <2>2 DEF Next
<1> QED
  BY <1>1, TradeXInvariant, PTL DEF Spec, UnderwaterEndsByLeverage

-----------------------------------------------------------------------------
(* Nobody gains by a call                                                  *)

\* What an account with this balance and this position owns at the current
\* price.
Worth(cash, p) == cash + (IF IsOpen(p) THEN p.collateral + UserPnL(p) ELSE 0)

\* A step by which nobody's worth at the current price grows, but for the
\* rounding.
NobodyGains ==
  \A u \in Traders :
    Worth(dai'[u], positionMeta'[u]) <= Worth(dai[u], positionMeta[u]) + RoundingUnit

(* A trader's call leaves the DAI of every other account alone, except for *)
(* the two contracts.                                                      *)
LEMMA TraderStepMoves ==
  ASSUME TradeXInv, NEW t \in Traders, TraderStep(t), NEW x \in Accounts,
         x # t, x # TradeXContract, x # PoolContract
  PROVE  dai'[x] = dai[x]
<1>1. /\ dai \in [Accounts -> Nat]
      /\ t \in Accounts /\ TradeXContract \in Accounts /\ PoolContract \in Accounts
      /\ t # TradeXContract /\ t # PoolContract /\ TradeXContract # PoolContract
      /\ positionMeta[t].collateral \in Nat
  BY InvFacts
<1>2. ASSUME NEW v \in Nat, CanMove(t, v), dai' = Moved(dai, t, TradeXContract, v)
      PROVE  dai'[x] = dai[x]
  <2>1. dai[t] >= v
    BY <1>2 DEF CanMove
  <2> QED  BY <1>1, <1>2, <2>1, MovedBalances
<1>3. ASSUME NEW v \in Int, v >= 0, PoolPays(t, v)
      PROVE  dai'[x] = dai[x]
  <2>1. dai' = Moved(dai, PoolContract, t, v)
    BY <1>3 DEF PoolPays
  <2>2. dai \in [Accounts -> Nat]
    BY <1>1
  <2> QED  BY <2>1, <2>2 DEF Moved
<1>4. ASSUME CanMove(TradeXContract, positionMeta[t].collateral),
             dai' = Moved(dai, TradeXContract, t, positionMeta[t].collateral)
      PROVE  dai'[x] = dai[x]
  BY <1>1, <1>4, MovedBalances DEF CanMove
<1>5. CASE ClosePosition(t)
  <2> DEFINE p == positionMeta[t]
             pnl == UserPnL(p)
             paid == Moved(dai, PoolContract, t, pnl)
  <2>1. pnl \in Int
    BY <1>5, PnLInt DEF ClosePosition
  <2>2. CASE /\ pnl > 0
             /\ TransferOutOk(pnl)
             /\ CanMove(TradeXContract, p.collateral)
             /\ dai' = Moved(paid, TradeXContract, t, p.collateral)
    <3> HIDE DEF pnl
    <3>1. pnl \in Nat /\ dai[PoolContract] >= pnl
      BY <2>1, <2>2 DEF TransferOutOk, CanMove
    <3>2. /\ paid \in [Accounts -> Nat]
          /\ paid[TradeXContract] = dai[TradeXContract]
          /\ paid[x] = dai[x]
      BY <1>1, <3>1, MovedBalances
    <3> HIDE DEF paid
    <3>3. paid[TradeXContract] >= p.collateral
      BY <2>2, <3>2 DEF CanMove
    <3>4. dai'[x] = paid[x]
      BY <1>1, <2>2, <3>2, <3>3, MovedBalances
    <3> QED  BY <3>2, <3>4
  <2>3. CASE p.collateral + pnl >= 0 /\ PoolPays(t, p.collateral + pnl)
    <3>1. p.collateral + pnl \in Int
      BY <1>1, <2>1
    <3> HIDE DEF pnl
    <3> QED  BY <1>3, <2>3, <3>1
  <2> QED  BY <1>4, <1>5, <2>2, <2>3 DEF ClosePosition
<1>6. ASSUME NEW s \in Sizes, ReducePosition(t, s)
      PROVE  dai'[x] = dai[x]
  <2>1. UserPnL(positionMeta[t]) \in Int
    BY <1>6, PnLInt DEF ReducePosition
  <2> QED  BY <1>3, <1>6, <2>1 DEF ReducePosition
<1>7. CASE \E c \in Collaterals, s \in Sizes, l \in {Long, Short} : OpenPosition(t, c, s, l)
  BY <1>2, <1>7, TradeXAssumption DEF OpenPosition
<1>8. CASE \E c \in Collaterals : UpdateCollateral(t, c)
  BY <1>2, <1>8, TradeXAssumption DEF UpdateCollateral
<1>9. CASE \/ \E s \in Sizes : IncreasePosition(t, s)
           \/ \E a \in Reductions : ReduceCollateral(t, a)
  BY <1>9 DEF IncreasePosition, ReduceCollateral
<1> QED
  BY <1>5, <1>6, <1>7, <1>8, <1>9 DEF TraderStep, DecreasePosition, DecreaseCollateral

(* A liquidation pays its caller and the pool.                             *)
LEMMA LiquidationStepMoves ==
  ASSUME TradeXInv, LiquidationStep, NEW x \in Accounts,
         x \notin Users, x # TradeXContract, x # PoolContract
  PROVE  dai'[x] = dai[x]
<1>1. PICK caller \in Users, t \in Traders : Liquidate(caller, t)
  BY DEF LiquidationStep
<1> DEFINE p == positionMeta[t]
           reward == p.collateral \div liquidator_fee
           rest == p.collateral - reward
           rewarded == Moved(dai, TradeXContract, caller, reward)
<1>2. /\ dai[TradeXContract] >= p.collateral
      /\ dai' = Moved(rewarded, TradeXContract, PoolContract, rest)
  BY <1>1 DEF Liquidate, CanMove
<1>3. /\ dai \in [Accounts -> Nat]
      /\ caller \in Accounts /\ TradeXContract \in Accounts /\ PoolContract \in Accounts
      /\ caller # TradeXContract /\ x # caller
      /\ dai[TradeXContract] \in Nat /\ p.collateral \in Nat
  BY InvFacts, LedgerAssumption DEF Accounts
<1>4. reward \in Nat /\ rest \in Nat /\ reward + rest = p.collateral
  BY <1>3 DEF liquidator_fee
<1> HIDE DEF reward, rest
<1>5. /\ rewarded \in [Accounts -> Nat]
      /\ rewarded[TradeXContract] = dai[TradeXContract] - reward
      /\ rewarded[x] = dai[x]
  <2>1. reward \in Nat /\ dai[TradeXContract] >= reward
    BY <1>2, <1>3, <1>4
  <2> QED  BY <1>3, <2>1, MovedBalances
<1> HIDE DEF rewarded
<1>6. dai'[x] = rewarded[x]
  BY <1>2, <1>5 DEF Moved
<1> QED  BY <1>5, <1>6

(* Nor does it touch the position of another trader, or the price.         *)
LEMMA TraderStepTouches ==
  ASSUME TradeXInv, NEW t \in Traders, TraderStep(t)
  PROVE  /\ \A u \in Traders : u # t => positionMeta'[u] = positionMeta[u]
         /\ answer' = answer
<1>1. positionMeta \in [Traders -> Position]
  BY DEF TradeXInv
<1>2. (\E q : positionMeta' = [positionMeta EXCEPT ![t] = q]) /\ answer' = answer
  <2>1. CASE \E c \in Collaterals, s \in Sizes, l \in {Long, Short} : OpenPosition(t, c, s, l)
    BY <2>1 DEF OpenPosition
  <2>2. CASE \E s \in Sizes : IncreasePosition(t, s)
    BY <2>2 DEF IncreasePosition
  <2>3. CASE \E s \in Sizes : ReducePosition(t, s)
    BY <2>3 DEF ReducePosition
  <2>4. CASE \E c \in Collaterals : UpdateCollateral(t, c)
    BY <2>4 DEF UpdateCollateral
  <2>5. CASE \E a \in Reductions : ReduceCollateral(t, a)
    BY <2>5 DEF ReduceCollateral
  <2>6. CASE ClosePosition(t)
    BY <2>6 DEF ClosePosition, DeletePosition
  <2> QED
    BY <2>1, <2>2, <2>3, <2>4, <2>5, <2>6 DEF TraderStep, DecreasePosition, DecreaseCollateral
<1> QED  BY <1>1, <1>2

(* The worth of a trader is a whole number of units, whatever the answer.  *)
LEMMA WorthInt ==
  ASSUME TradeXInv, NEW t \in Traders
  PROVE  /\ UserPnL(positionMeta[t]) \in Int
         /\ Worth(dai[t], positionMeta[t]) \in Int
         /\ RoundingUnit \in Nat
<1>1. EthInUsd(answer) \in Int
  BY InvFacts, MathAssumption DEF EthInUsd
<1>2. \A n \in Nat : EthInUsd(answer) * n \in Int
  BY <1>1
<1>3. \A n \in Nat : ConvertEthToUsd(n, answer) \in Int
  BY <1>2, MathAssumption DEF ConvertEthToUsd
<1>4. UserPnL(positionMeta[t]) \in Int
  BY <1>3, InvFacts DEF UserPnL
<1>5. Worth(dai[t], positionMeta[t]) \in Int
  BY <1>4, InvFacts DEF Worth
<1> QED  BY <1>4, <1>5 DEF RoundingUnit

(* So it is enough to look at the trader who calls.                        *)
LEMMA CallerIsEnough ==
  ASSUME TradeXInv, NEW t \in Traders, TraderStep(t),
         Worth(dai'[t], positionMeta'[t]) <= Worth(dai[t], positionMeta[t]) + RoundingUnit
  PROVE  NobodyGains
<1> SUFFICES ASSUME NEW u \in Traders, u # t
             PROVE  Worth(dai'[u], positionMeta'[u])
                      <= Worth(dai[u], positionMeta[u]) + RoundingUnit
  BY DEF NobodyGains
<1>1. positionMeta'[u] = positionMeta[u]
  BY TraderStepTouches
<1>2. dai'[u] = dai[u]
  <2>1. u \in Accounts /\ u # TradeXContract /\ u # PoolContract
    BY InvFacts
  <2> QED  BY <2>1, TraderStepMoves
<1>3. Worth(dai[u], positionMeta[u]) \in Int /\ RoundingUnit \in Nat
  BY WorthInt
<1>4. Worth(dai[u], positionMeta[u]) <= Worth(dai[u], positionMeta[u]) + RoundingUnit
  BY <1>3
<1> QED  BY <1>1, <1>2, <1>4

(* Two divisions against one.                                              *)
LEMMA DivSum ==
  ASSUME NEW a \in Nat, NEW b \in Nat, NEW d \in Nat \ {0}
  PROVE  /\ a \div d + b \div d <= (a + b) \div d
         /\ (a + b) \div d <= a \div d + b \div d + 1
<1> DEFINE x == a \div d
           y == b \div d
           z == (a + b) \div d
<1>1. /\ x \in Nat /\ d * x <= a /\ a < d * x + d
      /\ y \in Nat /\ d * y <= b /\ b < d * y + d
  BY DivBounds
<1>2. a + b \in Nat
  OBVIOUS
<1>3. z \in Nat /\ d * z <= a + b /\ a + b < d * z + d
  BY <1>2, DivBounds
<1> HIDE DEF x, y, z
<1>4. /\ d * (z + 1) = d * z + d
      /\ d * (x + y) = d * x + d * y
      /\ d * (x + y + 2) = d * x + d * y + d + d
      /\ d * x \in Nat /\ d * y \in Nat /\ d * z \in Nat
  BY <1>1, <1>3
<1>5. d * (x + y) < d * (z + 1) /\ d * z < d * (x + y + 2)
  BY <1>1, <1>2, <1>3, <1>4
<1>6. \A m \in Nat, n \in Nat : d * m < d * n => m < n
  <2> SUFFICES ASSUME NEW m \in Nat, NEW n \in Nat, d * m < d * n, n <= m
               PROVE  FALSE
    OBVIOUS
  <2>1. PICK k \in Nat : m = n + k
    <3>1. m - n \in Nat /\ m = n + (m - n)
      OBVIOUS
    <3> QED  BY <3>1
  <2>2. d * m = d * n + d * k /\ d * k \in Nat /\ d * n \in Nat
    BY <2>1
  <2> QED  BY <2>2
<1>7. x + y < z + 1 /\ z < x + y + 2
  <2>1. x + y \in Nat /\ z + 1 \in Nat /\ x + y + 2 \in Nat
    BY <1>1, <1>3
  <2> QED  BY <1>3, <1>5, <1>6, <2>1
<1> QED  BY <1>1, <1>3, <1>7 DEF x, y, z

(* What is bought in two parts is worth as much as in one, but for a unit. *)
LEMMA ConvertSum ==
  ASSUME NEW m \in Nat, NEW n \in Nat, NEW a \in Int, FeedOk(a)
  PROVE  /\ ConvertEthToUsd(m, a) + ConvertEthToUsd(n, a) <= ConvertEthToUsd(m + n, a)
         /\ ConvertEthToUsd(m + n, a)
              <= ConvertEthToUsd(m, a) + ConvertEthToUsd(n, a) + RoundingUnit
<1> DEFINE k == EthInUsd(a)
<1>1. k \in Nat
  BY MathAssumption, ProductNat DEF FeedOk, EthInUsd
<1> HIDE DEF k
<1>2. k * (m + n) = k * m + k * n /\ k * m \in Nat /\ k * n \in Nat
  BY <1>1
<1>3. /\ (k * m) \div WAD + (k * n) \div WAD <= (k * m + k * n) \div WAD
      /\ (k * m + k * n) \div WAD <= (k * m) \div WAD + (k * n) \div WAD + 1
  BY <1>2, MathAssumption, DivSum
<1>4. CASE WAD = 1
  <2> DEFINE x == k * m
             y == k * n
  <2> HIDE DEF x, y
  <2>1. x \in Nat /\ y \in Nat
    BY <1>2 DEF x, y
  <2>2. x \div 1 = x /\ y \div 1 = y /\ (x + y) \div 1 = x + y
    BY <2>1
  <2>3. (x + y) \div WAD = x \div WAD + y \div WAD + 0
    BY <1>4, <2>1, <2>2
  <2>4. (x + y) \div WAD \in Nat /\ x \div WAD + y \div WAD = x + y
    BY <1>4, <2>1, <2>2
  <2>5. /\ x \div WAD + y \div WAD <= (x + y) \div WAD
        /\ (x + y) \div WAD <= x \div WAD + y \div WAD + 0
    BY <2>1, <2>2, <1>4
  <2>6. RoundingUnit = 0
    BY <1>4 DEF RoundingUnit
  <2> QED  BY <1>2, <2>5, <2>6 DEF x, y, k, ConvertEthToUsd
<1>5. CASE WAD # 1
  <2>1. RoundingUnit = 1
    BY <1>5 DEF RoundingUnit
  <2> QED  BY <1>2, <1>3, <2>1 DEF k, ConvertEthToUsd
<1> QED  BY <1>4, <1>5

(* A position just recorded at the current price has neither profit nor    *)
(* loss; a position is worth its collateral and its profit or loss.        *)
LEMMA OpenWorth ==
  ASSUME NEW cash, NEW p, IsOpen(p)
  PROVE  Worth(cash, p) = cash + (p.collateral + UserPnL(p))
BY DEF Worth

(* openPosition costs the fee.                                             *)
LEMMA OpenPositionWorth ==
  ASSUME TradeXInv, NEW t \in Traders, NEW collateral \in Nat, NEW size \in Nat,
         NEW isLong \in {Long, Short}, OpenPosition(t, collateral, size, isLong)
  PROVE  Worth(dai'[t], positionMeta'[t]) <= Worth(dai[t], positionMeta[t]) + RoundingUnit
<1> DEFINE sizeInUsd == ConvertEthToUsd(size, answer)
           fee == PositionFee(size, answer)
           net == collateral - fee
           q == PositionOf(isLong, net, size, sizeInUsd)
<1>1. /\ FeedOk(answer)
      /\ ~IsOpen(positionMeta[t])
      /\ LeverageOk(net)
      /\ CanMove(t, collateral)
      /\ ExitPriceOk(sizeInUsd, size, net)
      /\ dai' = Moved(dai, t, TradeXContract, collateral)
      /\ positionMeta' = [positionMeta EXCEPT ![t] = q]
  BY DEF OpenPosition
<1>2. sizeInUsd \in Nat /\ fee \in Nat
  BY <1>1, ConversionNat, InvFacts
<1>3. net \in Nat
  BY <1>1, <1>2 DEF LeverageOk
<1>4. dai'[t] = dai[t] - collateral
  <2>1. /\ dai \in [Accounts -> Nat] /\ dai[t] >= collateral
        /\ t \in Accounts /\ TradeXContract \in Accounts /\ t # TradeXContract
    BY <1>1, InvFacts DEF CanMove
  <2> QED  BY <1>1, <2>1, MovedBalances
<1>5. positionMeta'[t] = q
  BY <1>1 DEF TradeXInv
<1> HIDE DEF sizeInUsd, fee
<1>6. /\ IsOpen(q) /\ q.collateral = net /\ q.sizeInEth = size /\ q.sizeInUsd = sizeInUsd
  <2> HIDE DEF net
  <2> QED  BY <1>1, <1>2, <1>3, PositionOfFacts
<1> HIDE DEF q
<1>7. UserPnL(q) = 0
  BY <1>2, <1>6 DEF UserPnL, sizeInUsd
<1>8. Worth(dai'[t], q) = dai[t] - fee
  BY <1>2, <1>4, <1>6, <1>7, InvFacts DEF Worth
<1>9. Worth(dai[t], positionMeta[t]) = dai[t]
  BY <1>1, InvFacts DEF Worth
<1> QED  BY <1>2, <1>5, <1>8, <1>9, WorthInt, InvFacts

(* increasePosition costs the fee, but for one unit that a long may gain.  *)
LEMMA IncreasePositionWorth ==
  ASSUME TradeXInv, NEW t \in Traders, NEW size \in Nat, IncreasePosition(t, size)
  PROVE  Worth(dai'[t], positionMeta'[t]) <= Worth(dai[t], positionMeta[t]) + RoundingUnit
<1> DEFINE p == positionMeta[t]
           added == ConvertEthToUsd(size, answer)
           fee == PositionFee(size, answer)
           sizeInUsd == p.sizeInUsd + added
           sizeInEth == p.sizeInEth + size
           net == p.collateral - fee
           q == PositionOf(p.isLong, net, sizeInEth, sizeInUsd)
           was == ConvertEthToUsd(p.sizeInEth, answer)
           is == ConvertEthToUsd(sizeInEth, answer)
<1>1. /\ FeedOk(answer)
      /\ IsOpen(p)
      /\ LeverageOk(net)
      /\ ExitPriceOk(sizeInUsd, sizeInEth, net)
      /\ positionMeta' = [positionMeta EXCEPT ![t] = q]
      /\ dai' = dai
  BY DEF IncreasePosition, WithinMaxLeverage
<1>2. added \in Nat /\ fee \in Nat /\ was \in Nat
  BY <1>1, ConversionNat, InvFacts
<1>3. /\ p.collateral \in Nat /\ p.sizeInUsd \in Nat /\ p.sizeInEth \in Nat /\ dai[t] \in Nat
      /\ net \in Nat /\ sizeInUsd \in Nat /\ sizeInEth \in Nat
      /\ p.isLong \in {Long, Short}
  BY <1>1, <1>2, InvFacts DEF LeverageOk, IsOpen
<1>4. is \in Nat
  BY <1>1, <1>3, ConversionNat, InvFacts
<1>5. was + added <= is /\ is <= was + added + RoundingUnit
  <2> DEFINE m == p.sizeInEth
  <2>1. m \in Nat
    BY <1>3
  <2>2. sizeInEth = m + size
    OBVIOUS
  <2> HIDE DEF m
  <2>3. /\ ConvertEthToUsd(m, answer) + ConvertEthToUsd(size, answer)
             <= ConvertEthToUsd(m + size, answer)
        /\ ConvertEthToUsd(m + size, answer)
             <= ConvertEthToUsd(m, answer) + ConvertEthToUsd(size, answer) + RoundingUnit
    BY <1>1, <2>1, ConvertSum, InvFacts
  <2> QED  BY <2>2, <2>3 DEF m
<1>6. positionMeta'[t] = q
  BY <1>1 DEF TradeXInv
<1>7. /\ IsOpen(q) /\ q.collateral = net /\ q.sizeInEth = sizeInEth /\ q.sizeInUsd = sizeInUsd
      /\ q.isLong = p.isLong
  <2> HIDE DEF sizeInEth, sizeInUsd, net
  <2> QED  BY <1>1, <1>3, PositionOfFacts
<1> HIDE DEF q, is, was, added, fee
<1>8. UserPnL(q) <= UserPnL(p) + RoundingUnit /\ UserPnL(q) \in Int
  <2>1. RoundingUnit \in Nat
    BY WorthInt
  <2>2. CASE p.isLong = Long
    <3>1. UserPnL(q) = is - (p.sizeInUsd + added) /\ UserPnL(p) = was - p.sizeInUsd
      BY <1>7, <2>2 DEF UserPnL, is, was
    <3> QED  BY <1>2, <1>3, <1>4, <1>5, <2>1, <3>1
  <2>3. CASE p.isLong # Long
    <3>1. UserPnL(q) = (p.sizeInUsd + added) - is /\ UserPnL(p) = p.sizeInUsd - was
      BY <1>7, <2>3 DEF UserPnL, is, was
    <3> QED  BY <1>2, <1>3, <1>4, <1>5, <2>1, <3>1
  <2> QED  BY <2>2, <2>3
<1>9. Worth(dai[t], q) = dai[t] + ((p.collateral - fee) + UserPnL(q))
  BY <1>7, OpenWorth
<1>10. Worth(dai[t], p) = dai[t] + (p.collateral + UserPnL(p))
  BY <1>1, OpenWorth
<1>11. UserPnL(p) \in Int /\ RoundingUnit \in Nat
  BY WorthInt
<1>12. Worth(dai[t], q) <= Worth(dai[t], p) + RoundingUnit
  BY <1>2, <1>3, <1>8, <1>9, <1>10, <1>11
<1> QED  BY <1>1, <1>6, <1>12

(* A change of collateral and LiqPrice alone: the collateral added comes   *)
(* from the trader's DAI, or more is taken off than comes back.            *)
LEMMA CollateralChangeWorth ==
  ASSUME TradeXInv, NEW t \in Traders, NEW collateral \in Nat,
         IsOpen(positionMeta[t]),
         ExitPriceOk(positionMeta[t].sizeInUsd, positionMeta[t].sizeInEth, collateral),
         positionMeta' = [positionMeta EXCEPT
           ![t] = PositionOf(positionMeta[t].isLong, collateral,
                             positionMeta[t].sizeInEth, positionMeta[t].sizeInUsd)],
         dai'[t] \in Int,
         dai'[t] + collateral <= dai[t] + positionMeta[t].collateral
  PROVE  Worth(dai'[t], positionMeta'[t]) <= Worth(dai[t], positionMeta[t]) + RoundingUnit
<1> DEFINE p == positionMeta[t]
           q == PositionOf(p.isLong, collateral, p.sizeInEth, p.sizeInUsd)
<1>1. /\ p.isLong \in {Long, Short} /\ p.sizeInEth \in Nat /\ p.sizeInUsd \in Nat
      /\ p.collateral \in Nat /\ dai[t] \in Nat
  BY InvFacts DEF IsOpen
<1>2. /\ IsOpen(q) /\ q.collateral = collateral /\ q.sizeInEth = p.sizeInEth
      /\ q.sizeInUsd = p.sizeInUsd /\ q.isLong = p.isLong
  BY <1>1, PositionOfFacts
<1>3. positionMeta'[t] = q
  BY DEF TradeXInv
<1> HIDE DEF q
<1>4. UserPnL(q) = UserPnL(p)
  BY <1>2 DEF UserPnL
<1>5. Worth(dai'[t], q) = dai'[t] + (collateral + UserPnL(p))
  BY <1>2, <1>4, OpenWorth
<1>6. Worth(dai[t], p) = dai[t] + (p.collateral + UserPnL(p))
  BY OpenWorth
<1>7. UserPnL(p) \in Int /\ RoundingUnit \in Nat
  BY WorthInt
<1>8. Worth(dai'[t], q) <= Worth(dai[t], p) + RoundingUnit
  BY <1>1, <1>5, <1>6, <1>7
<1> QED  BY <1>3, <1>8

(* A partial decrease settles the profit or loss of the whole position and *)
(* marks the rest: it costs the fee.                                       *)
LEMMA ReducePositionWorth ==
  ASSUME TradeXInv, NEW t \in Traders, NEW size \in Nat, ReducePosition(t, size)
  PROVE  Worth(dai'[t], positionMeta'[t]) <= Worth(dai[t], positionMeta[t]) + RoundingUnit
<1> DEFINE p == positionMeta[t]
           pnl == UserPnL(p)
           fee == PositionFee(size, answer)
           sizeInEth == p.sizeInEth - size
           sizeInUsd == RemainingSizeInUsd(p, size)
           lost == IF pnl < 0 THEN -pnl ELSE 0
           marked == PositionOf(p.isLong, p.collateral - fee, sizeInEth, sizeInUsd)
           q == [marked EXCEPT !.collateral = @ - lost]
<1>1. /\ FeedOk(answer)
      /\ size < p.sizeInEth
      /\ IsOpen(p)
      /\ positionMeta' = [positionMeta EXCEPT ![t] = q]
      /\ \/ pnl > 0 /\ PoolPays(t, pnl)
         \/ pnl < 0 /\ dai' = dai
         \/ pnl = 0 /\ dai' = dai
  BY DEF ReducePosition
<1>2. pnl \in Int /\ fee \in Nat /\ p.collateral \in Nat /\ dai[t] \in Nat
  BY <1>1, PnLInt, ConversionNat, InvFacts
<1>3. sizeInUsd = ConvertEthToUsd(sizeInEth, answer)
  BY DEF RemainingSizeInUsd
<1>4. sizeInUsd \in Nat
  <2>1. sizeInEth \in Nat
    BY <1>1, InvFacts
  <2> HIDE DEF sizeInEth
  <2> QED  BY <1>1, <1>3, <2>1, ConversionNat, InvFacts
<1>5. positionMeta'[t] = q
  BY <1>1 DEF TradeXInv
<1> HIDE DEF sizeInUsd, fee, lost, pnl
<1>6. /\ q.isLong = p.isLong /\ q.sizeInEth = sizeInEth /\ q.sizeInUsd = sizeInUsd
      /\ q.collateral = p.collateral - fee - lost
  BY DEF PositionOf
<1> HIDE DEF q, sizeInEth
<1>7. IsOpen(q)
  BY <1>1, <1>6 DEF IsOpen
<1>8. UserPnL(q) = 0
  BY <1>3, <1>4, <1>6 DEF UserPnL
<1>9. dai'[t] - lost = dai[t] + pnl /\ dai'[t] \in Int
  <2>1. CASE pnl > 0 /\ PoolPays(t, pnl)
    <3>1. dai'[t] = dai[t] + pnl
      BY <1>2, <2>1, PaidByPool
    <3> QED  BY <1>2, <2>1, <3>1 DEF lost
  <2>2. CASE pnl < 0 /\ dai' = dai
    BY <1>2, <2>2 DEF lost
  <2>3. CASE pnl = 0 /\ dai' = dai
    BY <1>2, <2>3 DEF lost
  <2> QED  BY <1>1, <2>1, <2>2, <2>3
<1>10. lost \in Int
  BY <1>2 DEF lost
<1>11. Worth(dai'[t], q) = dai'[t] + ((p.collateral - fee - lost) + 0)
  BY <1>6, <1>7, <1>8, OpenWorth
<1>12. Worth(dai[t], p) = dai[t] + (p.collateral + pnl)
  BY <1>1, OpenWorth DEF pnl
<1>13. RoundingUnit \in Nat
  BY WorthInt
<1>14. Worth(dai'[t], q) <= Worth(dai[t], p) + RoundingUnit
  BY <1>2, <1>9, <1>10, <1>11, <1>12, <1>13
<1> QED  BY <1>5, <1>14

(* closePosition pays what the position is worth, no more.                 *)
LEMMA ClosePositionWorth ==
  ASSUME TradeXInv, NEW t \in Traders, ClosePosition(t)
  PROVE  Worth(dai'[t], positionMeta'[t]) <= Worth(dai[t], positionMeta[t]) + RoundingUnit
<1> DEFINE p == positionMeta[t]
           pnl == UserPnL(p)
<1>1. /\ FeedOk(answer)
      /\ IsOpen(p)
      /\ positionMeta' = [positionMeta EXCEPT ![t] = NoPosition]
  BY DEF ClosePosition, DeletePosition
<1>2. /\ dai \in [Accounts -> Nat]
      /\ t \in Accounts /\ TradeXContract \in Accounts /\ PoolContract \in Accounts
      /\ t # TradeXContract /\ t # PoolContract /\ TradeXContract # PoolContract
      /\ dai[t] \in Nat /\ p.collateral \in Nat
  BY InvFacts
<1>3. pnl \in Int
  BY <1>1, PnLInt
<1>4. \/ /\ pnl > 0
         /\ TransferOutOk(pnl)
         /\ CanMove(TradeXContract, p.collateral)
         /\ dai' = Moved(Moved(dai, PoolContract, t, pnl), TradeXContract, t, p.collateral)
      \/ p.collateral + pnl >= 0 /\ PoolPays(t, p.collateral + pnl)
      \/ /\ pnl = 0
         /\ CanMove(TradeXContract, p.collateral)
         /\ dai' = Moved(dai, TradeXContract, t, p.collateral)
  BY DEF ClosePosition
<1> HIDE DEF pnl
<1>5. dai'[t] = dai[t] + p.collateral + pnl
  <2>1. CASE /\ pnl > 0
             /\ TransferOutOk(pnl)
             /\ CanMove(TradeXContract, p.collateral)
             /\ dai' = Moved(Moved(dai, PoolContract, t, pnl), TradeXContract, t, p.collateral)
    <3> DEFINE paid == Moved(dai, PoolContract, t, pnl)
    <3>1. pnl \in Nat /\ dai[PoolContract] >= pnl
      BY <1>3, <2>1 DEF TransferOutOk, CanMove
    <3>2. /\ paid \in [Accounts -> Nat]
          /\ paid[TradeXContract] = dai[TradeXContract]
          /\ paid[t] = dai[t] + pnl
      BY <1>2, <3>1, MovedBalances
    <3>3. /\ paid[TradeXContract] >= p.collateral
          /\ dai' = Moved(paid, TradeXContract, t, p.collateral)
      BY <2>1, <3>2 DEF CanMove
    <3> HIDE DEF paid
    <3>4. dai'[t] = paid[t] + p.collateral
      BY <1>2, <3>2, <3>3, MovedBalances
    <3> QED  BY <1>2, <3>1, <3>2, <3>4
  <2>2. CASE p.collateral + pnl >= 0 /\ PoolPays(t, p.collateral + pnl)
    <3> DEFINE left == p.collateral + pnl
    <3>1. left \in Nat /\ PoolPays(t, left)
      BY <1>2, <1>3, <2>2
    <3> HIDE DEF left
    <3>2. dai'[t] = dai[t] + left
      BY <3>1, PaidByPool
    <3> QED  BY <1>2, <1>3, <3>2 DEF left
  <2>3. CASE /\ pnl = 0
             /\ CanMove(TradeXContract, p.collateral)
             /\ dai' = Moved(dai, TradeXContract, t, p.collateral)
    <3>1. dai[TradeXContract] >= p.collateral
      BY <2>3 DEF CanMove
    <3>2. dai'[t] = dai[t] + p.collateral
      BY <1>2, <2>3, <3>1, MovedBalances
    <3> QED  BY <1>2, <2>3, <3>2
  <2> QED  BY <1>4, <2>1, <2>2, <2>3
<1>6. positionMeta'[t] = NoPosition
  BY <1>1 DEF TradeXInv
<1>7. Worth(dai'[t], NoPosition) = dai'[t] + 0
  BY DEF Worth, IsOpen, NoPosition
<1>8. Worth(dai[t], p) = dai[t] + (p.collateral + pnl)
  BY <1>1, OpenWorth DEF pnl
<1>9. RoundingUnit \in Nat
  BY WorthInt
<1>10. Worth(dai'[t], NoPosition) <= Worth(dai[t], p) + RoundingUnit
  BY <1>2, <1>3, <1>5, <1>7, <1>8, <1>9
<1> QED  BY <1>6, <1>10

(* No call of a trader makes anybody richer.                               *)
LEMMA TraderStepGains ==
  ASSUME TradeXInv, NEW t \in Traders, TraderStep(t)
  PROVE  NobodyGains
<1> DEFINE Kept ==
      Worth(dai'[t], positionMeta'[t]) <= Worth(dai[t], positionMeta[t]) + RoundingUnit
<1>1. CASE \E c \in Collaterals, s \in Sizes, l \in {Long, Short} : OpenPosition(t, c, s, l)
  <2>1. Kept
    BY <1>1, TradeXAssumption, OpenPositionWorth
  <2> QED  BY <2>1, CallerIsEnough
<1>2. CASE \E s \in Sizes : IncreasePosition(t, s)
  <2>1. Kept
    BY <1>2, TradeXAssumption, IncreasePositionWorth
  <2> QED  BY <2>1, CallerIsEnough
<1>3. CASE \E s \in Sizes : ReducePosition(t, s)
  <2>1. Kept
    BY <1>3, TradeXAssumption, ReducePositionWorth
  <2> QED  BY <2>1, CallerIsEnough
<1>4. CASE ClosePosition(t)
  <2>1. Kept
    BY <1>4, ClosePositionWorth
  <2> QED  BY <2>1, CallerIsEnough
<1>5. ASSUME NEW amount \in Nat, UpdateCollateral(t, amount)
      PROVE  Kept
  <2>1. positionMeta[t].collateral \in Nat /\ dai[t] \in Nat
        /\ positionMeta[t].collateral + amount \in Nat
    BY InvFacts
  <2>2. dai'[t] = dai[t] - amount
    <3>1. /\ dai \in [Accounts -> Nat] /\ dai[t] >= amount
          /\ dai' = Moved(dai, t, TradeXContract, amount)
          /\ t \in Accounts /\ TradeXContract \in Accounts /\ t # TradeXContract
      BY <1>5, InvFacts DEF UpdateCollateral, CanMove
    <3> QED  BY <3>1, MovedBalances
  <2>3. dai'[t] \in Int
        /\ dai'[t] + (positionMeta[t].collateral + amount) <= dai[t] + positionMeta[t].collateral
    BY <2>1, <2>2
  <2> QED  BY <1>5, <2>1, <2>3, CollateralChangeWorth DEF UpdateCollateral
<1>6. ASSUME NEW amount \in Nat, ReduceCollateral(t, amount)
      PROVE  Kept
  <2> DEFINE p == positionMeta[t]
             collateral == p.collateral - amount
  <2>1. /\ p.collateral # 0
        /\ LeverageOk(collateral)
        /\ ExitPriceOk(p.sizeInUsd, p.sizeInEth, collateral)
        /\ positionMeta' = [positionMeta EXCEPT
             ![t] = PositionOf(p.isLong, collateral, p.sizeInEth, p.sizeInUsd)]
        /\ dai' = dai
    BY <1>6 DEF ReduceCollateral, WithinMaxLeverage
  <2>2. collateral \in Nat /\ collateral <= p.collateral
    BY <2>1, InvFacts DEF LeverageOk
  <2>3. IsOpen(p)
    BY <2>1, InvFacts DEF Shaped, NoPosition
  <2> HIDE DEF collateral
  <2>4. dai'[t] \in Int /\ dai'[t] + collateral <= dai[t] + p.collateral
    BY <2>1, <2>2, InvFacts
  <2> QED  BY <2>1, <2>2, <2>3, <2>4, CollateralChangeWorth
<1>7. CASE \E c \in Collaterals : UpdateCollateral(t, c)
  <2>1. Kept
    BY <1>5, <1>7, TradeXAssumption
  <2> QED  BY <2>1, CallerIsEnough
<1>8. CASE \E a \in Reductions : ReduceCollateral(t, a)
  <2>1. Kept
    BY <1>6, <1>8, TradeXAssumption
  <2> QED  BY <2>1, CallerIsEnough
<1> QED
  BY <1>1, <1>2, <1>3, <1>4, <1>7, <1>8 DEF TraderStep, DecreasePosition, DecreaseCollateral

(* A liquidation shows in the DAI that the pool receives.                  *)
LEMMA LiquidationShows ==
  ASSUME TradeXInv, NEW caller \in Users, NEW t \in Traders, Liquidate(caller, t)
  PROVE  Liquidated(t)
<1> DEFINE p == positionMeta[t]
           reward == p.collateral \div liquidator_fee
           rest == p.collateral - reward
           rewarded == Moved(dai, TradeXContract, caller, reward)
<1>1. /\ dai[TradeXContract] >= p.collateral
      /\ dai' = Moved(rewarded, TradeXContract, PoolContract, rest)
      /\ p.collateral > 0
      /\ positionMeta' = [positionMeta EXCEPT ![t] = NoPosition]
  BY DEF Liquidate, CanMove, OverLeveraged, LeverageOk, DeletePosition
<1>2. /\ dai \in [Accounts -> Nat]
      /\ caller \in Accounts /\ TradeXContract \in Accounts /\ PoolContract \in Accounts
      /\ caller # TradeXContract /\ caller # PoolContract /\ TradeXContract # PoolContract
      /\ dai[TradeXContract] \in Nat /\ dai[PoolContract] \in Nat /\ p.collateral \in Nat
  BY InvFacts, LedgerAssumption DEF Accounts
<1>3. reward \in Nat /\ rest \in Nat /\ reward + rest = p.collateral /\ rest > 0
  BY <1>1, <1>2 DEF liquidator_fee
<1> HIDE DEF reward, rest
<1>4. /\ rewarded \in [Accounts -> Nat]
      /\ rewarded[TradeXContract] = dai[TradeXContract] - reward
      /\ rewarded[PoolContract] = dai[PoolContract]
  <2>1. reward \in Nat /\ dai[TradeXContract] >= reward
    BY <1>1, <1>2, <1>3
  <2> QED  BY <1>2, <2>1, MovedBalances
<1> HIDE DEF rewarded
<1>5. rewarded[TradeXContract] >= rest
  BY <1>1, <1>2, <1>3, <1>4
<1>6. dai'[PoolContract] = rewarded[PoolContract] + rest
  <2>1. /\ rewarded \in [Accounts -> Nat] /\ rest \in Nat
        /\ TradeXContract \in Accounts /\ PoolContract \in Accounts
        /\ TradeXContract # PoolContract
    BY <1>2, <1>3, <1>4
  <2>2. Moved(rewarded, TradeXContract, PoolContract, rest)[PoolContract]
          = rewarded[PoolContract] + rest
    BY <2>1, <1>5, MovedBalances
  <2> QED  BY <1>1, <2>2
<1>7. dai'[PoolContract] > dai[PoolContract]
  BY <1>2, <1>3, <1>4, <1>6
<1>8. IsOpen(p)
  BY <1>1, InvFacts DEF Shaped, NoPosition
<1>9. ~IsOpen(positionMeta'[t])
  BY <1>1 DEF TradeXInv, IsOpen, NoPosition
<1> QED  BY <1>7, <1>8, <1>9 DEF Liquidated

(* No call to TradeX but a liquidation makes a trader richer, for any price*)
(* and scale, any sizes and collaterals: what a trader owns at the price of*)
(* the call grows by one unit at most, and with exact conversions not at   *)
(* all.                                                                    *)
THEOREM TradeXNoFreeGain == Spec => NoFreeGain
<1>1. TradeXInv /\ [Next]_vars =>
        [ /\ positionMeta' # positionMeta
          /\ \A t \in Traders : ~Liquidated(t)
          => \A t \in Traders : Equity(t)' <= Equity(t) + RoundingUnit ]_vars
  <2> SUFFICES ASSUME TradeXInv, Next, positionMeta' # positionMeta,
                      \A t \in Traders : ~Liquidated(t)
               PROVE  \A t \in Traders : Equity(t)' <= Equity(t) + RoundingUnit
    OBVIOUS
  <2>1. ~OracleUpdate /\ ~PoolStep
    BY OtherStepsKeepPositions
  <2>2. ~LiquidationStep
    BY LiquidationShows DEF LiquidationStep
  <2>3. PICK t \in Traders : TraderStep(t)
    BY <2>1, <2>2 DEF Next
  <2>4. NobodyGains
    BY <2>3, TraderStepGains
  <2>5. answer' = answer
    BY <2>3, TraderStepTouches
  <2>6. \A u \in Traders : Equity(u) = Worth(dai[u], positionMeta[u])
    BY DEF Equity, Worth
  <2>7. \A u \in Traders : Equity(u)' = Worth(dai'[u], positionMeta'[u])
    BY <2>5 DEF Equity, Worth, UserPnL
  <2> QED  BY <2>4, <2>6, <2>7 DEF NobodyGains
<1> QED
  BY <1>1, TradeXInvariant, PTL DEF Spec, NoFreeGain

-----------------------------------------------------------------------------
(* The maximal leverage                                                    *)

\* A change of one position that does not take it beyond the maximal
\* leverage, unless it re-marks the position or pays for one without
\* collateral.
LimitKept(p, q) ==
  ~OverLeveraged(p) /\ OverLeveraged(q) =>
    /\ IsOpen(p)
    /\ \/ Leverage(q.sizeInUsd, q.collateral) = MAX_LEVERAGE
       \/ Reduced(p, q)
       \/ p.collateral = 0

(* More collateral for the same size is no higher leverage.                *)
LEMMA LeverageFalls ==
  ASSUME NEW size \in Nat, NEW c \in Nat, c > 0, NEW d \in Nat, d >= c
  PROVE  Leverage(size, d) <= Leverage(size, c)
<1> DEFINE x == size * LEVERAGE_PRECISION
           k == x \div c
           m == x \div d
<1>1. x \in Nat
  BY MathAssumption, ProductNat
<1> HIDE DEF x
<1>2. k \in Nat /\ m \in Nat /\ x < (k + 1) * c /\ m * d <= x
  BY <1>1, DivBounds
<1> HIDE DEF k, m
<1>3. ASSUME m > k
      PROVE  FALSE
  <2>1. PICK j \in Nat : m = (k + 1) + j
    <3>1. m - (k + 1) \in Nat /\ m = (k + 1) + (m - (k + 1))
      BY <1>2, <1>3
    <3> QED  BY <3>1
  <2>2. PICK e \in Nat : d = c + e
    <3>1. d - c \in Nat /\ d = c + (d - c)
      OBVIOUS
    <3> QED  BY <3>1
  <2>3. m * d = (k + 1) * c + j * c + m * e
    BY <1>2, <2>1, <2>2
  <2>4. j * c \in Nat /\ m * e \in Nat
    BY <1>2, ProductNat
  <2>5. (k + 1) * c \in Nat
    BY <1>2, ProductNat
  <2> QED  BY <1>1, <1>2, <2>3, <2>4, <2>5
<1> QED  BY <1>2, <1>3 DEF Leverage, x, k, m

(* openPosition refuses the maximal leverage, increasePosition and         *)
(* decreaseCollateral what is above it, and updateCollateral lowers it.    *)
LEMMA TraderStepLimit ==
  ASSUME TradeXInv, NEW t \in Traders, TraderStep(t)
  PROVE  LimitKept(positionMeta[t], positionMeta'[t])
<1> DEFINE p == positionMeta[t]
           q == positionMeta'[t]
<1>1. positionMeta \in [Traders -> Position]
  BY DEF TradeXInv
<1>2. /\ p \in Position /\ p.collateral \in Nat /\ p.sizeInUsd \in Nat /\ p.sizeInEth \in Nat
      /\ Shaped(p)
  BY InvFacts
<1>3. \A l, c, s, u : /\ PositionOf(l, c, s, u).collateral = c
                      /\ PositionOf(l, c, s, u).sizeInUsd = u
                      /\ PositionOf(l, c, s, u).sizeInEth = s
  BY DEF PositionOf
<1>4. ASSUME NEW c \in Collaterals, NEW s \in Sizes, NEW l \in {Long, Short},
             OpenPosition(t, c, s, l)
      PROVE  LimitKept(p, q)
  <2> DEFINE net == c - PositionFee(s, answer)
             usd == ConvertEthToUsd(s, answer)
  <2>1. q = PositionOf(l, net, s, usd) /\ Leverage(usd, net) < MAX_LEVERAGE /\ LeverageOk(net)
    BY <1>1, <1>4 DEF OpenPosition
  <2>2. FeedOk(answer) /\ answer \in Int /\ s \in Nat /\ c \in Nat
    BY <1>4, InvFacts, TradeXAssumption DEF OpenPosition
  <2>3. usd \in Nat /\ PositionFee(s, answer) \in Nat
    BY <2>2, ConversionNat
  <2> HIDE DEF usd
  <2>4. net \in Nat /\ net > 0
    BY <2>1, <2>2, <2>3 DEF LeverageOk
  <2> HIDE DEF net
  <2>5. Leverage(usd, net) \in Nat
    BY <2>3, <2>4, MathAssumption, ProductNat, DivBounds DEF Leverage
  <2>6. ~OverLeveraged(q)
    BY <1>3, <2>1, <2>5, MathAssumption DEF OverLeveraged
  <2> QED  BY <2>6 DEF LimitKept
<1>5. ASSUME NEW c \in Nat, NEW u \in Nat, NEW s, NEW l,
             IsOpen(p), WithinMaxLeverage(u, c), q = PositionOf(l, c, s, u)
      PROVE  LimitKept(p, q)
  <2>1. c > 0 /\ Leverage(u, c) <= MAX_LEVERAGE
    BY <1>5 DEF WithinMaxLeverage, LeverageOk
  <2>2. Leverage(u, c) \in Nat
    BY <1>5, <2>1, MathAssumption, ProductNat, DivBounds DEF Leverage
  <2>3. OverLeveraged(q) => Leverage(q.sizeInUsd, q.collateral) = MAX_LEVERAGE
    BY <1>3, <1>5, <2>1, <2>2, MathAssumption DEF OverLeveraged
  <2> QED  BY <1>5, <2>3 DEF LimitKept
<1>6. ASSUME NEW s \in Sizes, IncreasePosition(t, s)
      PROVE  LimitKept(p, q)
  <2> DEFINE net == p.collateral - PositionFee(s, answer)
             usd == p.sizeInUsd + ConvertEthToUsd(s, answer)
  <2>1. /\ q = PositionOf(p.isLong, net, p.sizeInEth + s, usd)
        /\ WithinMaxLeverage(usd, net) /\ IsOpen(p)
    BY <1>1, <1>6 DEF IncreasePosition
  <2>2. FeedOk(answer) /\ answer \in Int /\ s \in Nat
    BY <1>6, InvFacts, TradeXAssumption DEF IncreasePosition
  <2>3. ConvertEthToUsd(s, answer) \in Nat /\ PositionFee(s, answer) \in Nat
    BY <2>2, ConversionNat
  <2>4. usd \in Nat /\ net \in Nat
    BY <1>2, <2>1, <2>3 DEF WithinMaxLeverage, LeverageOk
  <2> QED  BY <1>5, <2>1, <2>4
<1>7. ASSUME NEW a \in Reductions, ReduceCollateral(t, a)
      PROVE  LimitKept(p, q)
  <2> DEFINE net == p.collateral - a
  <2>1. /\ q = PositionOf(p.isLong, net, p.sizeInEth, p.sizeInUsd)
        /\ WithinMaxLeverage(p.sizeInUsd, net) /\ p.collateral # 0
    BY <1>1, <1>7 DEF ReduceCollateral
  <2>2. net \in Nat
    BY <1>2, <2>1, TradeXAssumption DEF WithinMaxLeverage, LeverageOk
  <2>3. IsOpen(p)
    BY <1>2, <2>1 DEF Shaped, NoPosition
  <2> QED  BY <1>2, <1>5, <2>1, <2>2, <2>3
<1>8. ASSUME NEW c \in Collaterals, UpdateCollateral(t, c)
      PROVE  LimitKept(p, q)
  <2> DEFINE d == p.collateral + c
  <2>1. q = PositionOf(p.isLong, d, p.sizeInEth, p.sizeInUsd) /\ IsOpen(p)
    BY <1>1, <1>8 DEF UpdateCollateral
  <2>2. d \in Nat /\ d >= p.collateral
    BY <1>2, TradeXAssumption
  <2> HIDE DEF d
  <2>3. CASE p.collateral = 0
    BY <2>1, <2>3 DEF LimitKept
  <2>4. CASE p.collateral > 0
    <3>1. Leverage(p.sizeInUsd, d) <= Leverage(p.sizeInUsd, p.collateral)
      BY <1>2, <2>2, <2>4, LeverageFalls
    <3>2. Leverage(p.sizeInUsd, d) \in Nat /\ Leverage(p.sizeInUsd, p.collateral) \in Nat
      <4>1. d > 0
        BY <1>2, <2>2, <2>4
      <4> QED  BY <1>2, <2>2, <2>4, <4>1, MathAssumption, ProductNat, DivBounds DEF Leverage
    <3>3. OverLeveraged(q) => OverLeveraged(p)
      BY <1>3, <2>1, <2>4, <3>1, <3>2, MathAssumption DEF OverLeveraged, LeverageOk
    <3> QED  BY <3>3 DEF LimitKept
  <2> QED  BY <1>2, <2>3, <2>4
<1>9. ASSUME NEW s \in Sizes, ReducePosition(t, s)
      PROVE  LimitKept(p, q)
  <2> DEFINE fee == PositionFee(s, answer)
             lost == IF UserPnL(p) < 0 THEN -UserPnL(p) ELSE 0
             left == p.sizeInEth - s
             usd == RemainingSizeInUsd(p, s)
  <2>1. /\ q = [PositionOf(p.isLong, p.collateral - fee, left, usd) EXCEPT !.collateral = @ - lost]
        /\ s < p.sizeInEth /\ IsOpen(p)
    BY <1>1, <1>9 DEF ReducePosition
  <2>2. q.sizeInEth = left /\ s \in Nat
    BY <2>1, TradeXAssumption DEF PositionOf
  <2>3. CASE s = 0 /\ usd = p.sizeInUsd
    <3>1. ConvertEthToUsd(p.sizeInEth, answer) = p.sizeInUsd
      BY <1>2, <2>3 DEF RemainingSizeInUsd
    <3>2. lost = 0
      BY <1>2, <3>1 DEF UserPnL
    <3>3. fee = 0
      BY <1>2, <2>3, ConvertZero, InvFacts DEF PositionFee
    <3> HIDE DEF usd, lost, fee
    <3>4. q.collateral = p.collateral /\ q.sizeInUsd = p.sizeInUsd
      BY <1>2, <2>1, <2>3, <3>2, <3>3 DEF PositionOf
    <3> QED  BY <3>4 DEF LimitKept, OverLeveraged
  <2>4. CASE ~(s = 0 /\ usd = p.sizeInUsd)
    <3>1. q.sizeInUsd = usd
      BY <2>1 DEF PositionOf
    <3> HIDE DEF usd
    <3>2. q.sizeInEth <= p.sizeInEth /\ (q.sizeInEth # p.sizeInEth \/ q.sizeInUsd # p.sizeInUsd)
      BY <1>2, <2>2, <2>4, <3>1
    <3> QED  BY <2>1, <3>2 DEF LimitKept, Reduced
  <2> QED  BY <2>3, <2>4
<1>10. CASE ClosePosition(t)
  <2>1. q = NoPosition
    BY <1>1, <1>10 DEF ClosePosition, DeletePosition
  <2> QED  BY <2>1 DEF LimitKept, OverLeveraged, LeverageOk, NoPosition
<1> QED
  BY <1>4, <1>6, <1>7, <1>8, <1>9, <1>10 DEF TraderStep, DecreasePosition, DecreaseCollateral

(* No call takes a position beyond the maximal leverage but decreasePosi-  *)
(* tion, and none opens one at it, for any scale of leverage, any prices   *)
(* and amounts: what liquidate() accepts of the rest is exactly at the     *)
(* maximum.                                                                *)
THEOREM TradeXLimitOfLeverage == Spec => LimitPassedOnlyByDecrease
<1> DEFINE Kept == \A t \in Traders : LimitKept(positionMeta[t], positionMeta'[t])
<1>1. TradeXInv /\ [Next]_vars => [Kept]_vars
  <2> SUFFICES ASSUME TradeXInv, Next
               PROVE  Kept
    OBVIOUS
  <2>1. ASSUME NEW t \in Traders, TraderStep(t)
        PROVE  Kept
    <3>1. \A u \in Traders : u # t => positionMeta'[u] = positionMeta[u]
      BY <2>1, TraderStepTouches
    <3>2. LimitKept(positionMeta[t], positionMeta'[t])
      BY <2>1, TraderStepLimit
    <3> QED  BY <3>1, <3>2 DEF LimitKept
  <2>2. CASE LiquidationStep
    <3>1. PICK caller \in Users, t \in Traders : Liquidate(caller, t)
      BY <2>2 DEF LiquidationStep
    <3>2. positionMeta' = [positionMeta EXCEPT ![t] = NoPosition]
      BY <3>1 DEF Liquidate, DeletePosition
    <3>3. ~OverLeveraged(NoPosition)
      BY DEF OverLeveraged, LeverageOk, NoPosition
    <3> QED  BY <3>2, <3>3 DEF LimitKept, TradeXInv
  <2>3. CASE OracleUpdate \/ PoolStep
    BY <2>3, OtherStepsKeepPositions DEF LimitKept
  <2> QED  BY <2>1, <2>2, <2>3 DEF Next
<1>2. Kept <=>
        \A t \in Traders :
          LET p == positionMeta[t]
              q == positionMeta'[t]
          IN  ~OverLeveraged(p) /\ OverLeveraged(q) =>
                /\ IsOpen(p)
                /\ \/ Leverage(q.sizeInUsd, q.collateral) = MAX_LEVERAGE
                   \/ Reduced(p, q)
                   \/ p.collateral = 0
  BY DEF LimitKept
<1> QED
  BY <1>1, <1>2, TradeXInvariant, PTL DEF Spec, LimitPassedOnlyByDecrease

-----------------------------------------------------------------------------
(* TradeX implements Escrow                                                *)

(* The contract as deployed is an empty escrow.                            *)
LEMMA InitEscrow ==
  ASSUME Init
  PROVE  Promise!Init
<1>1. dai[TradeXContract] = 0
  BY LedgerAssumption DEF Init, PoolInit, LedgerInit, Accounts
<1>2. \A t \in Traders : positionMeta[t].collateral = 0
  BY DEF Init, NoPosition
<1> QED  BY <1>1, <1>2 DEF Promise!Init

(* A handler keeps the claim of its trader or releases it.                 *)
LEMMA TradeStepEscrow ==
  ASSUME TradeXInv, TradeStep
  PROVE  Promise!Next
<1>1. PICK t \in Traders, q \in Position : TradeEffect(t, q)
  BY DEF TradeStep
<1> DEFINE owed == [u \in Traders |-> positionMeta[u].collateral]
           owedNext == [u \in Traders |-> positionMeta'[u].collateral]
           p == positionMeta[t]
<1>2. /\ positionMeta'[t] = q
      /\ \A u \in Traders : u # t => positionMeta'[u] = positionMeta[u]
  BY <1>1, OnePositionChanges
<1>3. /\ owedNext = [owed EXCEPT ![t] = owedNext[t]]
      /\ owedNext[t] = q.collateral /\ owed[t] = p.collateral
      /\ q.collateral \in Nat
  BY <1>2 DEF Position
<1>4. Promise!OnlyClaimOf(t)
  BY <1>3 DEF Promise!OnlyClaimOf
<1>5. /\ dai'[TradeXContract] \in Nat /\ dai[TradeXContract] \in Nat
      /\ p.collateral \in Nat /\ q.collateral \in Nat
      /\ dai'[TradeXContract] - dai[TradeXContract] >= q.collateral - p.collateral
      /\ \/ dai'[TradeXContract] >= dai[TradeXContract]
         \/ q.collateral = 0 /\ dai'[TradeXContract] = dai[TradeXContract] - p.collateral
  BY <1>1, <1>3, InvFacts DEF TradeEffect
<1>6. CASE dai'[TradeXContract] >= dai[TradeXContract]
  <2>1. q.collateral - p.collateral <= dai'[TradeXContract] - dai[TradeXContract]
    BY <1>5
  <2>2. Promise!Keep(t)
    BY <1>3, <1>4, <1>5, <1>6, <2>1 DEF Promise!Keep
  <2> QED  BY <2>2 DEF Promise!Next
<1>7. CASE q.collateral = 0 /\ dai'[TradeXContract] = dai[TradeXContract] - p.collateral
  <2>1. dai[TradeXContract] >= p.collateral
    BY <1>5, <1>7
  <2>2. Promise!Release(t)
    BY <1>3, <1>4, <1>7, <2>1 DEF Promise!Release
  <2> QED  BY <2>2 DEF Promise!Next
<1> QED  BY <1>5, <1>6, <1>7

(* Every step of the system is a step of the escrow or leaves it alone.    *)
LEMMA NextEscrow ==
  ASSUME TradeXInv, [Next]_vars
  PROVE  [Promise!Next]_Promise!vars
<1>1. CASE (\E t \in Traders : TraderStep(t)) \/ LiquidationStep
  BY <1>1, HandlerEffect, TradeStepEscrow
<1>2. CASE OracleUpdate
  BY <1>2 DEF OracleUpdate, pVars, Promise!vars
<1>3. CASE PoolStep
  <2>1. /\ dai'[TradeXContract] >= dai[TradeXContract]
        /\ dai'[TradeXContract] \in Nat
        /\ positionMeta' = positionMeta
    <3>1. TradeXInv'
      BY <1>3, NextInv DEF Next
    <3>2. dai'[TradeXContract] \in Nat
      BY <3>1, LedgerAssumption DEF TradeXInv, PoolInv, PoolTypeOK, LedgerTypeOK, Accounts
    <3> QED  BY <1>3, <3>2, PoolStepKeepsTradeX DEF PoolStep, TradeXInv, PoolInv
  <2> QED  BY <2>1 DEF Promise!Next, Promise!Arrive
<1>4. CASE UNCHANGED vars
  BY <1>4 DEF vars, pVars, Promise!vars
<1> QED  BY <1>1, <1>2, <1>3, <1>4 DEF Next

(* TradeX implements the escrow.                                           *)
THEOREM TradeXImplementsEscrow == Spec => ImplementsEscrow
<1>1. Init => Promise!Init
  BY InitEscrow
<1>2. TradeXInv /\ [Next]_vars => [Promise!Next]_Promise!vars
  BY NextEscrow
<1> QED
  BY <1>1, <1>2, TradeXInvariant, PTL DEF Spec, ImplementsEscrow, Promise!Spec

-----------------------------------------------------------------------------
(* An escrow is solvent, whatever implements it.  Nothing here looks at    *)
(* TradeX: the proof is about the steps of Escrow alone.                   *)

PromiseInv ==
  /\ dai[TradeXContract] \in Nat
  /\ CollateralOf \in [Traders -> Nat]
  /\ IsFiniteSet(Units(CollateralOf))
  /\ Promise!Solvent

(* The total of the claims as the escrow counts it.                        *)
LEMMA PromiseTotal ==
  ASSUME NEW f
  PROVE  Promise!Total(f) = Total(f)
<1>1. \A x, n : Promise!UnitsOf(x, n) = UnitsOf(x, n)
  BY DEF Promise!UnitsOf, UnitsOf
<1>2. Promise!Units(f) = Units(f)
  BY <1>1 DEF Promise!Units, Units
<1> QED  BY <1>2 DEF Promise!Total, Total, Promise!Cardinality, Cardinality

(* A change of one claim that what is held follows preserves solvency.     *)
LEMMA OneClaim ==
  ASSUME PromiseInv, NEW t \in Traders, Promise!OnlyClaimOf(t), dai'[TradeXContract] \in Nat,
         CollateralOf'[t] - CollateralOf[t] <= dai'[TradeXContract] - dai[TradeXContract]
  PROVE  PromiseInv'
<1> DEFINE owed == CollateralOf
           owedNext == CollateralOf'
<1>1. /\ owed \in [Traders -> Nat] /\ owedNext[t] \in Nat
      /\ owedNext = [owed EXCEPT ![t] = owedNext[t]]
  BY DEF PromiseInv, Promise!OnlyClaimOf, CollateralOf
<1>2. /\ IsFiniteSet(Units(owed)) /\ Total(owed) <= dai[TradeXContract]
      /\ dai[TradeXContract] \in Nat
  BY PromiseTotal DEF PromiseInv, Promise!Solvent, CollateralOf
<1>3. owedNext[t] - owed[t] <= dai'[TradeXContract] - dai[TradeXContract]
  OBVIOUS
<1> HIDE DEF owed, owedNext
<1>4. /\ owedNext \in [Traders -> Nat]
      /\ \A u \in Traders : u # t => owedNext[u] = owed[u]
      /\ owed[t] \in Nat /\ owedNext[t] \in Nat
  BY <1>1
<1>5. DOMAIN owed = Traders /\ DOMAIN owedNext = Traders
  BY <1>1, <1>4
<1>6. /\ IsFiniteSet(Units(owedNext)) /\ Total(owed) \in Nat /\ Total(owedNext) \in Nat
      /\ Total(owedNext) = Total(owed) - owed[t] + owedNext[t]
  BY <1>2, <1>4, <1>5, TotalUpdate
<1>7. Total(owedNext) <= dai'[TradeXContract]
  BY <1>2, <1>3, <1>4, <1>6
<1>8. Promise!Solvent'
  BY <1>7, PromiseTotal DEF owedNext, Promise!Solvent, CollateralOf
<1> QED  BY <1>4, <1>6, <1>8 DEF PromiseInv, owedNext

(* What an escrow holds covers all claims.  As TradeX implements Escrow,   *)
(* closePosition and liquidate always find the collateral they pay out.    *)
THEOREM EscrowSolvent == Promise!Spec => []Promise!Solvent
<1>1. Promise!Init => PromiseInv
  <2> SUFFICES ASSUME Promise!Init
               PROVE  PromiseInv
    OBVIOUS
  <2>1. dai[TradeXContract] = 0 /\ CollateralOf = [t \in Traders |-> 0]
    BY DEF Promise!Init, CollateralOf
  <2>2. \A t \in DOMAIN CollateralOf : CollateralOf[t] = 0
    BY <2>1
  <2>3. IsFiniteSet(Units(CollateralOf)) /\ Total(CollateralOf) = 0
    BY <2>2, TotalZero
  <2>4. Promise!Solvent
    BY <2>1, <2>3, PromiseTotal DEF Promise!Solvent, CollateralOf
  <2> QED  BY <2>1, <2>3, <2>4 DEF PromiseInv
<1>2. PromiseInv /\ [Promise!Next]_Promise!vars => PromiseInv'
  <2> SUFFICES ASSUME PromiseInv, [Promise!Next]_Promise!vars
               PROVE  PromiseInv'
    OBVIOUS
  <2>1. ASSUME NEW t \in Traders, Promise!Keep(t)
        PROVE  PromiseInv'
    BY <2>1, OneClaim DEF Promise!Keep, CollateralOf
  <2>2. ASSUME NEW t \in Traders, Promise!Release(t)
        PROVE  PromiseInv'
    <3>1. CollateralOf[t] \in Nat /\ dai[TradeXContract] \in Nat
      BY DEF PromiseInv
    <3>2. /\ Promise!OnlyClaimOf(t)
          /\ CollateralOf'[t] = 0
          /\ dai[TradeXContract] >= CollateralOf[t]
          /\ dai'[TradeXContract] = dai[TradeXContract] - CollateralOf[t]
      BY <2>2 DEF Promise!Release, CollateralOf
    <3>3. /\ dai'[TradeXContract] \in Nat
          /\ CollateralOf'[t] - CollateralOf[t] <= dai'[TradeXContract] - dai[TradeXContract]
      BY <3>1, <3>2
    <3> QED  BY <3>2, <3>3, OneClaim
  <2>3. ASSUME dai'[TradeXContract] \in Nat, dai'[TradeXContract] >= dai[TradeXContract],
               CollateralOf' = CollateralOf
        PROVE  PromiseInv'
    <3>1. Total(CollateralOf) \in Nat /\ Total(CollateralOf) <= dai[TradeXContract]
      BY FS_CardinalityType, PromiseTotal DEF PromiseInv, Total, Promise!Solvent, CollateralOf
    <3>2. Total(CollateralOf') <= dai'[TradeXContract]
      BY <2>3, <3>1 DEF PromiseInv
    <3>3. Promise!Solvent'
      BY <3>2, PromiseTotal DEF Promise!Solvent, CollateralOf
    <3> QED  BY <2>3, <3>3 DEF PromiseInv
  <2>4. CASE Promise!Arrive
    BY <2>3, <2>4 DEF Promise!Arrive, CollateralOf
  <2>5. CASE UNCHANGED Promise!vars
    BY <2>3, <2>5 DEF Promise!vars, PromiseInv, CollateralOf
  <2> QED  BY <2>1, <2>2, <2>4, <2>5 DEF Promise!Next
<1>3. PromiseInv => Promise!Solvent
  BY DEF PromiseInv
<1> QED  BY <1>1, <1>2, <1>3, PTL DEF Promise!Spec

-----------------------------------------------------------------------------
(* While the price stands                                                  *)
(*                                                                         *)
(* Three calls change the size of a position, and they round differently:  *)
(* openPosition and increasePosition add the value of the ETH bought,      *)
(* decreasePosition marks what is left, and takes off open interest the    *)
(* value of the ETH sold.  At a standing price nothing but truncation tells*)
(* open interest from the recorded sizes: one unit a call (TradeXOpen-     *)
(* InterestDrift), and none if every size converts without a remainder     *)
(* (TradeXOpenInterestExact).  With a price that moves even that fails     *)
(* (FlatMeansNoOpenInterest).                                              *)

SizeOf == [t \in Traders |-> positionMeta[t].sizeInUsd]

\* The value of a position's ETH at the current price.
Value(p) == ConvertEthToUsd(p.sizeInEth, answer)

ValueOf == [t \in Traders |-> Value(positionMeta[t])]

\* By how much the positions' values exceed open interest.
Shortfall == Total(ValueOf) - s_openInterest

\* An amount of ETH whose conversion leaves no remainder, at any price.
ExactSize(n) == \E k \in Nat : PRICEFEED_PRECISION * n = WAD * k

\* The recorded size is the value of the position at the current price.
Marked(p) == p.sizeInUsd = Value(p) /\ ExactSize(p.sizeInEth)

\* What the invariants for exact sizes and for any sizes have in common.
AtFixedPrice ==
  /\ TradeXInv
  /\ \A t \in Traders : positionMeta[t].sizeInUsd <= Value(positionMeta[t])
  /\ IsFiniteSet(Units(SizeOf))
  /\ IsFiniteSet(Units(ValueOf))

FixedPriceInv ==
  /\ AtFixedPrice
  /\ \A t \in Traders : Marked(positionMeta[t])
  /\ OpenInterestExact

PriceStands == [][FALSE]_answer

\* How a handler changes the size of a position: not at all, by what is
\* bought, to what is left at the current price, or to none.
SizeChange(p, q) ==
  \/ q.sizeInEth = p.sizeInEth /\ q.sizeInUsd = p.sizeInUsd
  \/ \E s \in Sizes : /\ q.sizeInEth = p.sizeInEth + s
                      /\ q.sizeInUsd = p.sizeInUsd + ConvertEthToUsd(s, answer)
  \/ \E s \in Sizes : /\ s < p.sizeInEth
                      /\ q.sizeInEth = p.sizeInEth - s
                      /\ q.sizeInUsd = Value(q)
  \/ q.sizeInEth = 0 /\ q.sizeInUsd = 0

-----------------------------------------------------------------------------
(* Conversions of sums                                                     *)

(* The quotient of any integer, rounded down.                              *)
LEMMA FloorBounds ==
  ASSUME NEW n \in Int, NEW d \in Nat \ {0}
  PROVE  /\ n \div d \in Int
         /\ d * (n \div d) <= n
         /\ n < d * (n \div d) + d
OBVIOUS

(* A smaller factor leaves room for a whole divisor.                       *)
LEMMA NextMultiple ==
  ASSUME NEW d \in Nat \ {0}, NEW a \in Int, NEW b \in Int, a < b
  PROVE  d * a + d <= d * b
<1>1. PICK j \in Nat : b = a + 1 + j
  <2>1. b - a - 1 \in Nat /\ b = a + 1 + (b - a - 1)
    OBVIOUS
  <2> QED  BY <2>1
<1>2. d * b = d * a + d + d * j /\ d * j \in Nat /\ d * a \in Int
  BY <1>1
<1> QED  BY <1>2

(* What lies between two multiples of the divisor has the smaller quotient.*)
LEMMA FloorUnique ==
  ASSUME NEW n \in Int, NEW d \in Nat \ {0}, NEW k \in Int, d * k <= n, n < d * k + d
  PROVE  n \div d = k
<1>1. PICK q \in Int : q = n \div d
  BY FloorBounds
<1>2. d * q <= n /\ n < d * q + d
  BY <1>1, FloorBounds
<1>3. d * q \in Int /\ d * k \in Int
  OBVIOUS
<1>4. ~(q < k) /\ ~(k < q)
  BY <1>2, <1>3, NextMultiple
<1> QED  BY <1>1, <1>4

(* A conversion, as its bounds determine it.                               *)
LEMMA ConvertBounds ==
  ASSUME NEW a \in Int, NEW n \in Nat
  PROVE  /\ EthInUsd(a) \in Int
         /\ EthInUsd(a) * n \in Int
         /\ ConvertEthToUsd(n, a) \in Int
         /\ WAD * ConvertEthToUsd(n, a) <= EthInUsd(a) * n
         /\ EthInUsd(a) * n < WAD * ConvertEthToUsd(n, a) + WAD
<1>1. EthInUsd(a) \in Int
  BY MathAssumption DEF EthInUsd
<1>2. EthInUsd(a) * n \in Int
  BY <1>1
<1> QED  BY <1>1, <1>2, FloorBounds, MathAssumption DEF ConvertEthToUsd

(* Two conversions yield at most one unit less than one of the sum.        *)
LEMMA ConvertParts ==
  ASSUME NEW a \in Int, NEW m \in Nat, NEW n \in Nat
  PROVE  /\ ConvertEthToUsd(m, a) \in Int
         /\ ConvertEthToUsd(n, a) \in Int
         /\ ConvertEthToUsd(m + n, a) \in Int
         /\ ConvertEthToUsd(m, a) + ConvertEthToUsd(n, a) <= ConvertEthToUsd(m + n, a)
         /\ ConvertEthToUsd(m + n, a) <= ConvertEthToUsd(m, a) + ConvertEthToUsd(n, a) + 1
<1>1. PICK e \in Int, x \in Int, y \in Int, z \in Int :
        /\ e = EthInUsd(a) /\ x = ConvertEthToUsd(m, a) /\ y = ConvertEthToUsd(n, a)
        /\ z = ConvertEthToUsd(m + n, a)
  <2>1. m + n \in Nat
    OBVIOUS
  <2> QED  BY <2>1, ConvertBounds
<1>2. /\ WAD * x <= e * m /\ e * m < WAD * x + WAD
      /\ WAD * y <= e * n /\ e * n < WAD * y + WAD
      /\ WAD * z <= e * (m + n) /\ e * (m + n) < WAD * z + WAD
  <2>1. m + n \in Nat
    OBVIOUS
  <2>2. \A l \in Nat : LET v == ConvertEthToUsd(l, a)
                      IN  WAD * v <= EthInUsd(a) * l /\ EthInUsd(a) * l < WAD * v + WAD
    BY ConvertBounds
  <2> QED  BY <1>1, <2>1, <2>2
<1>3. /\ e * (m + n) = e * m + e * n /\ e * m \in Int /\ e * n \in Int
      /\ WAD * (x + y) = WAD * x + WAD * y
      /\ WAD * (x + y + 1) = WAD * x + WAD * y + WAD
      /\ WAD * x \in Int /\ WAD * y \in Int /\ WAD * z \in Int /\ WAD \in Nat \ {0}
  BY MathAssumption
<1>4. ~(z < x + y)
  <2>1. z < x + y => WAD * z + WAD <= WAD * (x + y)
    BY <1>3, NextMultiple
  <2> QED  BY <1>2, <1>3, <2>1
<1>5. ~(x + y + 1 < z)
  <2>1. x + y + 1 < z => WAD * (x + y + 1) + WAD <= WAD * z
    BY <1>3, NextMultiple
  <2> QED  BY <1>2, <1>3, <2>1
<1> QED  BY <1>1, <1>4, <1>5

(* An exact size is converted without a remainder, so that adding exact    *)
(* sizes adds what they convert to.                                        *)
LEMMA ConvertExact ==
  ASSUME NEW a \in Int, NEW m \in Nat, NEW n \in Nat, ExactSize(m), ExactSize(n)
  PROVE  /\ ExactSize(m + n)
         /\ ConvertEthToUsd(m + n, a) = ConvertEthToUsd(m, a) + ConvertEthToUsd(n, a)
<1>1. PICK j \in Nat, k \in Nat : /\ PRICEFEED_PRECISION * m = WAD * j
                                  /\ PRICEFEED_PRECISION * n = WAD * k
  BY DEF ExactSize
<1>2. PRICEFEED_PRECISION * (m + n) = WAD * (j + k) /\ j + k \in Nat
  <2>1. /\ PRICEFEED_PRECISION * (m + n) = PRICEFEED_PRECISION * m + PRICEFEED_PRECISION * n
        /\ WAD * (j + k) = WAD * j + WAD * k
    BY MathAssumption
  <2> QED  BY <1>1, <2>1
<1>3. ExactSize(m + n)
  BY <1>2 DEF ExactSize
<1>4. ASSUME NEW l \in Nat, NEW i \in Nat, PRICEFEED_PRECISION * l = WAD * i
      PROVE  ConvertEthToUsd(l, a) = a * i
  <2>1. EthInUsd(a) * l = WAD * (a * i) /\ a * i \in Int
    <3>1. EthInUsd(a) * l = a * (PRICEFEED_PRECISION * l)
      BY MathAssumption DEF EthInUsd
    <3>2. a * (WAD * i) = WAD * (a * i)
      BY MathAssumption
    <3> QED  BY <1>4, <3>1, <3>2
  <2>2. WAD * (a * i) \in Int /\ WAD * (a * i) < WAD * (a * i) + WAD
    BY <2>1, MathAssumption
  <2>3. (WAD * (a * i)) \div WAD = a * i
    BY <2>1, <2>2, FloorUnique, MathAssumption
  <2> QED  BY <2>1, <2>3 DEF ConvertEthToUsd
<1>5. a * (j + k) = a * j + a * k
  OBVIOUS
<1>6. /\ ConvertEthToUsd(m, a) = a * j
      /\ ConvertEthToUsd(n, a) = a * k
      /\ ConvertEthToUsd(m + n, a) = a * (j + k)
  BY <1>1, <1>2, <1>4
<1> QED  BY <1>3, <1>5, <1>6

(* What is left when an exact size is taken off an exact size is exact.    *)
LEMMA ExactRest ==
  ASSUME NEW m \in Nat, NEW n \in Nat, n < m, ExactSize(m), ExactSize(n)
  PROVE  ExactSize(m - n)
<1>1. PICK j \in Nat, k \in Nat : /\ PRICEFEED_PRECISION * m = WAD * j
                                  /\ PRICEFEED_PRECISION * n = WAD * k
  BY DEF ExactSize
<1>2. PRICEFEED_PRECISION * (m - n) = WAD * (j - k)
  <2>1. /\ PRICEFEED_PRECISION * (m - n) = PRICEFEED_PRECISION * m - PRICEFEED_PRECISION * n
        /\ WAD * (j - k) = WAD * j - WAD * k
    BY MathAssumption
  <2> QED  BY <1>1, <2>1
<1>3. j - k \in Nat
  <2>1. PRICEFEED_PRECISION * (m - n) \in Nat
    BY MathAssumption
  <2>2. j < k => WAD * (j - k) < 0
    <3>1. j < k => WAD * j + WAD <= WAD * k
      BY NextMultiple, MathAssumption
    <3>2. WAD * (j - k) = WAD * j - WAD * k /\ WAD * j \in Nat /\ WAD * k \in Nat
      BY MathAssumption
    <3> QED  BY <3>1, <3>2, MathAssumption
  <2> QED  BY <1>2, <2>1, <2>2
<1> QED  BY <1>2, <1>3 DEF ExactSize

-----------------------------------------------------------------------------
(* Every handler changes the size in one of the four ways                  *)

(* What is recorded with PositionOf.                                       *)
LEMMA RecordedSize ==
  ASSUME TradeXInv, NEW t \in Traders, NEW isLong, NEW collateral, NEW sizeInEth, NEW sizeInUsd,
         positionMeta' = [positionMeta EXCEPT
           ![t] = PositionOf(isLong, collateral, sizeInEth, sizeInUsd)]
  PROVE  /\ positionMeta'[t].sizeInEth = sizeInEth
         /\ positionMeta'[t].sizeInUsd = sizeInUsd
<1> DEFINE q == PositionOf(isLong, collateral, sizeInEth, sizeInUsd)
<1>1. q.sizeInEth = sizeInEth /\ q.sizeInUsd = sizeInUsd
  BY DEF PositionOf
<1>2. positionMeta \in [Traders -> Position]
  BY DEF TradeXInv
<1> HIDE DEF q
<1>3. positionMeta' = [positionMeta EXCEPT ![t] = q]
  BY DEF q
<1> QED  BY <1>1, <1>2, <1>3

(* The handlers, one by one.                                               *)
LEMMA HandlerSize ==
  ASSUME TradeXInv, NEW t \in Traders,
         TraderStep(t) \/ \E caller \in Users : Liquidate(caller, t)
  PROVE  /\ SizeChange(positionMeta[t], positionMeta'[t])
         /\ \A u \in Traders : u # t => positionMeta'[u] = positionMeta[u]
<1> DEFINE p == positionMeta[t]
           q == positionMeta'[t]
           OthersKept == \A u \in Traders : u # t => positionMeta'[u] = positionMeta[u]
<1>1. p.sizeInEth \in Nat /\ p.sizeInUsd \in Nat /\ answer \in Int
      /\ positionMeta \in [Traders -> Position]
  BY InvFacts DEF TradeXInv
<1>2. ASSUME NEW r, positionMeta' = [positionMeta EXCEPT ![t] = r]
      PROVE  q = r /\ OthersKept
  BY <1>1, <1>2
<1>3. ASSUME NEW c \in Collaterals, NEW s \in Sizes, NEW l \in {Long, Short}, OpenPosition(t, c, s, l)
      PROVE  SizeChange(p, q) /\ OthersKept
  <2>1. positionMeta' = [positionMeta EXCEPT
          ![t] = PositionOf(l, c - PositionFee(s, answer), s, ConvertEthToUsd(s, answer))]
    BY <1>3 DEF OpenPosition
  <2>2. q.sizeInEth = s /\ q.sizeInUsd = ConvertEthToUsd(s, answer)
    BY <2>1, RecordedSize
  <2>3. p.sizeInEth = 0 /\ p.sizeInUsd = 0
    BY <1>3, InvFacts DEF OpenPosition, Shaped, NoPosition
  <2>4. s \in Nat /\ ConvertEthToUsd(s, answer) \in Int
    BY <1>1, ConvertBounds, TradeXAssumption
  <2>5. q.sizeInEth = p.sizeInEth + s /\ q.sizeInUsd = p.sizeInUsd + ConvertEthToUsd(s, answer)
    BY <2>2, <2>3, <2>4
  <2>6. OthersKept
    BY <1>2, <2>1
  <2> QED  BY <2>5, <2>6 DEF SizeChange
<1>4. ASSUME NEW s \in Sizes, IncreasePosition(t, s)
      PROVE  SizeChange(p, q) /\ OthersKept
  <2>1. positionMeta' = [positionMeta EXCEPT
          ![t] = PositionOf(p.isLong, p.collateral - PositionFee(s, answer), p.sizeInEth + s,
                            p.sizeInUsd + ConvertEthToUsd(s, answer))]
    BY <1>4 DEF IncreasePosition
  <2>2. /\ q.sizeInEth = p.sizeInEth + s
        /\ q.sizeInUsd = p.sizeInUsd + ConvertEthToUsd(s, answer)
    BY <2>1, RecordedSize
  <2>3. OthersKept
    BY <1>2, <2>1
  <2> QED  BY <2>2, <2>3 DEF SizeChange
<1>5. ASSUME NEW s \in Sizes, ReducePosition(t, s)
      PROVE  SizeChange(p, q) /\ OthersKept
  <2> DEFINE c == p.collateral - PositionFee(s, answer)
             lost == IF UserPnL(p) < 0 THEN -UserPnL(p) ELSE 0
             r == PositionOf(p.isLong, c, p.sizeInEth - s, ConvertEthToUsd(p.sizeInEth - s, answer))
             rest == [r EXCEPT !.collateral = @ - lost]
  <2>1. positionMeta' = [positionMeta EXCEPT ![t] = rest] /\ s < p.sizeInEth
    BY <1>5 DEF ReducePosition, RemainingSizeInUsd
  <2>2. rest.sizeInEth = p.sizeInEth - s
        /\ rest.sizeInUsd = ConvertEthToUsd(p.sizeInEth - s, answer)
    BY DEF PositionOf
  <2> HIDE DEF rest
  <2>3. q = rest /\ OthersKept
    BY <1>2, <2>1
  <2>4. q.sizeInEth = p.sizeInEth - s /\ q.sizeInUsd = Value(q)
    BY <2>2, <2>3 DEF Value
  <2> QED  BY <2>1, <2>3, <2>4 DEF SizeChange
<1>6. ASSUME NEW c, positionMeta' = [positionMeta EXCEPT
               ![t] = PositionOf(p.isLong, c, p.sizeInEth, p.sizeInUsd)]
      PROVE  SizeChange(p, q) /\ OthersKept
  <2>1. q.sizeInEth = p.sizeInEth /\ q.sizeInUsd = p.sizeInUsd
    BY <1>6, RecordedSize
  <2>2. OthersKept
    BY <1>2, <1>6
  <2> QED  BY <2>1, <2>2 DEF SizeChange
<1>7. ASSUME NEW c \in Collaterals, UpdateCollateral(t, c)
      PROVE  SizeChange(p, q) /\ OthersKept
  BY <1>6, <1>7 DEF UpdateCollateral
<1>8. ASSUME NEW a \in Reductions, ReduceCollateral(t, a)
      PROVE  SizeChange(p, q) /\ OthersKept
  BY <1>6, <1>8 DEF ReduceCollateral
<1>9. ASSUME DeletePosition(t)
      PROVE  SizeChange(p, q) /\ OthersKept
  <2>1. q = NoPosition /\ OthersKept
    BY <1>2, <1>9 DEF DeletePosition
  <2> QED  BY <2>1 DEF SizeChange, NoPosition
<1> HIDE DEF p, q, OthersKept
<1>10. CASE \E caller \in Users : Liquidate(caller, t)
  <2>1. DeletePosition(t)
    BY <1>10 DEF Liquidate
  <2> QED  BY <1>9, <2>1 DEF p, q, OthersKept
<1>11. ASSUME ClosePosition(t)
       PROVE  SizeChange(p, q) /\ OthersKept
  <2>1. DeletePosition(t)
    BY <1>11 DEF ClosePosition
  <2> QED  BY <1>9, <2>1
<1>12. CASE TraderStep(t)
  <2>1. SizeChange(p, q) /\ OthersKept
    BY <1>3, <1>4, <1>5, <1>7, <1>8, <1>11, <1>12
       DEF TraderStep, DecreasePosition, DecreaseCollateral
  <2> QED  BY <2>1 DEF p, q, OthersKept
<1> QED  BY <1>10, <1>12

(* A size that is at most the position's value stays so.                   *)
LEMMA SizeChangeKeepsValue ==
  ASSUME TradeXInv, NEW p \in Position, NEW q \in Position, SizeChange(p, q),
         p.sizeInUsd <= Value(p)
  PROVE  q.sizeInUsd <= Value(q)
<1>1. /\ p.sizeInEth \in Nat /\ q.sizeInEth \in Nat /\ answer \in Int
      /\ p.sizeInUsd \in Nat /\ q.sizeInUsd \in Nat
  BY TradeXAssumption DEF Position, TradeXInv
<1>2. CASE q.sizeInEth = p.sizeInEth /\ q.sizeInUsd = p.sizeInUsd
  BY <1>2 DEF Value
<1>3. ASSUME NEW s \in Sizes, q.sizeInEth = p.sizeInEth + s,
             q.sizeInUsd = p.sizeInUsd + ConvertEthToUsd(s, answer)
      PROVE  q.sizeInUsd <= Value(q)
  <2>1. PICK m \in Nat : m = p.sizeInEth
    BY <1>1
  <2>2. s \in Nat
    BY TradeXAssumption
  <2>3. /\ ConvertEthToUsd(m, answer) \in Int /\ ConvertEthToUsd(s, answer) \in Int
        /\ ConvertEthToUsd(m + s, answer) \in Int
        /\ ConvertEthToUsd(m, answer) + ConvertEthToUsd(s, answer) <= ConvertEthToUsd(m + s, answer)
    BY <1>1, <2>2, ConvertParts
  <2>4. Value(p) = ConvertEthToUsd(m, answer) /\ Value(q) = ConvertEthToUsd(m + s, answer)
    BY <1>3, <2>1 DEF Value
  <2> QED  BY <1>1, <1>3, <2>3, <2>4
<1>4. CASE q.sizeInUsd = Value(q)
  BY <1>1, <1>4
<1>5. CASE q.sizeInEth = 0 /\ q.sizeInUsd = 0
  BY <1>1, <1>5, ConvertZero DEF Value
<1> QED  BY <1>2, <1>3, <1>4, <1>5 DEF SizeChange

(* With exact sizes a position stays marked.                               *)
LEMMA SizeChangeKeepsMarked ==
  ASSUME TradeXInv, \A s \in Sizes : ExactSize(s),
         NEW p \in Position, NEW q \in Position, SizeChange(p, q), Marked(p)
  PROVE  Marked(q)
<1>1. /\ p.sizeInEth \in Nat /\ q.sizeInEth \in Nat /\ answer \in Int
      /\ p.sizeInUsd \in Nat /\ q.sizeInUsd \in Nat
      /\ ExactSize(p.sizeInEth) /\ p.sizeInUsd = ConvertEthToUsd(p.sizeInEth, answer)
  BY TradeXAssumption DEF Position, TradeXInv, Marked, Value
<1>2. PICK m \in Nat : m = p.sizeInEth
  BY <1>1
<1>3. CASE q.sizeInEth = p.sizeInEth /\ q.sizeInUsd = p.sizeInUsd
  BY <1>1, <1>3 DEF Marked, Value
<1>4. ASSUME NEW s \in Sizes, q.sizeInEth = p.sizeInEth + s,
             q.sizeInUsd = p.sizeInUsd + ConvertEthToUsd(s, answer)
      PROVE  Marked(q)
  <2>1. s \in Nat /\ ExactSize(s) /\ ExactSize(m)
    BY <1>1, <1>2, TradeXAssumption
  <2>2. ExactSize(m + s)
        /\ ConvertEthToUsd(m + s, answer)
             = ConvertEthToUsd(m, answer) + ConvertEthToUsd(s, answer)
    BY <1>1, <2>1, ConvertExact
  <2> QED  BY <1>1, <1>2, <1>4, <2>2 DEF Marked, Value
<1>5. ASSUME NEW s \in Sizes, s < p.sizeInEth, q.sizeInEth = p.sizeInEth - s, q.sizeInUsd = Value(q)
      PROVE  Marked(q)
  <2>1. s \in Nat /\ ExactSize(s) /\ ExactSize(m) /\ s < m
    BY <1>1, <1>2, <1>5, TradeXAssumption
  <2>2. ExactSize(m - s)
    BY <2>1, ExactRest
  <2> QED  BY <1>2, <1>5, <2>2 DEF Marked
<1>6. CASE q.sizeInEth = 0 /\ q.sizeInUsd = 0
  <2>1. PRICEFEED_PRECISION * 0 = WAD * 0
    BY MathAssumption
  <2>2. ExactSize(0)
    BY <2>1 DEF ExactSize
  <2> QED  BY <1>1, <1>6, <2>2, ConvertZero DEF Marked, Value
<1> QED  BY <1>3, <1>4, <1>5, <1>6 DEF SizeChange

(* Open interest falls behind the position's value by one unit at most.    *)
LEMMA InterestFollowsValue ==
  ASSUME TradeXInv, NEW p \in Position, NEW q \in Position, SizeChange(p, q),
         Shaped(q), p.sizeInUsd <= Value(p)
  PROVE  Value(q) - Value(p) <= InterestChange(p, q) + 1
<1>1. /\ p.sizeInEth \in Nat /\ q.sizeInEth \in Nat /\ answer \in Int
      /\ p.sizeInUsd \in Nat /\ q.sizeInUsd \in Nat
  BY TradeXAssumption DEF Position, TradeXInv
<1>2. PICK m \in Nat, n \in Nat : m = p.sizeInEth /\ n = q.sizeInEth
  BY <1>1
<1>3. /\ Value(p) = ConvertEthToUsd(m, answer) /\ Value(q) = ConvertEthToUsd(n, answer)
      /\ Value(p) \in Int /\ Value(q) \in Int
  BY <1>1, <1>2, ConvertBounds DEF Value
<1>4. CASE IsOpen(q) /\ n <= m
  <2>1. PICK k \in Nat : k = m - n /\ m = n + k
    <3>1. m - n \in Nat /\ m = n + (m - n)
      BY <1>4
    <3> QED  BY <3>1
  <2>2. /\ ConvertEthToUsd(n, answer) + ConvertEthToUsd(k, answer) <= ConvertEthToUsd(n + k, answer)
        /\ ConvertEthToUsd(k, answer) \in Int
    BY <1>1, <2>1, ConvertParts
  <2>3. InterestChange(p, q) = -ConvertEthToUsd(k, answer)
    BY <1>2, <1>4, <2>1 DEF InterestChange
  <2> QED  BY <1>3, <2>1, <2>2, <2>3
<1>5. CASE ~(IsOpen(q) /\ n <= m)
  <2>1. InterestChange(p, q) = q.sizeInUsd - p.sizeInUsd
    BY <1>2, <1>5 DEF InterestChange
  <2>2. CASE n = m /\ q.sizeInUsd = p.sizeInUsd
    BY <1>1, <1>3, <2>1, <2>2
  <2>3. ASSUME NEW s \in Sizes, n = m + s,
               q.sizeInUsd = p.sizeInUsd + ConvertEthToUsd(s, answer)
        PROVE  Value(q) - Value(p) <= InterestChange(p, q) + 1
    <3>1. s \in Nat
      BY TradeXAssumption
    <3>2. /\ ConvertEthToUsd(m + s, answer) <= ConvertEthToUsd(m, answer) + ConvertEthToUsd(s, answer) + 1
          /\ ConvertEthToUsd(s, answer) \in Int
      BY <1>1, <3>1, ConvertParts
    <3> QED  BY <1>1, <1>3, <2>1, <2>3, <3>2
  <2>4. ASSUME NEW s \in Sizes, s < m, n = m - s
        PROVE  Value(q) - Value(p) <= InterestChange(p, q) + 1
    <3>1. ~IsOpen(q)
      BY <1>5, <2>4, TradeXAssumption
    <3>2. q.sizeInEth = 0 /\ q.sizeInUsd = 0
      BY <3>1 DEF Shaped, NoPosition
    <3>3. Value(q) = 0
      BY <1>1, <3>2, ConvertZero DEF Value
    <3> QED  BY <1>1, <1>3, <2>1, <3>2, <3>3
  <2>5. CASE n = 0 /\ q.sizeInUsd = 0
    <3>1. Value(q) = 0
      BY <1>1, <1>3, <2>5, ConvertZero
    <3> QED  BY <1>1, <1>3, <2>1, <2>5, <3>1
  <2> QED  BY <1>2, <2>2, <2>3, <2>4, <2>5 DEF SizeChange
<1> QED  BY <1>4, <1>5

(* With exact sizes open interest follows the recorded size.               *)
LEMMA InterestFollowsSize ==
  ASSUME TradeXInv, NEW p \in Position, NEW q \in Position, SizeChange(p, q),
         \A s \in Sizes : ExactSize(s), Marked(p), Marked(q)
  PROVE  InterestChange(p, q) = q.sizeInUsd - p.sizeInUsd
<1>1. /\ p.sizeInEth \in Nat /\ q.sizeInEth \in Nat /\ answer \in Int
      /\ p.sizeInUsd \in Nat /\ q.sizeInUsd \in Nat
  BY TradeXAssumption DEF Position, TradeXInv
<1>2. PICK m \in Nat, n \in Nat : m = p.sizeInEth /\ n = q.sizeInEth
  BY <1>1
<1>3. /\ p.sizeInUsd = ConvertEthToUsd(m, answer) /\ q.sizeInUsd = ConvertEthToUsd(n, answer)
      /\ ExactSize(m) /\ ExactSize(n)
  BY <1>2 DEF Marked, Value
<1>4. CASE IsOpen(q) /\ n < m
  <2>1. PICK k \in Nat : k = m - n /\ m = n + k
    <3>1. m - n \in Nat /\ m = n + (m - n)
      BY <1>4
    <3> QED  BY <3>1
  <2>2. ExactSize(k)
    BY <1>3, <1>4, <2>1, ExactRest
  <2>3. ConvertEthToUsd(m, answer) = ConvertEthToUsd(n, answer) + ConvertEthToUsd(k, answer)
    BY <1>1, <1>3, <2>1, <2>2, ConvertExact
  <2>4. ConvertEthToUsd(k, answer) \in Int
    BY <1>1, ConvertBounds
  <2>5. InterestChange(p, q) = -ConvertEthToUsd(k, answer)
    BY <1>2, <1>4, <2>1 DEF InterestChange
  <2> QED  BY <1>1, <1>3, <2>3, <2>4, <2>5
<1>5. CASE IsOpen(q) /\ n = m
  <2>1. InterestChange(p, q) = -ConvertEthToUsd(0, answer)
    BY <1>1, <1>2, <1>5 DEF InterestChange
  <2>2. InterestChange(p, q) = 0
    BY <1>1, <2>1, ConvertZero
  <2> QED  BY <1>1, <1>3, <1>5, <2>2
<1>6. CASE ~(IsOpen(q) /\ n <= m)
  BY <1>2, <1>6 DEF InterestChange
<1> QED  BY <1>4, <1>5, <1>6

-----------------------------------------------------------------------------
(* The invariants                                                          *)

(* A step of a trader or a liquidator: who acts, and what it does to the   *)
(* sums.                                                                   *)
LEMMA HandlerStep ==
  ASSUME AtFixedPrice, (\E t \in Traders : TraderStep(t)) \/ LiquidationStep
  PROVE  \E t \in Traders, q \in Position :
           /\ TradeEffect(t, q)
           /\ SizeChange(positionMeta[t], q)
           /\ q.sizeInUsd <= Value(q)
           /\ AtFixedPrice'
           /\ Total(SizeOf)' = Total(SizeOf) - positionMeta[t].sizeInUsd + q.sizeInUsd
           /\ Total(ValueOf)' = Total(ValueOf) - Value(positionMeta[t]) + Value(q)
<1>1. TradeXInv
  BY DEF AtFixedPrice
<1>2. PICK u \in Traders, q \in Position : TradeEffect(u, q)
  BY <1>1, HandlerEffect DEF TradeStep
<1>3. /\ positionMeta \in [Traders -> Position]
      /\ positionMeta' = [positionMeta EXCEPT ![u] = q]
      /\ positionMeta'[u] = q
      /\ \A x \in Traders : x # u => positionMeta'[x] = positionMeta[x]
      /\ answer' = answer
  BY <1>1, <1>2 DEF TradeXInv, TradeEffect
<1>4. SizeChange(positionMeta[u], q)
  <2>1. PICK t \in Traders : TraderStep(t) \/ \E caller \in Users : Liquidate(caller, t)
    BY DEF LiquidationStep
  <2>2. /\ SizeChange(positionMeta[t], positionMeta'[t])
        /\ \A x \in Traders : x # t => positionMeta'[x] = positionMeta[x]
    BY <1>1, <2>1, HandlerSize
  <2>3. CASE t = u
    BY <1>3, <2>2, <2>3
  <2>4. CASE t # u
    BY <1>3, <2>2, <2>4 DEF SizeChange
  <2> QED  BY <2>3, <2>4
<1>5. positionMeta[u] \in Position /\ positionMeta[u].sizeInUsd <= Value(positionMeta[u])
  BY <1>3 DEF AtFixedPrice
<1>6. q.sizeInUsd <= Value(q)
  BY <1>1, <1>4, <1>5, SizeChangeKeepsValue
<1>7. \A p \in Position : (Value(p) \in Int) /\ p.sizeInUsd \in Nat /\ (Value(p))' = Value(p)
  <2> TAKE p \in Position
  <2>1. p.sizeInEth \in Nat /\ p.sizeInUsd \in Nat /\ answer \in Int
    BY <1>1, TradeXAssumption DEF Position, TradeXInv
  <2> QED  BY <1>3, <2>1, ConvertBounds DEF Value
<1>8. /\ positionMeta[u].sizeInUsd \in Nat /\ q.sizeInUsd \in Nat
      /\ Value(positionMeta[u]) \in Nat /\ Value(q) \in Nat
  BY <1>5, <1>6, <1>7
<1>9. TradeXInv'
  BY <1>1, <1>2, TradeStepInv DEF TradeStep
<1>10. (\A t \in Traders : positionMeta[t].sizeInUsd <= Value(positionMeta[t]))'
  <2> SUFFICES ASSUME NEW t \in Traders
               PROVE  positionMeta'[t].sizeInUsd <= Value(positionMeta[t])'
    OBVIOUS
  <2>1. Value(positionMeta[t])' = ConvertEthToUsd(positionMeta'[t].sizeInEth, answer)
    BY <1>3 DEF Value
  <2>2. CASE t = u
    BY <1>3, <1>6, <2>1, <2>2 DEF Value
  <2>3. CASE t # u
    BY <1>3, <2>1, <2>3 DEF Value, AtFixedPrice
  <2> QED  BY <2>2, <2>3
<1>11. /\ IsFiniteSet(Units(SizeOf))'
       /\ Total(SizeOf)' = Total(SizeOf) - positionMeta[u].sizeInUsd + q.sizeInUsd
  <2> DEFINE f == SizeOf
             g == SizeOf'
  <2>1. /\ DOMAIN f = Traders /\ DOMAIN g = Traders
        /\ f[u] = positionMeta[u].sizeInUsd /\ g[u] = q.sizeInUsd
        /\ \A x \in Traders : x # u => g[x] = f[x]
    BY <1>3 DEF SizeOf
  <2>2. IsFiniteSet(Units(f))
    BY DEF AtFixedPrice
  <2> HIDE DEF f, g
  <2>3. /\ IsFiniteSet(Units(g))
        /\ Total(g) = Total(f) - f[u] + g[u]
    BY <1>8, <2>1, <2>2, TotalUpdate
  <2> QED  BY <2>1, <2>3 DEF f, g
<1>12. /\ IsFiniteSet(Units(ValueOf))'
       /\ Total(ValueOf)' = Total(ValueOf) - Value(positionMeta[u]) + Value(q)
  <2> DEFINE f == ValueOf
             g == ValueOf'
  <2>1. /\ DOMAIN f = Traders /\ DOMAIN g = Traders
        /\ f[u] = Value(positionMeta[u]) /\ g[u] = Value(q)
        /\ \A x \in Traders : x # u => g[x] = f[x]
    BY <1>3 DEF ValueOf, Value
  <2>2. IsFiniteSet(Units(f))
    BY DEF AtFixedPrice
  <2> HIDE DEF f, g
  <2>3. /\ IsFiniteSet(Units(g))
        /\ Total(g) = Total(f) - f[u] + g[u]
    BY <1>8, <2>1, <2>2, TotalUpdate
  <2> QED  BY <2>1, <2>3 DEF f, g
<1>13. AtFixedPrice'
  BY <1>9, <1>10, <1>11, <1>12 DEF AtFixedPrice
<1> QED  BY <1>2, <1>4, <1>6, <1>11, <1>12, <1>13

(* What leaves positions, open interest and price alone.                   *)
LEMMA UntouchedSizes ==
  ASSUME AtFixedPrice, TradeXInv', UNCHANGED <<positionMeta, s_openInterest, answer>>
  PROVE  AtFixedPrice' /\ Shortfall' = Shortfall /\ (FixedPriceInv => FixedPriceInv')
<1>1. SizeOf' = SizeOf /\ ValueOf' = ValueOf
  BY DEF SizeOf, ValueOf, Value
<1>2. AtFixedPrice' /\ Shortfall' = Shortfall
  BY <1>1 DEF AtFixedPrice, Shortfall, Value
<1> QED  BY <1>2 DEF FixedPriceInv, Marked, Value, OpenInterestExact

(* The steps of the system while the price stands.                         *)
LEMMA FixedPriceSteps ==
  ASSUME AtFixedPrice, [Next]_vars, [FALSE]_answer
  PROVE  \/ (\E t \in Traders : TraderStep(t)) \/ LiquidationStep
         \/ TradeXInv' /\ UNCHANGED <<positionMeta, s_openInterest, answer>>
<1>1. TradeXInv /\ TradeXInv' /\ answer' = answer
  BY NextInv DEF AtFixedPrice
<1>2. CASE OracleUpdate \/ UNCHANGED vars
  BY <1>1, <1>2 DEF OracleUpdate, vars, pVars
<1>3. CASE PoolStep
  <2>1. s_openInterest' = s_openInterest
    BY <1>1, <1>3, PoolStepKeepsTradeX DEF PoolStep, TradeXInv, PoolInv
  <2> QED  BY <1>1, <1>3, <2>1 DEF PoolStep
<1> QED  BY <1>2, <1>3 DEF Next

(* Nobody has a position when the contracts are deployed.                  *)
LEMMA InitExact ==
  ASSUME Init
  PROVE  AtFixedPrice /\ FixedPriceInv
<1>1. TradeXInv
  BY InitInv
<1>2. \A t \in Traders : positionMeta[t] = NoPosition
  BY DEF Init
<1>3. answer \in Int
  BY TradeXAssumption DEF Init
<1>4. NoPosition.sizeInEth = 0 /\ NoPosition.sizeInUsd = 0 /\ Value(NoPosition) = 0
  BY <1>3, ConvertZero DEF Value, NoPosition
<1>5. \A t \in DOMAIN SizeOf : SizeOf[t] = 0
  BY <1>2, <1>4 DEF SizeOf
<1>6. \A t \in DOMAIN ValueOf : ValueOf[t] = 0
  BY <1>2, <1>4 DEF ValueOf
<1>7. /\ IsFiniteSet(Units(SizeOf)) /\ Total(SizeOf) = 0
      /\ IsFiniteSet(Units(ValueOf))
  BY <1>5, <1>6, TotalZero
<1>8. s_openInterest = 0
  BY DEF Init, PoolInit
<1>9. AtFixedPrice
  BY <1>1, <1>2, <1>4, <1>7 DEF AtFixedPrice
<1>10. ExactSize(0)
  <2>1. PRICEFEED_PRECISION * 0 = WAD * 0
    BY MathAssumption
  <2> QED  BY <2>1 DEF ExactSize
<1>11. \A t \in Traders : Marked(positionMeta[t])
  BY <1>2, <1>4, <1>10 DEF Marked
<1> QED  BY <1>7, <1>8, <1>9, <1>11 DEF FixedPriceInv, OpenInterestExact, SizeOf

(* With exact sizes the sum of the recorded sizes is kept.                 *)
LEMMA NextKeepsExact ==
  ASSUME \A s \in Sizes : ExactSize(s), FixedPriceInv, [Next]_vars, [FALSE]_answer
  PROVE  FixedPriceInv'
<1>1. AtFixedPrice /\ TradeXInv
  BY DEF FixedPriceInv, AtFixedPrice
<1>2. CASE (\E t \in Traders : TraderStep(t)) \/ LiquidationStep
  <2>1. PICK t \in Traders, q \in Position :
          /\ TradeEffect(t, q)
          /\ SizeChange(positionMeta[t], q)
          /\ AtFixedPrice'
          /\ Total(SizeOf)' = Total(SizeOf) - positionMeta[t].sizeInUsd + q.sizeInUsd
    BY <1>1, <1>2, HandlerStep
  <2>2. /\ positionMeta \in [Traders -> Position]
        /\ positionMeta[t] \in Position /\ Marked(positionMeta[t])
        /\ positionMeta' = [positionMeta EXCEPT ![t] = q]
        /\ answer' = answer
        /\ s_openInterest' - s_openInterest = InterestChange(positionMeta[t], q)
        /\ s_openInterest \in Nat /\ s_openInterest' \in Nat
    BY <1>1, <2>1, InvFacts DEF TradeXInv, TradeEffect, FixedPriceInv
  <2>3. Marked(q)
    BY <1>1, <2>1, <2>2, SizeChangeKeepsMarked
  <2>4. InterestChange(positionMeta[t], q) = q.sizeInUsd - positionMeta[t].sizeInUsd
    BY <1>1, <2>1, <2>2, <2>3, InterestFollowsSize
  <2>5. s_openInterest = Total(SizeOf)
    BY DEF FixedPriceInv, OpenInterestExact, SizeOf
  <2>6. positionMeta[t].sizeInUsd \in Nat /\ q.sizeInUsd \in Nat
    BY <2>2 DEF Position
  <2>7. s_openInterest' = Total(SizeOf)'
    BY <2>1, <2>2, <2>4, <2>5, <2>6
  <2>8. OpenInterestExact'
    BY <2>7 DEF OpenInterestExact, SizeOf
  <2>9. (\A x \in Traders : Marked(positionMeta[x]))'
    BY <2>2, <2>3 DEF Marked, Value, FixedPriceInv
  <2> QED  BY <2>1, <2>8, <2>9 DEF FixedPriceInv
<1>3. CASE TradeXInv' /\ UNCHANGED <<positionMeta, s_openInterest, answer>>
  BY <1>1, <1>3, UntouchedSizes
<1> QED  BY <1>1, <1>2, <1>3, FixedPriceSteps

(* At any scale a step costs open interest one unit at most.               *)
LEMMA NextKeepsDrift ==
  ASSUME AtFixedPrice, [Next]_vars, [FALSE]_answer
  PROVE  AtFixedPrice' /\ Shortfall' <= Shortfall + 1
<1>1. TradeXInv /\ s_openInterest \in Nat /\ Total(ValueOf) \in Nat
  BY FS_CardinalityType DEF AtFixedPrice, TradeXInv, PoolInv, PoolTypeOK, Total
<1>2. CASE (\E t \in Traders : TraderStep(t)) \/ LiquidationStep
  <2>1. PICK t \in Traders, q \in Position :
          /\ TradeEffect(t, q)
          /\ SizeChange(positionMeta[t], q)
          /\ q.sizeInUsd <= Value(q)
          /\ AtFixedPrice'
          /\ Total(ValueOf)' = Total(ValueOf) - Value(positionMeta[t]) + Value(q)
    BY <1>2, HandlerStep
  <2>2. /\ positionMeta[t] \in Position
        /\ positionMeta[t].sizeInUsd <= Value(positionMeta[t])
        /\ Shaped(q)
        /\ s_openInterest' - s_openInterest = InterestChange(positionMeta[t], q)
        /\ s_openInterest' \in Nat
    BY <1>1, <2>1, InvFacts DEF TradeEffect, AtFixedPrice
  <2>3. Value(q) - Value(positionMeta[t]) <= InterestChange(positionMeta[t], q) + 1
    BY <1>1, <2>1, <2>2, InterestFollowsValue
  <2>4. Value(q) \in Int /\ Value(positionMeta[t]) \in Int
    <3>1. q.sizeInEth \in Nat /\ positionMeta[t].sizeInEth \in Nat /\ answer \in Int
      BY <1>1, <2>2, InvFacts DEF Position
    <3> QED  BY <3>1, ConvertBounds DEF Value
  <2>5. Total(ValueOf)' - s_openInterest' <= Total(ValueOf) - s_openInterest + 1
    BY <1>1, <2>1, <2>2, <2>3, <2>4
  <2> QED  BY <2>1, <2>5 DEF Shortfall
<1>3. CASE TradeXInv' /\ UNCHANGED <<positionMeta, s_openInterest, answer>>
  <2>1. Shortfall \in Int
    BY <1>1 DEF Shortfall
  <2> QED  BY <1>3, <2>1, UntouchedSizes
<1> QED  BY <1>2, <1>3, FixedPriceSteps

(* The invariant of the standing price, for exact sizes.                   *)
LEMMA FixedPriceInvariant ==
  ASSUME ExactSizes
  PROVE  Spec /\ PriceStands => []FixedPriceInv
<1>1. Init => FixedPriceInv
  BY InitExact
<1>2. \A s \in Sizes : ExactSize(s)
  BY DEF ExactSizes, ExactSize
<1>3. FixedPriceInv /\ [Next]_vars /\ [FALSE]_answer => FixedPriceInv'
  BY <1>2, NextKeepsExact
<1> QED  BY <1>1, <1>3, PTL DEF Spec, PriceStands

(* While the price stands and every size converts without a remainder, as  *)
(* multiples of 1e8 wei do, open interest is the sum of the recorded sizes,*)
(* for any number of traders: no close and no liquidation can revert on    *)
(* s_openInterest -= sizeInUsd.                                            *)
THEOREM TradeXOpenInterestExact ==
  ASSUME ExactSizes
  PROVE  Spec /\ PriceStands => []OpenInterestExact
<1>1. FixedPriceInv => OpenInterestExact
  BY DEF FixedPriceInv
<1> QED  BY <1>1, FixedPriceInvariant, PTL

(* While the price stands, at any scale and for any sizes: no recorded size*)
(* exceeds its position's value, and one call takes open interest at most  *)
(* one unit further below the sum of these values, so after k calls a close*)
(* or a liquidation can lack no more than k units of open interest.        *)
THEOREM TradeXOpenInterestDrift ==
  Spec /\ PriceStands =>
    /\ [](\A t \in Traders : positionMeta[t].sizeInUsd <= ValueOf[t])
    /\ [][Shortfall' <= Shortfall + 1]_vars
<1>1. Init => AtFixedPrice
  BY InitExact
<1>2. AtFixedPrice /\ [Next]_vars /\ [FALSE]_answer
        => AtFixedPrice' /\ [Shortfall' <= Shortfall + 1]_vars
  BY NextKeepsDrift
<1>3. AtFixedPrice => \A t \in Traders : positionMeta[t].sizeInUsd <= ValueOf[t]
  BY DEF AtFixedPrice, ValueOf
<1> QED  BY <1>1, <1>2, <1>3, PTL DEF Spec, PriceStands

-----------------------------------------------------------------------------
(* When liquidate() goes through                                           *)

\* What liquidate() needs besides an over-leveraged position: its two
\* transfers succeed and open interest covers the position.
LiquidationGoesThrough(t) ==
  LET p == positionMeta[t]
      reward == p.collateral \div liquidator_fee
      rest == p.collateral - reward
  IN  /\ SelfSpendOk(reward)
      /\ SelfSpendOk(rest)
      /\ CanMove(TradeXContract, p.collateral)
      /\ s_openInterest >= p.sizeInUsd

(* TradeX always has the DAI that a liquidation or a close at no loss      *)
(* sends: no trader's collateral exceeds what TradeX holds.                *)
LEMMA CollateralAtHand ==
  ASSUME TradeXInv, NEW t \in Traders
  PROVE  CanMove(TradeXContract, positionMeta[t].collateral)
<1>1. /\ t \in DOMAIN CollateralOf
      /\ CollateralOf[t] = positionMeta[t].collateral
      /\ CollateralOf[t] \in Nat /\ dai[TradeXContract] \in Nat
  BY InvFacts DEF CollateralOf
<1>2. IsFiniteSet(Units(CollateralOf)) /\ Total(CollateralOf) <= dai[TradeXContract]
  BY DEF TradeXInv, CollateralBacked, TotalCollateral, CollateralOf
<1>3. CollateralOf[t] <= Total(CollateralOf) /\ Total(CollateralOf) \in Nat
  BY <1>1, <1>2, TotalBoundsEach
<1> QED  BY <1>1, <1>2, <1>3 DEF CanMove

(* While the price stands, sizes are exact and the token lets TradeX spend *)
(* its own DAI, no condition but the leverage can make liquidate() revert: *)
(* neither its transfers nor s_openInterest -= sizeInUsd.  This is why     *)
(* over-leverage is cleared as soon as somebody calls.                     *)
THEOREM TradeXLiquidationGoesThrough ==
  ASSUME ExactSizes, ~SelfSpendNeedsAllowance
  PROVE  Spec /\ PriceStands => [](\A t \in Traders : LiquidationGoesThrough(t))
<1>1. FixedPriceInv => \A t \in Traders : LiquidationGoesThrough(t)
  <2> SUFFICES ASSUME FixedPriceInv, NEW t \in Traders
               PROVE  LiquidationGoesThrough(t)
    OBVIOUS
  <2>1. TradeXInv
    BY DEF FixedPriceInv, AtFixedPrice
  <2>2. t \in DOMAIN SizeOf /\ SizeOf[t] = positionMeta[t].sizeInUsd /\ SizeOf[t] \in Nat
    BY <2>1, InvFacts DEF SizeOf
  <2>3. IsFiniteSet(Units(SizeOf)) /\ s_openInterest = Total(SizeOf)
    BY DEF FixedPriceInv, AtFixedPrice, OpenInterestExact, SizeOf
  <2>4. SizeOf[t] <= Total(SizeOf)
    BY <2>2, <2>3, TotalBoundsEach
  <2>5. s_openInterest >= positionMeta[t].sizeInUsd
    BY <2>2, <2>3, <2>4
  <2>6. CanMove(TradeXContract, positionMeta[t].collateral)
    BY <2>1, CollateralAtHand
  <2> QED  BY <2>5, <2>6 DEF LiquidationGoesThrough, SelfSpendOk
<1> QED  BY <1>1, FixedPriceInvariant, PTL

(* With a token that checks the allowance of the spender, as OpenZeppelin's*)
(* does, nobody is ever liquidated: TradeX never approves itself.          *)
THEOREM TradeXNeverLiquidates ==
  ASSUME SelfSpendNeedsAllowance
  PROVE  Spec => [][~LiquidationStep]_vars
<1>1. TradeXInv /\ [Next]_vars => [~LiquidationStep]_vars
  <2> SUFFICES ASSUME TradeXInv, LiquidationStep
               PROVE  FALSE
    OBVIOUS
  <2>1. PICK caller \in Users, t \in Traders : Liquidate(caller, t)
    BY DEF LiquidationStep
  <2> DEFINE c == positionMeta[t].collateral
  <2>2. c \in Nat /\ c > 0
    BY <2>1, InvFacts DEF Liquidate, OverLeveraged, LeverageOk
  <2>3. c - (c \div liquidator_fee) = 0
    BY <2>1 DEF Liquidate, SelfSpendOk
  <2> HIDE DEF c
  <2> QED  BY <2>2, <2>3 DEF liquidator_fee
<1> QED  BY <1>1, TradeXInvariant, PTL DEF Spec
=============================================================================
