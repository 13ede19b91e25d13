------------------------- MODULE PoolUpgrade_proofs -------------------------
(***************************************************************************)
(* Proofs about PoolUpgrade, for any users, amounts and prices and any     *)
(* number of replacements.  What TradeX_proofs shows of one contract is    *)
(* taken over for each of the two: OldP and NewP are its instances, with   *)
(* the substitutions of Old and New.  The invariant is that of TradeX for  *)
(* both at once; what has to be added is that neither contract's handlers, *)
(* nor the providers, touch the DAI of the other contract.                 *)
(*                                                                         *)
(* Old and OldP are instances of different modules, so the prover sees two *)
(* sets of definitions; lemmas named ...Is show that they are the same, by *)
(* expanding both.                                                         *)
(***************************************************************************)
EXTENDS PoolUpgrade, TLAPS

OldP == INSTANCE TradeX_proofs WITH
  TradeXContract <- OldTradeX, tradeX <- AskedFor(OldTradeX),
  positionMeta <- oldMeta, s_openInterest <- oldInterest,
  Others <- {NewTradeX}, Payees <- {}, OpenInterests <- {}

NewP == INSTANCE TradeX_proofs WITH
  TradeXContract <- NewTradeX, tradeX <- AskedFor(NewTradeX),
  positionMeta <- newMeta, s_openInterest <- newInterest,
  Others <- {OldTradeX}, Payees <- {}, OpenInterests <- {}

UpgradeInv ==
  /\ tradeX \in {NoTradeX, OldTradeX, NewTradeX}
  /\ OldP!TradeXInv
  /\ NewP!TradeXInv

(* The assumptions of TradeX hold of the earlier contract.                 *)
LEMMA OldAssumptions ==
  /\ OldP!LedgerAssumption /\ OldP!MathAssumption
  /\ OldP!PoolAssumption /\ OldP!TradeXAssumption
BY UpgradeAssumption
   DEF OldP!LedgerAssumption, OldP!MathAssumption, OldP!PoolAssumption, OldP!TradeXAssumption

(* And of the later one.                                                   *)
LEMMA NewAssumptions ==
  /\ NewP!LedgerAssumption /\ NewP!MathAssumption
  /\ NewP!PoolAssumption /\ NewP!TradeXAssumption
BY UpgradeAssumption
   DEF NewP!LedgerAssumption, NewP!MathAssumption, NewP!PoolAssumption, NewP!TradeXAssumption

(* All compute one limit.                                                  *)
LEMMA SameLimit ==
  ASSUME NEW l
  PROVE  /\ Old!MaxUtilization(l) = OldP!MaxUtilization(l)
         /\ Old!MaxUtilization(l) = NewP!MaxUtilization(l)
BY DEF Old!MaxUtilization, OldP!MaxUtilization, NewP!MaxUtilization

(* Open interest that stands still stays within the limit unless the book  *)
(* falls.                                                                  *)
LEMMA StillWithin ==
  ASSUME NEW interest \in Nat, s_totalLiquidity \in Nat, s_totalLiquidity' \in Nat,
         interest <= Old!MaxUtilization(s_totalLiquidity),
         ~(interest <= Old!MaxUtilization(s_totalLiquidity'))
  PROVE  s_totalLiquidity' < s_totalLiquidity
<1> SUFFICES ASSUME s_totalLiquidity <= s_totalLiquidity'
             PROVE  FALSE
  OBVIOUS
<1>1. OldP!MaxUtilization(s_totalLiquidity) <= OldP!MaxUtilization(s_totalLiquidity')
  BY OldAssumptions, OldP!MaxUtilizationGrows
<1>2. /\ OldP!MaxUtilization(s_totalLiquidity) \in Nat
      /\ OldP!MaxUtilization(s_totalLiquidity') \in Nat
  BY OldAssumptions, OldP!MaxUtilizationBound
<1> QED  BY <1>1, <1>2, SameLimit

-----------------------------------------------------------------------------
(* The steps of OldTradeX                                                  *)

(* The handlers of OldTradeX are those the lemmas of OldP speak of.        *)
LEMMA OldTraderStepIs ==
  ASSUME NEW t \in Traders, Old!TraderStep(t)
  PROVE  OldP!TraderStep(t)
BY DEF Old!TraderStep, OldP!TraderStep, Old!Long, OldP!Long, Old!Short,
       OldP!Short, Old!OpenPosition, OldP!OpenPosition,
       Old!IncreasePosition, OldP!IncreasePosition, Old!DecreasePosition,
       OldP!DecreasePosition, Old!UpdateCollateral, OldP!UpdateCollateral,
       Old!DecreaseCollateral, OldP!DecreaseCollateral, Old!ClosePosition,
       OldP!ClosePosition, Old!ConvertEthToUsd, OldP!ConvertEthToUsd,
       Old!PositionFee, OldP!PositionFee, Old!IsOpen, OldP!IsOpen,
       Old!FeedOk, OldP!FeedOk, Old!LeverageOk, OldP!LeverageOk,
       Old!Leverage, OldP!Leverage, Old!UtilizationOk, OldP!UtilizationOk,
       Old!CanMove, OldP!CanMove, Old!ExitPriceOk, OldP!ExitPriceOk,
       Old!Moved, OldP!Moved, Old!PositionOf, OldP!PositionOf, Old!poolVars,
       OldP!poolVars, Old!WithinMaxLeverage, OldP!WithinMaxLeverage,
       Old!ReducePosition, OldP!ReducePosition, Old!ReduceCollateral,
       OldP!ReduceCollateral, Old!UserPnL, OldP!UserPnL, Old!TransferOutOk,
       OldP!TransferOutOk, Old!PoolPays, OldP!PoolPays, Old!DeletePosition,
       OldP!DeletePosition, Old!EthInUsd, OldP!EthInUsd, Old!Neither,
       OldP!Neither, Old!MaxUtilization, OldP!MaxUtilization,
       Old!LossBudget, OldP!LossBudget, Old!ExitPrice, OldP!ExitPrice,
       Old!RemainingSizeInUsd, OldP!RemainingSizeInUsd,
       Old!PoolUtilizationOk, OldP!PoolUtilizationOk, Old!NoPosition,
       OldP!NoPosition, Old!Maintenance, OldP!Maintenance

(* So are its liquidations.                                                *)
LEMMA OldLiquidationStepIs ==
  ASSUME Old!LiquidationStep
  PROVE  OldP!LiquidationStep
BY DEF Old!LiquidationStep, OldP!LiquidationStep, Old!Liquidate,
       OldP!Liquidate, Old!liquidator_fee, OldP!liquidator_fee,
       Old!OverLeveraged, OldP!OverLeveraged, Old!SelfSpendOk,
       OldP!SelfSpendOk, Old!CanMove, OldP!CanMove, Old!Moved, OldP!Moved,
       Old!DeletePosition, OldP!DeletePosition, Old!poolVars, OldP!poolVars,
       Old!LeverageOk, OldP!LeverageOk, Old!Leverage, OldP!Leverage,
       Old!NoPosition, OldP!NoPosition, Old!Neither, OldP!Neither

(* Nor does a provider's step differ.                                      *)
LEMMA OldProviderStepIs ==
  ASSUME Old!ProviderStep
  PROVE  OldP!ProviderStep
BY DEF Old!ProviderStep, OldP!ProviderStep, Old!Deposit, OldP!Deposit,
       Old!Mint, OldP!Mint, Old!Withdraw, OldP!Withdraw, Old!Redeem,
       OldP!Redeem, Old!ShareTransfer, OldP!ShareTransfer,
       Old!DepositAndMint, OldP!DepositAndMint, Old!SharesDown,
       OldP!SharesDown, Old!AssetsUp, OldP!AssetsUp, Old!PoolUtilizationOk,
       OldP!PoolUtilizationOk, Old!AssetsDown, OldP!AssetsDown,
       Old!BurnAndWithdraw, OldP!BurnAndWithdraw, Old!SharesUp,
       OldP!SharesUp, Old!Moved, OldP!Moved, Old!CanMove, OldP!CanMove,
       Old!TotalAssets, OldP!TotalAssets, Old!CeilDiv, OldP!CeilDiv,
       Old!MaxUtilization, OldP!MaxUtilization

(* What is sound as the pool of OldTradeX is sound as that of NewTradeX, in*)
(* the state a step leads to.                                              *)
LEMMA PoolOfNew ==
  ASSUME OldP!PoolInv', newInterest' \in Nat
  PROVE  NewP!PoolInv'
<1>1. AskedFor(NewTradeX)' \in {NoTradeX, NewTradeX}
  BY DEF AskedFor
<1>2. /\ dai' \in [OldP!Accounts -> Nat]
      /\ shares' \in [Users -> Nat] /\ totalSupply' \in Nat /\ s_totalLiquidity' \in Nat
  BY DEF OldP!PoolInv, OldP!PoolTypeOK, OldP!LedgerTypeOK
<1>3. OldP!Accounts = NewP!Accounts
  BY DEF OldP!Accounts, NewP!Accounts
<1>4. NewP!PoolTypeOK'
  BY <1>1, <1>2, <1>3 DEF NewP!PoolTypeOK, NewP!LedgerTypeOK
<1>5. OldP!Units(shares') = NewP!Units(shares') /\ OldP!Total(shares') = NewP!Total(shares')
  <2>1. \A x, m : OldP!UnitsOf(x, m) = NewP!UnitsOf(x, m)
    BY DEF OldP!UnitsOf, NewP!UnitsOf
  <2>2. OldP!Units(shares') = NewP!Units(shares')
    BY <2>1 DEF OldP!Units, NewP!Units
  <2> QED
    BY <2>2 DEF OldP!Total, NewP!Total, OldP!Cardinality, NewP!Cardinality
<1>6. OldP!IsFiniteSet(OldP!Units(shares')) /\ OldP!Total(shares') = totalSupply'
  BY DEF OldP!PoolInv, OldP!SupplyIsSumOfShares
<1>7. NewP!IsFiniteSet(OldP!Units(shares'))
  BY <1>6 DEF OldP!IsFiniteSet, NewP!IsFiniteSet
<1> QED
  BY <1>4, <1>5, <1>6, <1>7 DEF NewP!PoolInv, NewP!SupplyIsSumOfShares

(* A step of OldTradeX keeps its own invariant and that of NewTradeX, whose*)
(* DAI it does not touch.                                                  *)
LEMMA OldStepInv ==
  ASSUME UpgradeInv, OldStep
  PROVE  UpgradeInv'
<1>1. OldP!TradeXInv /\ NewP!TradeXInv
  BY DEF UpgradeInv
<1>2. (\E t \in Traders : OldP!TraderStep(t)) \/ OldP!LiquidationStep
  BY OldTraderStepIs, OldLiquidationStepIs DEF OldStep
<1>3. OldP!TradeStep
  BY <1>1, <1>2, OldAssumptions, OldP!HandlerEffect
<1>4. OldP!TradeXInv'
  BY <1>1, <1>3, OldAssumptions, OldP!TradeStepInv
<1>5. dai'[NewTradeX] = dai[NewTradeX]
  <2>1. /\ NewTradeX \in OldP!Accounts /\ NewTradeX \notin Users
        /\ NewTradeX # OldTradeX /\ NewTradeX # PoolContract
        /\ Traders \subseteq Users
    BY UpgradeAssumption DEF OldP!Accounts
  <2>2. CASE OldP!LiquidationStep
    BY <1>1, <2>1, <2>2, OldAssumptions, OldP!LiquidationStepMoves
  <2>3. ASSUME NEW t \in Traders, OldP!TraderStep(t)
        PROVE  dai'[NewTradeX] = dai[NewTradeX]
    <3>1. NewTradeX # t
      BY <2>1
    <3> QED  BY <1>1, <2>1, <2>3, <3>1, OldAssumptions, OldP!TraderStepMoves
  <2> QED  BY <1>2, <2>2, <2>3
<1>6. UNCHANGED <<tradeX, newMeta, newInterest>>
  BY DEF OldStep, newVars
<1>7. NewP!PoolInv'
  <2>1. newInterest' \in Nat
    BY <1>1, <1>6 DEF NewP!TradeXInv, NewP!PoolInv, NewP!PoolTypeOK
  <2>2. OldP!PoolInv'
    BY <1>4 DEF OldP!TradeXInv
  <2> QED  BY <2>1, <2>2, PoolOfNew
<1>8. answer' \in Answers
  BY <1>4 DEF OldP!TradeXInv
<1>9. NewP!TradeXInv'
  BY <1>1, <1>5, <1>6, <1>7, <1>8, NewAssumptions, NewP!BystanderInv
<1> QED  BY <1>4, <1>6, <1>9 DEF UpgradeInv

(* It takes its own open interest over the limit, or lowers the limit, only*)
(* by a payout of the pool.                                                *)
LEMMA OldStepWithin ==
  ASSUME UpgradeInv, OldStep
  PROVE  /\ Within(oldInterest) /\ ~Within(oldInterest)' => PoolPaidOut
         /\ Within(newInterest) /\ ~Within(newInterest)' => PoolPaidOut
<1>1. OldP!TradeXInv /\ NewP!TradeXInv
  BY DEF UpgradeInv
<1>2. OldP!TradeStep
  BY <1>1, OldTraderStepIs, OldLiquidationStepIs, OldAssumptions, OldP!HandlerEffect DEF OldStep
<1>3. PICK t \in Traders, q \in OldP!Position : OldP!TradeEffect(t, q)
  BY <1>2 DEF OldP!TradeStep
<1>4. /\ oldInterest <= OldP!MaxUtilization(s_totalLiquidity) =>
           \/ oldInterest' <= OldP!MaxUtilization(s_totalLiquidity')
           \/ s_totalLiquidity' < s_totalLiquidity
      /\ totalSupply' = totalSupply
      /\ s_totalLiquidity' \in Nat
  BY <1>3 DEF OldP!TradeEffect
<1>5. Within(oldInterest) /\ ~Within(oldInterest)' => PoolPaidOut
  BY <1>4, SameLimit DEF Within, PoolPaidOut
<1>6. Within(newInterest) /\ ~Within(newInterest)' => s_totalLiquidity' < s_totalLiquidity
  <2>1. newInterest' = newInterest
    BY DEF OldStep, newVars
  <2>2. newInterest \in Nat /\ s_totalLiquidity \in Nat
    BY <1>1 DEF NewP!TradeXInv, NewP!PoolInv, NewP!PoolTypeOK
  <2> QED  BY <1>4, <2>1, <2>2, StillWithin DEF Within
<1> QED  BY <1>4, <1>5, <1>6 DEF PoolPaidOut

(* A provider's step while the pool asks OldTradeX.                        *)
LEMMA AskedProviderStepOld ==
  ASSUME UpgradeInv, Old!ProviderStep, tradeX' = tradeX,
         UNCHANGED <<oldVars, newVars, answer>>
  PROVE  /\ UpgradeInv'
         /\ Within(oldInterest) => Within(oldInterest)'
         /\ Within(newInterest) /\ ~Within(newInterest)' => totalSupply' < totalSupply
<1>1. OldP!TradeXInv /\ NewP!TradeXInv
  BY DEF UpgradeInv
<1>2. OldP!ProviderStep
  BY OldProviderStepIs
<1>3. OldP!PoolInv /\ OldP!PoolTypeOK
  BY <1>1 DEF OldP!TradeXInv, OldP!PoolInv
<1>4. OldP!PoolInv'
  BY <1>2, <1>3, OldAssumptions, OldP!ProviderStepInv
<1>5. \A x \in {OldTradeX, NewTradeX} : dai'[x] = dai[x]
  <2> SUFFICES ASSUME NEW x \in {OldTradeX, NewTradeX}
               PROVE  dai'[x] = dai[x]
    OBVIOUS
  <2>1. x \in OldP!Accounts /\ x \notin Users /\ x # PoolContract
    BY UpgradeAssumption DEF OldP!Accounts
  <2> QED  BY <1>2, <1>3, <2>1, OldAssumptions, OldP!ProviderStepMoves
<1>6. UNCHANGED <<oldMeta, oldInterest, newMeta, newInterest>> /\ answer' = answer
  BY DEF oldVars, newVars
<1>7. oldInterest \in Nat /\ newInterest \in Nat /\ answer \in Answers
      /\ s_totalLiquidity \in Nat
  BY <1>1 DEF OldP!TradeXInv, OldP!PoolInv, OldP!PoolTypeOK,
              NewP!TradeXInv, NewP!PoolInv, NewP!PoolTypeOK
<1>8. OldP!TradeXInv'
  BY <1>1, <1>4, <1>5, <1>6, <1>7, OldAssumptions, OldP!BystanderInv
<1>9. NewP!PoolInv'
  BY <1>4, <1>6, <1>7, PoolOfNew
<1>10. NewP!TradeXInv'
  BY <1>1, <1>5, <1>6, <1>7, <1>9, NewAssumptions, NewP!BystanderInv
<1>11. UpgradeInv'
  BY <1>8, <1>10 DEF UpgradeInv
<1>12. ASSUME Within(oldInterest)
       PROVE  Within(oldInterest)'
  <2>1. oldInterest <= OldP!MaxUtilization(s_totalLiquidity)
    BY <1>12, SameLimit DEF Within
  <2>2. oldInterest' <= OldP!MaxUtilization(s_totalLiquidity')
    BY <1>2, <1>3, <2>1, OldAssumptions, OldP!ProviderStepUtilization
  <2> QED  BY <2>2, SameLimit DEF Within
<1>13. ASSUME Within(newInterest), ~Within(newInterest)'
       PROVE  totalSupply' < totalSupply
  <2>1. s_totalLiquidity' \in Nat
    BY <1>4 DEF OldP!PoolInv, OldP!PoolTypeOK
  <2>2. s_totalLiquidity' < s_totalLiquidity
    BY <1>6, <1>7, <1>13, <2>1, StillWithin DEF Within
  <2> QED  BY <1>2, <1>3, <2>2, OldAssumptions, OldP!ProviderStepBurns
<1> QED  BY <1>11, <1>12, <1>13

-----------------------------------------------------------------------------
(* The steps of NewTradeX                                                  *)

(* The handlers of NewTradeX are those the lemmas of NewP speak of.        *)
LEMMA NewTraderStepIs ==
  ASSUME NEW t \in Traders, New!TraderStep(t)
  PROVE  NewP!TraderStep(t)
BY DEF New!TraderStep, NewP!TraderStep, New!Long, NewP!Long, New!Short,
       NewP!Short, New!OpenPosition, NewP!OpenPosition,
       New!IncreasePosition, NewP!IncreasePosition, New!DecreasePosition,
       NewP!DecreasePosition, New!UpdateCollateral, NewP!UpdateCollateral,
       New!DecreaseCollateral, NewP!DecreaseCollateral, New!ClosePosition,
       NewP!ClosePosition, New!ConvertEthToUsd, NewP!ConvertEthToUsd,
       New!PositionFee, NewP!PositionFee, New!IsOpen, NewP!IsOpen,
       New!FeedOk, NewP!FeedOk, New!LeverageOk, NewP!LeverageOk,
       New!Leverage, NewP!Leverage, New!UtilizationOk, NewP!UtilizationOk,
       New!CanMove, NewP!CanMove, New!ExitPriceOk, NewP!ExitPriceOk,
       New!Moved, NewP!Moved, New!PositionOf, NewP!PositionOf, New!poolVars,
       NewP!poolVars, New!WithinMaxLeverage, NewP!WithinMaxLeverage,
       New!ReducePosition, NewP!ReducePosition, New!ReduceCollateral,
       NewP!ReduceCollateral, New!UserPnL, NewP!UserPnL, New!TransferOutOk,
       NewP!TransferOutOk, New!PoolPays, NewP!PoolPays, New!DeletePosition,
       NewP!DeletePosition, New!EthInUsd, NewP!EthInUsd, New!Neither,
       NewP!Neither, New!MaxUtilization, NewP!MaxUtilization,
       New!LossBudget, NewP!LossBudget, New!ExitPrice, NewP!ExitPrice,
       New!RemainingSizeInUsd, NewP!RemainingSizeInUsd,
       New!PoolUtilizationOk, NewP!PoolUtilizationOk, New!NoPosition,
       NewP!NoPosition, New!Maintenance, NewP!Maintenance

(* So are its liquidations.                                                *)
LEMMA NewLiquidationStepIs ==
  ASSUME New!LiquidationStep
  PROVE  NewP!LiquidationStep
BY DEF New!LiquidationStep, NewP!LiquidationStep, New!Liquidate,
       NewP!Liquidate, New!liquidator_fee, NewP!liquidator_fee,
       New!OverLeveraged, NewP!OverLeveraged, New!SelfSpendOk,
       NewP!SelfSpendOk, New!CanMove, NewP!CanMove, New!Moved, NewP!Moved,
       New!DeletePosition, NewP!DeletePosition, New!poolVars, NewP!poolVars,
       New!LeverageOk, NewP!LeverageOk, New!Leverage, NewP!Leverage,
       New!NoPosition, NewP!NoPosition, New!Neither, NewP!Neither

(* Nor does a provider's step differ.                                      *)
LEMMA NewProviderStepIs ==
  ASSUME New!ProviderStep
  PROVE  NewP!ProviderStep
BY DEF New!ProviderStep, NewP!ProviderStep, New!Deposit, NewP!Deposit,
       New!Mint, NewP!Mint, New!Withdraw, NewP!Withdraw, New!Redeem,
       NewP!Redeem, New!ShareTransfer, NewP!ShareTransfer,
       New!DepositAndMint, NewP!DepositAndMint, New!SharesDown,
       NewP!SharesDown, New!AssetsUp, NewP!AssetsUp, New!PoolUtilizationOk,
       NewP!PoolUtilizationOk, New!AssetsDown, NewP!AssetsDown,
       New!BurnAndWithdraw, NewP!BurnAndWithdraw, New!SharesUp,
       NewP!SharesUp, New!Moved, NewP!Moved, New!CanMove, NewP!CanMove,
       New!TotalAssets, NewP!TotalAssets, New!CeilDiv, NewP!CeilDiv,
       New!MaxUtilization, NewP!MaxUtilization

(* What is sound as the pool of NewTradeX is sound as that of OldTradeX, in*)
(* the state a step leads to.                                              *)
LEMMA PoolOfOld ==
  ASSUME NewP!PoolInv', oldInterest' \in Nat
  PROVE  OldP!PoolInv'
<1>1. AskedFor(OldTradeX)' \in {NoTradeX, OldTradeX}
  BY DEF AskedFor
<1>2. /\ dai' \in [NewP!Accounts -> Nat]
      /\ shares' \in [Users -> Nat] /\ totalSupply' \in Nat /\ s_totalLiquidity' \in Nat
  BY DEF NewP!PoolInv, NewP!PoolTypeOK, NewP!LedgerTypeOK
<1>3. NewP!Accounts = OldP!Accounts
  BY DEF NewP!Accounts, OldP!Accounts
<1>4. OldP!PoolTypeOK'
  BY <1>1, <1>2, <1>3 DEF OldP!PoolTypeOK, OldP!LedgerTypeOK
<1>5. NewP!Units(shares') = OldP!Units(shares') /\ NewP!Total(shares') = OldP!Total(shares')
  <2>1. \A x, m : NewP!UnitsOf(x, m) = OldP!UnitsOf(x, m)
    BY DEF NewP!UnitsOf, OldP!UnitsOf
  <2>2. NewP!Units(shares') = OldP!Units(shares')
    BY <2>1 DEF NewP!Units, OldP!Units
  <2> QED
    BY <2>2 DEF NewP!Total, OldP!Total, NewP!Cardinality, OldP!Cardinality
<1>6. NewP!IsFiniteSet(NewP!Units(shares')) /\ NewP!Total(shares') = totalSupply'
  BY DEF NewP!PoolInv, NewP!SupplyIsSumOfShares
<1>7. OldP!IsFiniteSet(NewP!Units(shares'))
  BY <1>6 DEF NewP!IsFiniteSet, OldP!IsFiniteSet
<1> QED
  BY <1>4, <1>5, <1>6, <1>7 DEF OldP!PoolInv, OldP!SupplyIsSumOfShares

(* A step of NewTradeX keeps its own invariant and that of OldTradeX, whose*)
(* DAI it does not touch.                                                  *)
LEMMA NewStepInv ==
  ASSUME UpgradeInv, NewStep
  PROVE  UpgradeInv'
<1>1. NewP!TradeXInv /\ OldP!TradeXInv
  BY DEF UpgradeInv
<1>2. (\E t \in Traders : NewP!TraderStep(t)) \/ NewP!LiquidationStep
  BY NewTraderStepIs, NewLiquidationStepIs DEF NewStep
<1>3. NewP!TradeStep
  BY <1>1, <1>2, NewAssumptions, NewP!HandlerEffect
<1>4. NewP!TradeXInv'
  BY <1>1, <1>3, NewAssumptions, NewP!TradeStepInv
<1>5. dai'[OldTradeX] = dai[OldTradeX]
  <2>1. /\ OldTradeX \in NewP!Accounts /\ OldTradeX \notin Users
        /\ OldTradeX # NewTradeX /\ OldTradeX # PoolContract
        /\ Traders \subseteq Users
    BY UpgradeAssumption DEF NewP!Accounts
  <2>2. CASE NewP!LiquidationStep
    BY <1>1, <2>1, <2>2, NewAssumptions, NewP!LiquidationStepMoves
  <2>3. ASSUME NEW t \in Traders, NewP!TraderStep(t)
        PROVE  dai'[OldTradeX] = dai[OldTradeX]
    <3>1. OldTradeX # t
      BY <2>1
    <3> QED  BY <1>1, <2>1, <2>3, <3>1, NewAssumptions, NewP!TraderStepMoves
  <2> QED  BY <1>2, <2>2, <2>3
<1>6. UNCHANGED <<tradeX, oldMeta, oldInterest>>
  BY DEF NewStep, oldVars
<1>7. OldP!PoolInv'
  <2>1. oldInterest' \in Nat
    BY <1>1, <1>6 DEF OldP!TradeXInv, OldP!PoolInv, OldP!PoolTypeOK
  <2>2. NewP!PoolInv'
    BY <1>4 DEF NewP!TradeXInv
  <2> QED  BY <2>1, <2>2, PoolOfOld
<1>8. answer' \in Answers
  BY <1>4 DEF NewP!TradeXInv
<1>9. OldP!TradeXInv'
  BY <1>1, <1>5, <1>6, <1>7, <1>8, OldAssumptions, OldP!BystanderInv
<1> QED  BY <1>4, <1>6, <1>9 DEF UpgradeInv

(* It takes its own open interest over the limit, or lowers the limit, only*)
(* by a payout of the pool.                                                *)
LEMMA NewStepWithin ==
  ASSUME UpgradeInv, NewStep
  PROVE  /\ Within(newInterest) /\ ~Within(newInterest)' => PoolPaidOut
         /\ Within(oldInterest) /\ ~Within(oldInterest)' => PoolPaidOut
<1>1. NewP!TradeXInv /\ OldP!TradeXInv
  BY DEF UpgradeInv
<1>2. NewP!TradeStep
  BY <1>1, NewTraderStepIs, NewLiquidationStepIs, NewAssumptions, NewP!HandlerEffect DEF NewStep
<1>3. PICK t \in Traders, q \in NewP!Position : NewP!TradeEffect(t, q)
  BY <1>2 DEF NewP!TradeStep
<1>4. /\ newInterest <= NewP!MaxUtilization(s_totalLiquidity) =>
           \/ newInterest' <= NewP!MaxUtilization(s_totalLiquidity')
           \/ s_totalLiquidity' < s_totalLiquidity
      /\ totalSupply' = totalSupply
      /\ s_totalLiquidity' \in Nat
  BY <1>3 DEF NewP!TradeEffect
<1>5. Within(newInterest) /\ ~Within(newInterest)' => PoolPaidOut
  BY <1>4, SameLimit DEF Within, PoolPaidOut
<1>6. Within(oldInterest) /\ ~Within(oldInterest)' => s_totalLiquidity' < s_totalLiquidity
  <2>1. oldInterest' = oldInterest
    BY DEF NewStep, oldVars
  <2>2. oldInterest \in Nat /\ s_totalLiquidity \in Nat
    BY <1>1 DEF OldP!TradeXInv, OldP!PoolInv, OldP!PoolTypeOK
  <2> QED  BY <1>4, <2>1, <2>2, StillWithin DEF Within
<1> QED  BY <1>4, <1>5, <1>6 DEF PoolPaidOut

(* A provider's step while the pool asks NewTradeX.                        *)
LEMMA AskedProviderStepNew ==
  ASSUME UpgradeInv, New!ProviderStep, tradeX' = tradeX,
         UNCHANGED <<newVars, oldVars, answer>>
  PROVE  /\ UpgradeInv'
         /\ Within(newInterest) => Within(newInterest)'
         /\ Within(oldInterest) /\ ~Within(oldInterest)' => totalSupply' < totalSupply
<1>1. NewP!TradeXInv /\ OldP!TradeXInv
  BY DEF UpgradeInv
<1>2. NewP!ProviderStep
  BY NewProviderStepIs
<1>3. NewP!PoolInv /\ NewP!PoolTypeOK
  BY <1>1 DEF NewP!TradeXInv, NewP!PoolInv
<1>4. NewP!PoolInv'
  BY <1>2, <1>3, NewAssumptions, NewP!ProviderStepInv
<1>5. \A x \in {NewTradeX, OldTradeX} : dai'[x] = dai[x]
  <2> SUFFICES ASSUME NEW x \in {NewTradeX, OldTradeX}
               PROVE  dai'[x] = dai[x]
    OBVIOUS
  <2>1. x \in NewP!Accounts /\ x \notin Users /\ x # PoolContract
    BY UpgradeAssumption DEF NewP!Accounts
  <2> QED  BY <1>2, <1>3, <2>1, NewAssumptions, NewP!ProviderStepMoves
<1>6. UNCHANGED <<newMeta, newInterest, oldMeta, oldInterest>> /\ answer' = answer
  BY DEF newVars, oldVars
<1>7. newInterest \in Nat /\ oldInterest \in Nat /\ answer \in Answers
      /\ s_totalLiquidity \in Nat
  BY <1>1 DEF NewP!TradeXInv, NewP!PoolInv, NewP!PoolTypeOK,
              OldP!TradeXInv, OldP!PoolInv, OldP!PoolTypeOK
<1>8. NewP!TradeXInv'
  BY <1>1, <1>4, <1>5, <1>6, <1>7, NewAssumptions, NewP!BystanderInv
<1>9. OldP!PoolInv'
  BY <1>4, <1>6, <1>7, PoolOfOld
<1>10. OldP!TradeXInv'
  BY <1>1, <1>5, <1>6, <1>7, <1>9, OldAssumptions, OldP!BystanderInv
<1>11. UpgradeInv'
  BY <1>8, <1>10 DEF UpgradeInv
<1>12. ASSUME Within(newInterest)
       PROVE  Within(newInterest)'
  <2>1. newInterest <= NewP!MaxUtilization(s_totalLiquidity)
    BY <1>12, SameLimit DEF Within
  <2>2. newInterest' <= NewP!MaxUtilization(s_totalLiquidity')
    BY <1>2, <1>3, <2>1, NewAssumptions, NewP!ProviderStepUtilization
  <2> QED  BY <2>2, SameLimit DEF Within
<1>13. ASSUME Within(oldInterest), ~Within(oldInterest)'
       PROVE  totalSupply' < totalSupply
  <2>1. s_totalLiquidity' \in Nat
    BY <1>4 DEF NewP!PoolInv, NewP!PoolTypeOK
  <2>2. s_totalLiquidity' < s_totalLiquidity
    BY <1>6, <1>7, <1>13, <2>1, StillWithin DEF Within
  <2> QED  BY <1>2, <1>3, <2>2, NewAssumptions, NewP!ProviderStepBurns
<1> QED  BY <1>11, <1>12, <1>13

-----------------------------------------------------------------------------
(* The system                                                              *)

(* The deployment, which sets the first TradeX.                            *)
LEMMA InitUpgrade ==
  ASSUME Init
  PROVE  UpgradeInv
<1>1. OldP!TradeXInv
  <2>1. OldP!LedgerInit
    BY DEF Init, OldP!LedgerInit, OldP!Accounts, Accounts
  <2>2. oldMeta = [t \in Traders |-> OldP!NoPosition]
    BY DEF Init, Old!NoPosition, OldP!NoPosition, Old!Neither, OldP!Neither
  <2>3. AskedFor(OldTradeX) \in {NoTradeX, OldTradeX}
    BY DEF AskedFor
  <2> QED  BY <2>1, <2>2, <2>3, OldAssumptions, OldP!DeployedInv DEF Init
<1>2. NewP!TradeXInv
  <2>1. NewP!LedgerInit
    BY DEF Init, NewP!LedgerInit, NewP!Accounts, Accounts
  <2>2. newMeta = [t \in Traders |-> NewP!NoPosition]
    BY DEF Init, New!NoPosition, NewP!NoPosition, New!Neither, NewP!Neither
  <2>3. AskedFor(NewTradeX) \in {NoTradeX, NewTradeX}
    BY DEF AskedFor
  <2> QED  BY <2>1, <2>2, <2>3, NewAssumptions, NewP!DeployedInv DEF Init
<1> QED  BY <1>1, <1>2 DEF Init, UpgradeInv

(* Naming another TradeX, a new answer of the feed, and no step at all.    *)
LEMMA QuietStepUpgrade ==
  ASSUME UpgradeInv, tradeX' \in {NoTradeX, OldTradeX, NewTradeX}, answer' \in Answers,
         UNCHANGED <<dai, shares, totalSupply, s_totalLiquidity, oldVars, newVars>>
  PROVE  UpgradeInv'
<1>1. OldP!TradeXInv /\ NewP!TradeXInv
  BY DEF UpgradeInv
<1>2. UNCHANGED <<oldMeta, oldInterest, newMeta, newInterest>>
  BY DEF oldVars, newVars
<1>3. AskedFor(OldTradeX)' \in {NoTradeX, OldTradeX}
  BY DEF AskedFor
<1>4. OldP!PoolInv'
  BY <1>1, <1>2, <1>3
     DEF OldP!TradeXInv, OldP!PoolInv, OldP!PoolTypeOK, OldP!LedgerTypeOK, OldP!SupplyIsSumOfShares
<1>5. NewP!PoolInv'
  <2>1. newInterest' \in Nat
    BY <1>1, <1>2 DEF NewP!TradeXInv, NewP!PoolInv, NewP!PoolTypeOK
  <2> QED  BY <1>4, <2>1, PoolOfNew
<1>6. OldP!TradeXInv'
  BY <1>1, <1>2, <1>4, OldAssumptions, OldP!BystanderInv
<1>7. NewP!TradeXInv'
  BY <1>1, <1>2, <1>5, NewAssumptions, NewP!BystanderInv
<1> QED  BY <1>6, <1>7 DEF UpgradeInv

(* The invariant is inductive.                                             *)
LEMMA NextUpgrade ==
  ASSUME UpgradeInv, [Next]_vars
  PROVE  UpgradeInv'
<1>1. CASE OldStep
  BY <1>1, OldStepInv
<1>2. CASE NewStep
  BY <1>2, NewStepInv
<1>3. CASE ProviderStep
  BY <1>3, AskedProviderStepOld, AskedProviderStepNew DEF ProviderStep
<1>4. answer \in Answers /\ tradeX \in {NoTradeX, OldTradeX, NewTradeX}
  BY DEF UpgradeInv, OldP!TradeXInv
<1>5. CASE UpdateTradeX
  BY <1>4, <1>5, QuietStepUpgrade DEF UpdateTradeX
<1>6. CASE OracleUpdate
  BY <1>4, <1>6, QuietStepUpgrade DEF OracleUpdate, poolVars
<1>7. CASE UNCHANGED vars
  BY <1>4, <1>7, QuietStepUpgrade DEF vars, poolVars
<1> QED  BY <1>1, <1>2, <1>3, <1>5, <1>6, <1>7 DEF Next

(* Both contracts keep the invariant of TradeX, whichever is set and       *)
(* however often it is replaced.                                           *)
THEOREM UpgradeInvariant == Spec => []UpgradeInv
<1>1. Init => UpgradeInv
  BY InitUpgrade
<1>2. UpgradeInv /\ [Next]_vars => UpgradeInv'
  BY NextUpgrade
<1> QED  BY <1>1, <1>2, PTL DEF Spec

(* Balances, shares, book, both contracts' positions and open interest     *)
(* keep their types.                                                       *)
THEOREM UpgradeTypeCorrect == Spec => []TypeOK
<1>1. UpgradeInv => TypeOK
  <2> SUFFICES ASSUME UpgradeInv
               PROVE  TypeOK
    OBVIOUS
  <2>1. OldP!TradeXInv /\ OldP!PoolTypeOK /\ NewP!TradeXInv /\ NewP!PoolTypeOK
    BY DEF UpgradeInv, OldP!TradeXInv, OldP!PoolInv, NewP!TradeXInv, NewP!PoolInv
  <2>2. dai \in [Accounts -> Nat]
    <3>1. OldP!Accounts = Accounts
      BY DEF OldP!Accounts, Accounts
    <3> QED  BY <2>1, <3>1 DEF OldP!PoolTypeOK, OldP!LedgerTypeOK
  <2>3. oldMeta \in [Traders -> Old!Position] /\ oldInterest \in Nat
    BY <2>1 DEF OldP!TradeXInv, OldP!PoolTypeOK, Old!Position, OldP!Position,
                Old!Neither, OldP!Neither, Old!Long, OldP!Long, Old!Short, OldP!Short
  <2>4. newMeta \in [Traders -> New!Position] /\ newInterest \in Nat
    BY <2>1 DEF NewP!TradeXInv, NewP!PoolTypeOK, New!Position, NewP!Position,
                New!Neither, NewP!Neither, New!Long, NewP!Long, New!Short, NewP!Short
  <2> QED
    BY <2>1, <2>2, <2>3, <2>4 DEF UpgradeInv, OldP!TradeXInv, OldP!PoolTypeOK, TypeOK
<1> QED  BY <1>1, UpgradeInvariant, PTL

(* Each of two contracts that share a pool holds the collateral it has     *)
(* recorded, for any number of traders and of replacements.                *)
THEOREM UpgradeBothBacked == Spec => []BothBacked
<1>1. UpgradeInv => BothBacked
  <2> SUFFICES ASSUME UpgradeInv
               PROVE  BothBacked
    OBVIOUS
  <2>1. OldP!CollateralBacked /\ NewP!CollateralBacked
    BY DEF UpgradeInv, OldP!TradeXInv, NewP!TradeXInv
  <2>2. Old!CollateralBacked
    BY <2>1 DEF Old!CollateralBacked, OldP!CollateralBacked, Old!TotalCollateral,
                OldP!TotalCollateral, Old!Total, OldP!Total, Old!Units, OldP!Units,
                Old!UnitsOf, OldP!UnitsOf, Old!Cardinality, OldP!Cardinality
  <2>3. New!CollateralBacked
    BY <2>1 DEF New!CollateralBacked, NewP!CollateralBacked, New!TotalCollateral,
                NewP!TotalCollateral, New!Total, NewP!Total, New!Units, NewP!Units,
                New!UnitsOf, NewP!UnitsOf, New!Cardinality, NewP!Cardinality
  <2> QED  BY <2>2, <2>3 DEF BothBacked
<1> QED  BY <1>1, UpgradeInvariant, PTL

(* Open interest is pushed over the limit only by payouts while its        *)
(* contract is set, and by withdrawals only once it is replaced.           *)
THEOREM UpgradeReplacedLosesProtection == Spec => ReplacedLosesProtection
<1> DEFINE Protected ==
      /\ Within(oldInterest) /\ ~Within(oldInterest)' =>
           PoolPaidOut \/ (tradeX # OldTradeX /\ totalSupply' < totalSupply)
      /\ Within(newInterest) /\ ~Within(newInterest)' =>
           PoolPaidOut \/ (tradeX # NewTradeX /\ totalSupply' < totalSupply)
<1>1. UpgradeInv /\ [Next]_vars => [Protected]_vars
  <2> SUFFICES ASSUME UpgradeInv, Next
               PROVE  Protected
    OBVIOUS
  <2>1. CASE OldStep
    BY <2>1, OldStepWithin
  <2>2. CASE NewStep
    BY <2>2, NewStepWithin
  <2>3. CASE ProviderStep
    <3>1. tradeX' = tradeX /\ UNCHANGED <<oldVars, newVars, answer>>
      BY <2>3 DEF ProviderStep
    <3>2. CASE tradeX = OldTradeX /\ Old!ProviderStep
      <4>1. OldTradeX # NewTradeX
        BY UpgradeAssumption
      <4> QED  BY <3>1, <3>2, <4>1, AskedProviderStepOld
    <3>3. CASE tradeX # OldTradeX /\ New!ProviderStep
      BY <3>1, <3>3, AskedProviderStepNew
    <3> QED  BY <2>3, <3>2, <3>3 DEF ProviderStep
  <2>4. CASE UpdateTradeX \/ OracleUpdate
    BY <2>4 DEF UpdateTradeX, OracleUpdate, poolVars, oldVars, newVars, Within
  <2> QED  BY <2>1, <2>2, <2>3, <2>4 DEF Next
<1> QED
  BY <1>1, UpgradeInvariant, PTL DEF Spec, ReplacedLosesProtection
=============================================================================
