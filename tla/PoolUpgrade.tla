----------------------------- MODULE PoolUpgrade -----------------------------
(***************************************************************************)
(* The owner of the pool may name another TradeX at any time (_initialize, *)
(* updateTradeX), while positions of the earlier one are open.  Both       *)
(* contracts were deployed with this pool: each goes on serving its traders*)
(* and calling transferOut, which checks nothing of its caller, and the    *)
(* pool asks the one that is set.                                          *)
(*                                                                         *)
(* Each contract is an instance of TradeX.  getMax_Utilization() answers   *)
(* the same whichever of them is asked, as both compute it from the pool's *)
(* book; it reverts only if none is set.  withdraw reads the open interest *)
(* of the one that is set.                                                 *)
(***************************************************************************)
EXTENDS Integers

CONSTANTS
  WAD, PRICEFEED_PRECISION, MAX_LEVERAGE, LEVERAGE_PRECISION,
  MIN_SIZE, MIN_COLLATERAL,
  Users, Traders, Providers, InitialDai, SelfSpendNeedsAllowance,
  PoolAmounts, Answers, Sizes, Collaterals, Reductions,
  OldTradeX, NewTradeX,  \* the two contracts
  PoolContract, NoTradeX

ASSUME UpgradeAssumption ==
  /\ {OldTradeX, NewTradeX, PoolContract} \cap Users = {}
  /\ OldTradeX # NewTradeX
  /\ PoolContract \notin {OldTradeX, NewTradeX}
  /\ NoTradeX \notin {OldTradeX, NewTradeX}
  /\ Traders \subseteq Users /\ Providers \subseteq Users
  /\ InitialDai \in [Users -> Nat] /\ SelfSpendNeedsAllowance \in BOOLEAN
  /\ Answers \subseteq Int
  /\ \A amounts \in {PoolAmounts, Sizes, Collaterals, Reductions} : amounts \subseteq Nat
  /\ {WAD, PRICEFEED_PRECISION, MAX_LEVERAGE, LEVERAGE_PRECISION, MIN_SIZE}
       \subseteq Nat \ {0}
  /\ MIN_COLLATERAL \in Nat

VARIABLES
  dai, shares, totalSupply, s_totalLiquidity, answer,
  tradeX,                  \* the TradeX the pool asks
  oldMeta, oldInterest,    \* positionMeta and s_openInterest of OldTradeX
  newMeta, newInterest     \* and of NewTradeX

poolVars == <<shares, totalSupply, s_totalLiquidity, tradeX>>
oldVars == <<oldMeta, oldInterest>>
newVars == <<newMeta, newInterest>>
vars == <<dai, poolVars, answer, oldVars, newVars>>

\* A contract gets its answer from the pool iff some TradeX is set.
AskedFor(contract) == IF tradeX = NoTradeX THEN NoTradeX ELSE contract

Old == INSTANCE TradeX WITH
  TradeXContract <- OldTradeX, tradeX <- AskedFor(OldTradeX),
  positionMeta <- oldMeta, s_openInterest <- oldInterest,
  Others <- {NewTradeX}, Payees <- {}, OpenInterests <- {}

New == INSTANCE TradeX WITH
  TradeXContract <- NewTradeX, tradeX <- AskedFor(NewTradeX),
  positionMeta <- newMeta, s_openInterest <- newInterest,
  Others <- {OldTradeX}, Payees <- {}, OpenInterests <- {}

Accounts == Users \cup {OldTradeX, NewTradeX, PoolContract}

TypeOK ==
  /\ dai \in [Accounts -> Nat]
  /\ shares \in [Users -> Nat]
  /\ totalSupply \in Nat /\ s_totalLiquidity \in Nat
  /\ tradeX \in {NoTradeX, OldTradeX, NewTradeX}
  /\ oldMeta \in [Traders -> Old!Position] /\ oldInterest \in Nat
  /\ newMeta \in [Traders -> New!Position] /\ newInterest \in Nat
  /\ answer \in Answers

\* After the deployment, which sets the first TradeX.
Init ==
  /\ dai = [a \in Accounts |-> IF a \in Users THEN InitialDai[a] ELSE 0]
  /\ shares = [u \in Users |-> 0]
  /\ totalSupply = 0
  /\ s_totalLiquidity = 0
  /\ tradeX = OldTradeX
  /\ oldMeta = [t \in Traders |-> Old!NoPosition] /\ oldInterest = 0
  /\ newMeta = [t \in Traders |-> New!NoPosition] /\ newInterest = 0
  /\ answer \in Answers

OldStep ==
  /\ UNCHANGED <<tradeX, newVars>>
  /\ (\E t \in Traders : Old!TraderStep(t)) \/ Old!LiquidationStep

NewStep ==
  /\ UNCHANGED <<tradeX, oldVars>>
  /\ (\E t \in Traders : New!TraderStep(t)) \/ New!LiquidationStep

\* What withdraw reads is what the TradeX that is set answers.
ProviderStep_AsksOld ==
  /\ UNCHANGED <<tradeX, oldVars, newVars, answer>>
  /\ Old!ProviderStep

ProviderStep ==
  /\ UNCHANGED <<tradeX, oldVars, newVars, answer>>
  /\ \/ tradeX = OldTradeX /\ Old!ProviderStep
     \/ tradeX # OldTradeX /\ New!ProviderStep

UpdateTradeX ==
  /\ tradeX' \in {NoTradeX, OldTradeX, NewTradeX}
  /\ UNCHANGED <<dai, shares, totalSupply, s_totalLiquidity, oldVars, newVars, answer>>

OracleUpdate ==
  /\ answer' \in Answers
  /\ UNCHANGED <<dai, poolVars, oldVars, newVars>>

Next == OldStep \/ NewStep \/ ProviderStep \/ UpdateTradeX \/ OracleUpdate

Spec == Init /\ [][Next]_vars
-----------------------------------------------------------------------------
(* Properties                                                              *)

(* Whichever contract is set, and whatever is paid out of the pool they    *)
(* share, each holds the collateral it has recorded.                       *)
BothBacked == Old!CollateralBacked /\ New!CollateralBacked

Within(interest) == interest <= Old!MaxUtilization(s_totalLiquidity)

PoolPaidOut == s_totalLiquidity' < s_totalLiquidity /\ totalSupply' = totalSupply

(* The open interest of a contract within the pool's limit is pushed over  *)
(* it only by payouts, as long as the contract is the one that is set; once*)
(* it is replaced, providers may also withdraw what its positions rely on. *)
ReplacedLosesProtection ==
  [][ /\ Within(oldInterest) /\ ~Within(oldInterest)' =>
           PoolPaidOut \/ (tradeX # OldTradeX /\ totalSupply' < totalSupply)
      /\ Within(newInterest) /\ ~Within(newInterest)' =>
           PoolPaidOut \/ (tradeX # NewTradeX /\ totalSupply' < totalSupply) ]_vars
=============================================================================
