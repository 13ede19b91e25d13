------------------------------ MODULE MCTradeX ------------------------------
(***************************************************************************)
(* Instances of TradeX for TLC: the traders MCTraders and one liquidity    *)
(* provider.                                                               *)
(***************************************************************************)
EXTENDS TradeX, TLC

CONSTANTS t1, t2, lp, MCTraders, TraderDai, ProviderDai

MCUsers == MCTraders \cup {lp}
MCProviders == {lp}
MCInitialDai == [u \in MCUsers |-> IF u = lp THEN ProviderDai ELSE TraderDai]
\* A negative answer disables every call that reads the price.
MCBrokenFeed == {-1, 500, 600}
MCSymmetry == Permutations(MCTraders)

\* Bounds: the number of traders' calls, as fees make every one lead to new
\* balances (liquidations, which the fairness speaks of, are not counted);
\* the book, which can grow for ever (deposit, redeem, deposit, ...); and the
\* supply of shares, which deposits into a pool that was emptied under its
\* shares multiply.
CONSTANTS MaxCalls, MaxBook, MaxSupply

VARIABLE calls

MCInit == Init /\ calls = 0

MCNext ==
  /\ \/ /\ \E t \in Traders : TraderStep(t)
        /\ calls < MaxCalls
        /\ calls' = calls + 1
     \/ /\ LiquidationStep \/ OracleUpdate \/ PoolStep
        /\ UNCHANGED calls
  /\ s_totalLiquidity' <= MaxBook
  /\ totalSupply' <= MaxSupply

MCSpec == MCInit /\ [][MCNext]_<<vars, calls>>
MCFairSpec == MCSpec /\ LiquidatorsAct
=============================================================================
