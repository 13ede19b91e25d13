-------------------------- MODULE MCLiquidityPool ---------------------------
(***************************************************************************)
(* Instances of LiquidityPool for TLC: two providers with a handful of DAI *)
(* each, so that every rounding of a share price between 1/4 and 4 occurs. *)
(***************************************************************************)
EXTENDS LiquidityPool, TLC

CONSTANTS lp1, lp2, DaiOfEach

MCUsers == {lp1, lp2}
MCInitialDai == [u \in MCUsers |-> DaiOfEach]
MCSymmetry == Permutations(MCUsers)

\* Bounds: how far the supply of shares and the book are followed.  The book
\* can grow for ever (deposit, redeem, deposit, ...), so it needs one.
CONSTANTS MaxSupply, MaxBook

MCNext ==
  /\ PoolNext
  /\ totalSupply' <= MaxSupply
  /\ s_totalLiquidity' <= MaxBook

MCSpec == PoolInit /\ [][MCNext]_pVars
=============================================================================
