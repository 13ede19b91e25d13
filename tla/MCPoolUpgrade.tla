---------------------------- MODULE MCPoolUpgrade ----------------------------
(***************************************************************************)
(* One trader, who may hold a position in each of the two contracts, and   *)
(* one provider.                                                           *)
(***************************************************************************)
EXTENDS PoolUpgrade

CONSTANTS t1, lp, TraderDai, ProviderDai

MCUsers == {t1, lp}
MCInitialDai == [u \in MCUsers |-> IF u = lp THEN ProviderDai ELSE TraderDai]

\* MaxCalls bounds the calls of traders, providers and the owner: fees,
\* payouts and replacements could go on for ever.
CONSTANT MaxCalls

VARIABLE calls

MCInit == Init /\ calls = 0

MCNext ==
  \/ /\ OldStep \/ NewStep \/ ProviderStep \/ UpdateTradeX
     /\ calls < MaxCalls
     /\ calls' = calls + 1
  \/ /\ OracleUpdate
     /\ UNCHANGED calls

MCSpec == MCInit /\ [][MCNext]_<<vars, calls>>
=============================================================================
