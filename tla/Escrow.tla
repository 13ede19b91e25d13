------------------------------- MODULE Escrow -------------------------------
(***************************************************************************)
(* What TradeX promises about the collateral it takes, with everything else*)
(* left out: it holds an amount of DAI and owes each trader a part of it.  *)
(* Whatever is held beyond what is owed belongs to nobody.                 *)
(***************************************************************************)
EXTENDS Integers, Totals

CONSTANT Traders

VARIABLES
  held,  \* what the escrow holds
  owed   \* what it owes each trader

vars == <<held, owed>>

Init ==
  /\ held = 0
  /\ owed = [t \in Traders |-> 0]

OnlyClaimOf(t) ==
  /\ owed' = [owed EXCEPT ![t] = owed'[t]]
  /\ owed'[t] \in Nat

\* The claim of a trader grows by no more than what is paid in; it may fall
\* (fees, losses) while the DAI stays.
Keep(t) ==
  /\ OnlyClaimOf(t)
  /\ held' \in Nat
  /\ held' >= held
  /\ owed'[t] - owed[t] <= held' - held

\* DAI leaves only as the whole claim of one trader, which it settles.
Release(t) ==
  /\ OnlyClaimOf(t)
  /\ owed'[t] = 0
  /\ held >= owed[t]
  /\ held' = held - owed[t]

\* DAI that arrives without a call belongs to nobody.
Arrive ==
  /\ held' \in Nat
  /\ held' >= held
  /\ UNCHANGED owed

Next == (\E t \in Traders : Keep(t) \/ Release(t)) \/ Arrive

Spec == Init /\ [][Next]_vars

\* Nobody's claim is paid with the claim of another: all can be paid.
Solvent == Total(owed) <= held
=============================================================================
