----------------------------- MODULE DaiLedger ------------------------------
(***************************************************************************)
(* The DAI token as TradeX and the LiquidityPool see it: an ERC20 whose    *)
(* balances move between accounts.  The users have approved the two        *)
(* contracts for what they spend before they call them; no line of         *)
(* TradeX.sol approves anything, so the allowance TradeX has on its own    *)
(* DAI is 0 for ever.  Whether transferFrom of one's own tokens needs an   *)
(* allowance depends on the token: OpenZeppelin's ERC20, which the mock of *)
(* HelperConfig.sol deploys, requires it; other ERC20s do not.             *)
(***************************************************************************)
EXTENDS Integers

CONSTANTS
  Users,                   \* externally owned accounts
  TradeXContract,          \* address(TradeX)
  PoolContract,            \* address(LiquidityPool)
  Others,                  \* accounts that call neither contract
  InitialDai,              \* what each user holds when the contracts are deployed
  SelfSpendNeedsAllowance  \* does transferFrom(self, ...) check an allowance?

Accounts == Users \cup {TradeXContract, PoolContract} \cup Others

ASSUME LedgerAssumption ==
  /\ TradeXContract \notin Users
  /\ PoolContract \notin Users
  /\ TradeXContract # PoolContract
  /\ Others \cap (Users \cup {TradeXContract, PoolContract}) = {}
  /\ InitialDai \in [Users -> Nat]
  /\ SelfSpendNeedsAllowance \in BOOLEAN

VARIABLE dai

LedgerTypeOK == dai \in [Accounts -> Nat]

LedgerInit == dai = [a \in Accounts |-> IF a \in Users THEN InitialDai[a] ELSE 0]

CanMove(from, value) == dai[from] >= value

Moved(balances, from, to, value) ==
  [[balances EXCEPT ![from] = @ - value] EXCEPT ![to] = @ + value]

\* transferFrom(address(this), ...) called by TradeX itself; SelfSpendOk_Never
\* is the faulty variant that always needs an allowance.
SelfSpendOk_Never(value) == value = 0

SelfSpendOk(value) == SelfSpendNeedsAllowance => value = 0

\* ERC20.transfer by a user, to another user or to one of the contracts.
DaiTransfer(from, to, value) ==
  /\ CanMove(from, value)
  /\ dai' = Moved(dai, from, to, value)
=============================================================================
