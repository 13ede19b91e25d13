--------------------------- MODULE LiquidityPool ----------------------------
(***************************************************************************)
(* The contract LiquidityPool (liquidityPool.sol): an ERC4626 vault over   *)
(* DAI whose shares are the token TXC, extended by a book, s_totalLiquidity*)
(* that the overrides of the four entry points maintain and that bounds    *)
(* what TradeX may use.  A call is one atomic step; a call that reverts is *)
(* a step that is not enabled.                                             *)
(*                                                                         *)
(* s_openInterest is state of the contract TradeX: the pool reads it       *)
(* through getOpenInterest().  Here it moves at will (OpenInterestMoves),  *)
(* as do DAI that a user sends to one of the contracts without calling it  *)
(* (DaiArrives).  The module TradeX replaces OpenInterestMoves by what that*)
(* contract does.                                                          *)
(*                                                                         *)
(* Definitions named Operation_Fault are plausible faulty variants of      *)
(* Operation; nothing but the mutation runs uses them.                     *)
(***************************************************************************)
EXTENDS DaiLedger, TradeXMath, Totals

CONSTANTS
  Providers,     \* users that provide liquidity
  PoolAmounts,   \* assets and shares passed to the pool's entry points
  OpenInterests, \* values of getOpenInterest() when the pool is taken alone
  NoTradeX       \* the zero address: no TradeX is set

ASSUME PoolAssumption ==
  /\ Providers \subseteq Users
  /\ PoolAmounts \subseteq Nat
  /\ OpenInterests \subseteq Nat
  /\ NoTradeX # TradeXContract

VARIABLES
  shares,            \* balanceOf of TXC
  totalSupply,       \* totalSupply() of TXC
  s_totalLiquidity,  \* the book
  tradeX,            \* the TradeX the owner has set
  s_openInterest     \* TradeX's getOpenInterest()

poolVars == <<shares, totalSupply, s_totalLiquidity, tradeX>>
pVars == <<dai, poolVars, s_openInterest>>

PoolTypeOK ==
  /\ LedgerTypeOK
  /\ shares \in [Users -> Nat]
  /\ totalSupply \in Nat
  /\ s_totalLiquidity \in Nat
  /\ tradeX \in {NoTradeX, TradeXContract}
  /\ s_openInterest \in Nat

PoolInit ==
  /\ LedgerInit
  /\ shares = [u \in Users |-> 0]
  /\ totalSupply = 0
  /\ s_totalLiquidity = 0
  /\ tradeX = NoTradeX
  /\ s_openInterest = 0

-----------------------------------------------------------------------------
(* ERC4626: shares for assets and back, with one virtual share and one     *)
(* virtual asset.  Down rounds towards the caller's loss when the caller   *)
(* names what it gives, Up when it names what it takes.                    *)

TotalAssets == dai[PoolContract]

CeilDiv(a, b) == (a + b - 1) \div b

SharesUp_Truncated(assets) == (assets * (totalSupply + 1)) \div (TotalAssets + 1)

SharesDown(assets) == (assets * (totalSupply + 1)) \div (TotalAssets + 1)
SharesUp(assets) == CeilDiv(assets * (totalSupply + 1), TotalAssets + 1)
AssetsDown(sh) == (sh * (TotalAssets + 1)) \div (totalSupply + 1)
AssetsUp(sh) == CeilDiv(sh * (TotalAssets + 1), totalSupply + 1)

\* _deposit: DAI in, then shares to the receiver.
DepositAndMint_SupplyKept(caller, receiver, assets, sh) ==
  /\ CanMove(caller, assets)
  /\ dai' = Moved(dai, caller, PoolContract, assets)
  /\ shares' = [shares EXCEPT ![receiver] = @ + sh]
  /\ UNCHANGED totalSupply

DepositAndMint(caller, receiver, assets, sh) ==
  /\ CanMove(caller, assets)
  /\ dai' = Moved(dai, caller, PoolContract, assets)
  /\ shares' = [shares EXCEPT ![receiver] = @ + sh]
  /\ totalSupply' = totalSupply + sh

\* _withdraw: shares of the owner burnt, then DAI out.  The caller is the
\* owner or has the owner's allowance; it leaves no other trace.
BurnAndWithdraw(owner, receiver, assets, sh) ==
  /\ shares[owner] >= sh
  /\ CanMove(PoolContract, assets)
  /\ shares' = [shares EXCEPT ![owner] = @ - sh]
  /\ totalSupply' = totalSupply - sh
  /\ dai' = Moved(dai, PoolContract, receiver, assets)

-----------------------------------------------------------------------------
(* The entry points                                                        *)

\* getMax_Utilization() asks the TradeX that is set; with none it reverts.
PoolUtilizationOk_AnyUse(used) == tradeX = TradeXContract

PoolUtilizationOk(used) ==
  /\ tradeX = TradeXContract
  /\ used <= MaxUtilization(s_totalLiquidity)

Deposit_BooksShares(caller, assets, receiver) ==
  /\ DepositAndMint(caller, receiver, assets, SharesDown(assets))
  /\ s_totalLiquidity' = s_totalLiquidity + SharesDown(assets)
  /\ UNCHANGED <<tradeX, s_openInterest>>

Deposit(caller, assets, receiver) ==
  /\ DepositAndMint(caller, receiver, assets, SharesDown(assets))
  /\ s_totalLiquidity' = s_totalLiquidity + assets
  /\ UNCHANGED <<tradeX, s_openInterest>>

\* The override drops what super.mint returns: its own result `assets' stays
\* 0 and the book is increased by 0.
Mint(caller, sh, receiver) ==
  /\ DepositAndMint(caller, receiver, AssetsUp(sh), sh)
  /\ UNCHANGED <<s_totalLiquidity, tradeX, s_openInterest>>

Withdraw(owner, assets, receiver) ==
  /\ PoolUtilizationOk(s_openInterest + assets)
  /\ assets <= AssetsDown(shares[owner])
  /\ BurnAndWithdraw(owner, receiver, assets, SharesUp(assets))
  /\ s_totalLiquidity' = s_totalLiquidity - assets
  /\ UNCHANGED <<tradeX, s_openInterest>>

\* As in mint, `assets' stays 0: the book keeps what was taken out, and
\* open interest is not consulted.
Redeem(owner, sh, receiver) ==
  /\ BurnAndWithdraw(owner, receiver, AssetsDown(sh), sh)
  /\ UNCHANGED <<s_totalLiquidity, tradeX, s_openInterest>>

\* transferOut, which TradeX calls to pay a trader and any account may call.
TransferOutOk(amount) ==
  /\ PoolUtilizationOk(amount)
  /\ CanMove(PoolContract, amount)
  /\ s_totalLiquidity >= amount

TransferOut(receiver, amount) ==
  /\ TransferOutOk(amount)
  /\ dai' = Moved(dai, PoolContract, receiver, amount)
  /\ s_totalLiquidity' = s_totalLiquidity - amount
  /\ UNCHANGED <<shares, totalSupply, tradeX, s_openInterest>>

\* transfer of TXC, inherited from ERC20.
ShareTransfer(from, to, sh) ==
  /\ shares[from] >= sh
  /\ shares' = Moved(shares, from, to, sh)
  /\ UNCHANGED <<dai, totalSupply, s_totalLiquidity, tradeX, s_openInterest>>

\* Both setters of the owner.  isInitialize is false from the constructor on
\* and never assigned, so _initialize can be called any number of times, as
\* updateTradeX can.
Initialize(addr) ==
  /\ tradeX' = addr
  /\ UNCHANGED <<dai, shares, totalSupply, s_totalLiquidity, s_openInterest>>

UpdateTradeX(addr) ==
  /\ tradeX' = addr
  /\ UNCHANGED <<dai, shares, totalSupply, s_totalLiquidity, s_openInterest>>

-----------------------------------------------------------------------------
(* The environment of the pool taken alone                                 *)

DaiArrives(from, contract, value) ==
  /\ DaiTransfer(from, contract, value)
  /\ UNCHANGED <<poolVars, s_openInterest>>

OpenInterestMoves ==
  /\ s_openInterest' \in OpenInterests
  /\ UNCHANGED <<dai, poolVars>>

ProviderStep ==
  \E u, r \in Providers, a \in PoolAmounts :
    \/ Deposit(u, a, r)
    \/ Mint(u, a, r)
    \/ Withdraw(u, a, r)
    \/ Redeem(u, a, r)
    \/ ShareTransfer(u, r, a)

PayoutStep == \E r \in Users, a \in PoolAmounts : TransferOut(r, a)

OwnerStep ==
  \E addr \in {NoTradeX, TradeXContract} : Initialize(addr) \/ UpdateTradeX(addr)

ArrivalStep ==
  \E u \in Users, c \in {PoolContract, TradeXContract}, a \in PoolAmounts :
    DaiArrives(u, c, a)

PoolNext ==
  \/ ProviderStep
  \/ PayoutStep
  \/ OwnerStep
  \/ ArrivalStep
  \/ OpenInterestMoves

PoolSpec == PoolInit /\ [][PoolNext]_pVars

-----------------------------------------------------------------------------
(* Properties                                                              *)

(* The shares in circulation are what totalSupply says: no path through    *)
(* the four overrides mints or burns shares without the supply following.  *)
SupplyIsSumOfShares == Total(shares) = totalSupply

(* Whoever enters or leaves the pool does so at a price no better than the *)
(* current one: a step that changes the supply of shares never lowers      *)
(* (assets + 1)/(supply + 1), so no provider is diluted by another.  This  *)
(* is what the rounding directions of the four conversions are for.        *)
NoDilution ==
  [][ totalSupply' # totalSupply =>
        (dai'[PoolContract] + 1) * (totalSupply + 1)
          >= (dai[PoolContract] + 1) * (totalSupply' + 1) ]_pVars

(* The book moves only with the pool's DAI and by the same amount; cash may*)
(* move without the book (mint, redeem, DAI that arrives uncalled), the    *)
(* book never without cash.                                                *)
BookMovesWithCash ==
  [][ s_totalLiquidity' # s_totalLiquidity =>
        s_totalLiquidity' - s_totalLiquidity
          = dai'[PoolContract] - dai[PoolContract] ]_pVars

(* Providers entering or leaving never push open interest over the         *)
(* utilization limit computed from the book; a limit that was respected    *)
(* is exceeded only by a payout or by TradeX itself.                       *)
ProvidersRespectUtilization ==
  [][ /\ totalSupply' # totalSupply
      /\ s_openInterest <= MaxUtilization(s_totalLiquidity)
      => s_openInterest' <= MaxUtilization(s_totalLiquidity') ]_pVars
=============================================================================
