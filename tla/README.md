# TradeX in TLA+

TradeX is a venue for leveraged positions on ETH, settled in DAI: two contracts,
a web page with a price proxy, and a Chainlink feed for the price. This
directory models the contracts with their token, the page's connection to the
wallet and its quotes, and the part of the vendored Chainlink node that answers
a feed's rounds; checks the models with TLC; and proves their safety
properties with TLAPS. Paths are relative to the repository's root, and

- `TX` is `src/tradeXContracts/src/TradeX.sol`, `LP` is `liquidityPool.sol` and
  `PF` is `Pricefeed.sol` beside it;
- `FM`, `PM`, `ORM` are `flux_monitor.go`, `poll_manager.go`, `orm.go` in
  `src/tradeXContracts/lib/chainlink/core/services/fluxmonitorv2/`, `BT` is
  `backoff_ticker.go` in `.../chainlink/core/utils/`, and `BC` is
  `broadcaster.go` in `.../chainlink/core/chains/evm/log/`;
- `CW` is `ConnectWallet.jsx` and `RB` is `RightBox.jsx` of the frontend.

## 1. Inventory

| Component | State | Operations | Depends on |
|---|---|---|---|
| `TradeX` (TX) | `positionMeta` (one record per account), `s_openInterest`, its DAI | `openPosition`, `increasePosition`, `updateCollateral`, `decreasePosition`, `decreaseCollateral`, `closePosition`, `liquidate` | DAI, feed, pool (`transferOut`, `getTotalLiquidity`) |
| `LiquidityPool` (LP) | ERC4626 shares (TXC) and supply, `s_totalLiquidity` (the book), the TradeX it asks, its DAI | `deposit`, `mint`, `withdraw`, `redeem`, `transferOut`, `_initialize`, `updateTradeX`, share transfers | DAI, TradeX (`getOpenInterest`, `getMaxUtilization`) |
| `Pricefeed` (PF) and the pure functions of TX | none | `getEthInUsd`, `convertEthToUsd`, `convertUsdToEth`, `calculateLeverage`, `calculateExitPrice`, `calculatePositionFee`, `getMaxUtilization` | feed |
| DAI (external ERC20) | balances, allowances | `transfer`, `transferFrom` | - |
| Chainlink feed (external) | the answer of the latest round | `latestRoundData` | the four rows below |
| `FluxAggregator` (vendored contract) | the rounds and what each oracle reported | `submit`, the round state it reports to oracles | oracles |
| Log broadcaster (vendored, BC with `registrations.go` and `pool.go`) | a pool of logs by block | with every head, sends the logs that are not consumed and drops the blocks that are too old | chain, database |
| `Flags` (vendored contract) | one flag per aggregator and one for all | `raiseFlag`, `lowerFlags` | - |
| Flux monitor (vendored Chainlink job) | database rows per round, consumed logs, backlog, timers, hibernation | logs `NewRound`, `AnswerUpdated`, `FlagRaised`, `FlagLowered`; polls by poll, idle, round, retry, drumbeat and hibernation timers | aggregator, `Flags`, log broadcaster, database, transaction manager |
| Price proxy (`src/tradeXBackend/index.js`) | none | one GET route | an external price service |
| Wallet connection (CW, `Store/`) | component: address, connected, modal, dropdown; store: address, connected, signer | connect, disconnect, `accountsChanged`, reload | browser wallet |
| Quote panel (RB) | inputs, price, leverage, exit price, fee | fetch the price, recompute the quotes | proxy, `TradeX` views, wallet |
| Deployment scripts, interfaces, static pages, the rest of the vendored libraries | - | - | - |

**Interaction.** The two contracts call each other synchronously inside one
transaction: TradeX reads the book to bound open interest and asks the pool to
pay profits; the pool reads open interest to bound withdrawals. A transaction is
atomic and one that reverts leaves no trace, so the concurrency on the chain is
the order of transactions of traders, providers, liquidators, the owner and the
feed. The page is a set of callbacks over two asynchronous sources, the wallet
and the proxy, whose answers overtake each other. The node's job is one
goroutine that serves logs and ticks, beside a chain that moves, a broadcaster
that repeats logs until they are marked consumed or their block is older than
the depth it keeps, and a process that may end between two writes.

**What is hard here.** Amounts owed to different traders are one balance of
TradeX, and the pool keeps a book beside its cash, by hand, in five functions.
Open interest is counted at the price of each call while positions are
re-marked at others. Handlers work on copies of a position read before they
wrote to it. Every division truncates, and the limits are compared with `>` in
one place and `>=` in another. On the page, a flag is toggled after requests
that may have failed, and quotes are recomputed only when the price differs.
In the node, the transaction is created outside of the database transaction
that records it, a late log looks like a reorganisation, and a ticker's `Stop`
may wait for the only goroutine that could let it go on. The `hazards` of
`PROJECT.json` list each at its line, with the properties that cover it.

**What makes each component correct.**

- *Pool*: supply is the sum of the shares; nobody enters or leaves at a price
  better than the current one; the book moves only with cash; providers do not
  withdraw what open positions rely on.
- *TradeX*: it is an escrow of its traders' collateral; a trader cannot gain by
  the mere act of calling; an accepted position has its maintenance margin;
  nobody's position disappears unpaid without cause; open interest follows the
  positions and stays within the limit; over-leveraged positions are cleared.
- *Arithmetic*: conversions lose little and never create value; the exit price
  is where the loss budget is spent; an accepted leverage is one for which the
  exit price exists.
- *Wallet connection*: what it shows, once the wallet is silent, is what the
  wallet gives; the two copies of the connection agree.
- *Quotes*: what a panel at rest shows belongs to the inputs and the price it
  shows, and a quote for an edit comes in the end.
- *Flux monitor*: a log is answered once and none is forgotten before it grows
  too old; the record counts what was submitted; a job with timers does not fall
  silent, and it hibernates exactly while it should.

## 2. Modules

| Module | Models |
|---|---|
| `Totals` | the sum of a function as a cardinality (no recursion, so that it can be proved about) |
| `TradeXMath` | PF and the pure functions of TX |
| `DaiLedger` | balances of DAI; when `transferFrom(address(this), ..)` succeeds |
| `LiquidityPool` | LP and the parts of OpenZeppelin's ERC4626/ERC20 it inherits |
| `TradeX` | TX composed with `LiquidityPool`, `DaiLedger` and the feed |
| `Escrow` | what TradeX promises about collateral; `TradeX` implements it |
| `PoolUpgrade` | two instances of `TradeX` on one pool, and the owner who replaces one by the other |
| `WalletConnect` | CW, the `wallet` slice of the store, and the wallet (external) |
| `QuotePanel` | RB, the proxy, and the wallet's calls of views (external) |
| `FluxMonitor` | logs, polls, database and submissions of the job, the rounds of the aggregator, and the broadcaster that sends their logs |
| `PollManager` | PM with its timers, BT, hibernation, the flag and its logs, and the goroutine `consume` |
| `ArithmeticCases` | `TradeXMath` over positions and prices |
| `MCLiquidityPool`, `MCTradeX`, `MCPoolUpgrade` | instances and bounds for TLC |
| `ArithmeticCases_proofs`, `LiquidityPool_proofs` (with the lemmas on `Totals`), `TradeX_proofs` (with those on `Escrow`), `PoolUpgrade_proofs`, `WalletConnect_proofs`, `QuotePanel_proofs`, `FluxMonitor_proofs`, `PollManager_proofs` | the proofs |

Definitions named `Operation_Fault` are variants of `Operation` with a
plausible mistake in them. No specification uses them: each is substituted for
its operation in a mutation run, to see that the property named with it in
`PROJECT.json` notices the difference.

### The contracts

The state of the model is the state of the contracts, under their names:
`positionMeta`, `s_openInterest`, `s_totalLiquidity`, `tradeX`, `totalSupply`,
`shares` (balances of TXC), `dai` (balances of DAI of all accounts) and
`answer` (what the feed would answer now).

Each external function is one action. Its conjuncts are the function's `revert`
conditions, every condition under which arithmetic or a callee reverts
(underflow, division by zero, insufficient balance, a negative answer of the
feed), and its writes, with internal calls expanded (`closePosition` deletes the
position, lowers open interest and pays, from the pool and from TradeX, in one
step; `decreasePosition` of the whole size and `decreaseCollateral` of the
whole collateral are `closePosition`). Operators that can revert come in pairs
such as `ExitPrice` and `ExitPriceOk`, the second true iff the first returns.

Kept on purpose, because the code does it:

- `mint` and `redeem` do not move the book (LP:53-68: the named result of the
  override is never assigned).
- `transferOut` has no check on its caller (LP:70). `DirectPayout` is any
  account calling it; `Payees` says for whom.
- `decreasePosition` settles the profit or loss of the *whole* position, and
  checks leverage and computes `LiqPrice` with the collateral read before a loss
  was deducted (TX:228-257).
- On closing at a loss the pool, not TradeX, pays what is left of the
  collateral, and TradeX keeps all of it (TX:311-315).
- `decreaseCollateral` sends no DAI to the trader (TX:274-300).
- `liquidate` reads no price (TX:333-336) and moves TradeX's own DAI with
  `transferFrom` (TX:339).
- After `updateTradeX` the earlier contract goes on serving its traders and is
  still paid by the pool, while withdrawals are bounded by the open interest of
  the new one alone. Both contracts are instances of the same module, on shared
  variables for DAI, shares and book. `Others` are the accounts of the ledger
  that call neither of an instance's two contracts: none but in `PoolUpgrade`,
  where each contract is such an account for the other.

Abstractions: amounts count units of `1/WAD`; the runs use
`LEVERAGE_PRECISION = 1`, `MAX_LEVERAGE = 20`, the ratio of the code (twenty
times, a maintenance share of 5%) with amounts small enough to enumerate, and
`WAD = 1`, except that `fixed_price` has `WAD = 4` with a feed scale of 2, where
an odd size does not convert without a remainder, and `arithmetic` scales at
which nothing comes out even.
`calculateExitPrice` multiplies by a literal 100, which is
`LEVERAGE_PRECISION`, and is modelled as that. Users approve the contracts for
what they spend; allowances decide an outcome only where TradeX spends its own
DAI, and there `SelfSpendNeedsAllowance` says which kind of token it is.
Allowances on shares are abstracted to "the caller is the owner or is allowed".
`uint256` overflow is left out: it needs amounts far beyond any supply of DAI.
Underflow is in every guard it can happen in. The feed's answer changes at any
time within `Answers`: TX reads neither timestamps nor rounds, so staleness
cannot be told from a price that stands.

### The page

`WalletConnect` has the component's `useState`s and the slice's fields as
variables, one action per click, and one per message of the wallet, which
arrive over one ordered stream (`inbox`). An `await` splits a handler in two:
`connectWithMetamask` sends the request, `Accepted` and `Refused` are what
follows it (the error is caught and logged, and the code goes on to toggle the
flag). A message is handled in one step together with the effect on
`[address]`, as React batches the updates of a callback. `lapses` is a history
variable: what went unlike a plain session since the page was loaded.

`QuotePanel` has the inputs, the price and the three quotes. A request is
counted in `asked` until the proxy answers, the answers are a bag, and each run
of the effect on `[ethPrice]` makes three calls one after the other, beside
other runs. A quote is the record of the run that set it, so "belongs to the
inputs shown" can be said without the arithmetic. `slips` is a history variable
of the four things that may leave the panel wrong.

### The price feed

`FluxMonitor` has the chain's side (`rounds`, with the state of a round merged
to open, answered or full; submission of other oracles; `Reorg`), the job's
database (`stats`, `consumed`), its memory (`backlog`, `task`) and the
transactions created so far. `HandleLog` is a head: the broadcaster sends every
log of its pool that is not consumed, block by block, and then deletes the
blocks below the latest minus `FinalityDepth`, or minus the confirmations asked
for if these are more (BC:564-573, 594-605). `tooOld` is up to where it has done
so. The depth is not counted: a head may delete any block it has sent, or none.
A reorganisation puts the new block's log in the pool again, and a node that
restarts reads the chain from the first log that is not consumed. `AnswerLog`
and `pollIfEligible` start a task, `Commit` and `CommitFails` end it:
`CreateEthTransaction` is outside of the database transaction (FM:1083), so a
failing commit may leave the transaction without its record. `Crash` drops the
memory and keeps the rest. `RowsAfterFailure` lists what the database holds if
one of the three calls before the run fails. `lost` and `declined` are history
variables.

`PollManager` has every timer as running or not, the drumbeat with its tick that
may wait, the retry ticker with its one-place channel and the goroutine that may
be blocked on it, and what `consume` is doing. A poll is taken, asks the
aggregator, and ends in one of the ways FM:814-1016 ends. Where `Stop` of the
retry ticker would wait for a goroutine that waits for `consume`, `consume`
becomes `Stuck` and the manager keeps what it had done before: `Hibernate` has
stored `isHibernating` and stopped every other timer by then (PM:219-231), so a
node that blocks there hibernates for good with its retry ticker running.

Every configuration the job's validation accepts is an initial state, the one
without poll ticker, idle timer and drumbeat included: such a job answers logs
and never polls by itself, so `SilentOnlyAfterGap` speaks of jobs that have one
of the three. The job may start under a raised flag; if that flag cannot be
read it starts awake (FM:295-308). A flag log takes the way of a `NewRound` log
through the broadcaster, with two differences. Several flips may lie in one
block (`joined`), and the logs of a block come out of a Go map in any order
(`SendOrders`). A log of a lowering that is ignored stays unconsumed, is sent
again with every head, and may be handled after later flips, until it is too
old. `gap` and `staleWake` are history variables.

Abstractions: time is not counted (a timer that runs may fire, and its tick
counts from when it is taken; FM reads each timer's channel of one place in the
same `select`); a restart delay of 0; transactions reach the chain in nonce
order and are not pruned; the value submitted is left out; each round starts in
a block of its own; a log is sent after its confirmations, which are at least
one (BC:258-261), and not before. Of the two flags the job looks at, the one for
all aggregators stays raised; the other's raisings and lowerings alternate and
each has one log. `FluxMonitor` allows a poll at any time, which covers whatever
`PollManager` does.

## 3. Runs

| Run | Module | Instance and bounds |
|---|---|---|
| `pool_safety` | `MCLiquidityPool` | two providers with 4 DAI, amounts 1 and 3, open interest between 0 and 2; `MaxSupply` 7, `MaxBook` 9 |
| `tradex_safety` | `MCTradeX` | two traders, a provider, two prices, sizes 1 and 2, five calls of traders |
| `tradex_pool` | `MCTradeX` | one trader, a provider that deposits, mints, withdraws and redeems, direct payouts, a feed that may answer -1, four calls |
| `fixed_price` | `MCTradeX` | two traders, one price, `WAD` 4 and a feed scale of 2 with sizes 2 and 4, a token that lets TradeX spend its own DAI, four calls, liquidators act |
| `arithmetic` | `ArithmeticCases` | 15,000 cases with `WAD = 10`, a feed scale of 3 and a leverage precision of 4, so that no division comes out even |
| `pool_upgrade` | `MCPoolUpgrade` | one trader with a position in each of two contracts, one provider, two prices, nine calls |
| `wallet_connect` | `WalletConnect` | two accounts, two unanswered requests of each kind, two lapses since the page was loaded, two messages under way when the user switches accounts |
| `quote_panel` | `QuotePanel` | two prices, two sizes, inputs that may be cleared, five edits |
| `flux_monitor` | `FluxMonitor` | three rounds beside a backlog of two, two transactions of the node, one crash, failing call or reorganisation; `MaxLoad` 6 on these together |
| `poll_manager` | `PollManager` | all configurations, three flips of the flag, one failing call about flags |

*Contracts.* In `pool_safety` the share price takes values from 1/4 up, so every
conversion rounds in both directions. In `MCTradeX` ETH is at 500 to 1100,
positions are of one to a few ETH and collateral around a tenth of the size, so
fees are at least 1, leverage comes close to and reaches the maximum, and one
price step is a profit or a loss comparable to the collateral (a short of 1 ETH
with collateral 110 loses 100). `MaxCalls` bounds the calls of traders because
every fee leads to balances not seen before; liquidations, price changes and
pool operations are not counted. Five calls are enough for two traders to open
and for one of them to be changed, closed or liquidated and to open again, and
for a position to go under water and be liquidated after `decreaseCollateral`.
In `tradex_pool` the pool holds 1000 at a time and the limit is 800, so one
position of 1 ETH (500 or 600) fits and a second one does not. In `fixed_price`,
`decreaseCollateral` by 59 leaves 50 behind 1000, exactly the maximal leverage,
which is how a position becomes liquidatable while the price stands. Nine calls
in `pool_upgrade` suffice to fund the pool, open in both contracts, replace one,
withdraw what the other's position relies on, and close.

*Page.* Two requests of a kind are what it takes for answers to be doubled, two
accounts for one to replace another; reloading clears the history, so sessions
of any length are explored. Five edits fill both inputs, start runs that overlap
and change the inputs behind them.

*Node.* Two rounds are what it takes for a log to be late for a newer row, and
three for the backlog, which holds two logs, to drop one that is still due; one
crash or reorganisation may fall between any two steps. In `MaxLoad` rounds,
reorganisations and faults count two each and a transaction one, so the run has
three rounds without a transaction, two rounds with two transactions or with one
trouble, and one round with one trouble and two transactions. Each question
needs no more than one of these: the backlog and the expiry of logs the first,
late logs, rewinds and repeated answers the second, failing and repeated commits
the third. Three flips raise the flag, lower it and raise it again, so that the
log of the lowering may be handled under the later raising; the job may have
started before or after the first, and the three logs are one more than the
backlog holds.

What they show:

- `pool_safety`: supply is the sum of shares; nothing dilutes; the book moves
  with cash (it does not always follow it: see below); no provider's step takes
  open interest over the limit.
- `tradex_safety`: TradeX implements `Escrow`, so a payment never touches
  another's collateral; no trader gains by calling; a position gets beyond the
  maximal leverage only by a decrease, or by paying for one that has lost its
  whole collateral, and what else is liquidatable is exactly at the maximum;
  nobody is deleted unpaid
  without cause; the margin is lost, and `LiqPrice` stale, only by a partial
  decrease at a loss; a position that has lost more than its collateral ends
  only as over-leveraged by its recorded size, never because of its loss.
- `tradex_pool`: how open interest moves; only payouts take it over the limit;
  only payouts lower the price of a share.
- `fixed_price`: with sizes that convert without a remainder (in the code,
  multiples of 1e8 wei) open interest is the sum of the recorded sizes, and
  over-leverage is cleared. The first is why the second can hold: no
  liquidation fails on `s_openInterest -= sizeInUsd`. With other sizes each call
  may lose one unit, of 1e-18 USD (`TradeXOpenInterestDrift`).
- `arithmetic`: conversions, exit price and leverage check fit together, for
  longs and for shorts.
- `pool_upgrade`: both contracts stay backed whichever is set; the one that is
  replaced loses the protection of its open interest against withdrawals, and
  that is all it loses.
- `wallet_connect`: the button never slices a missing address; what is shown and
  stored is what the wallet gives once it is silent; a plain session keeps the
  two copies of the flag together; a single refused request puts the store's
  flag out of step for the rest of the session (`RefusalSticks`).
- `quote_panel`: a panel at rest is wrong only after one of four slips (a request
  left unanswered, a price that came back unchanged for other inputs, a rejected
  call, an earlier run that wrote over the newest), and quotes come unless one
  of these happens.
- `flux_monitor`: a log is answered once by a recorded transaction and never
  forgotten; the record counts; a poll repeats a submission only where the
  record is missing; every log on the chain is dealt with, although the backlog
  drops some, unless it grows too old first.
- `poll_manager`: hibernation is quiet; a job with a timer falls silent, stays
  awake under a raised flag, or stops for good only in the ways the properties
  name; a lowered flag wakes it unless it is stuck or the log grew too old.

Symmetry between traders (or providers) is used in safety runs only. The
deadlock check is off in two configurations: in `flux_monitor` rounds and
transactions are bounded, and the chain may come to rest; in `poll_manager` the
job may really stop (`StuckOnlyByUnservedTicks` says when).

### Runs that end in a violation

Each checks one statement that a test or a comment of the repository makes.

| Run | Statement | What the code does |
|---|---|---|
| `flat_interest` | no positions, no open interest (assertions after closing in `test/tradeX.t.sol`) | a partial decrease after a price move subtracts at the new price what was added at the old, and re-marks the rest |
| `no_allowance` | `under_leverage()` is the one reason to refuse a liquidation, and the caller is paid 10% of the collateral (TX:335, TX:43) | with the ERC20 of the test deployment `liquidate` always reverts, as TradeX never approves itself |

Other disagreements between the code and what is said of it, which the
models contain and no run of their own shows:

- `mint` and `redeem` leave the book as it was, so it is not what providers put in.
- After a partial decrease at a loss `LiqPrice` belongs to the collateral before
  the loss; `LiqPriceStaleOnlyByLoss` has this as its one exception.
- A partial decrease may take exactly the collateral and leave an open position
  without any, for which later calls revert with `Position_never_opened()`.
- At exactly the maximal leverage a position passes `decreaseCollateral` and
  `increasePosition`, and `liquidate` too.
- Closing charges no fee, while TX:44 says 0.1% whenever the position changes.
- A loss on closing does not add to the pool: the pool pays the rest of the
  collateral and TradeX keeps all of it.
- Flux monitor: the record of a round is lost without a reorganisation when a
  poll for the next round overtakes its late log, whose row then counts as a
  rewind (FM:671); and a round may be answered twice, by a poll and then by the
  `NewRound` log of another oracle, since runs are inserted finished and the
  comment at FM:636-637 relies on unfinished ones.
- `LiqPrice` of a short is computed as that of a long (TX:138, 403-411): below
  the price by what a long could lose, it is where a short has *gained* its loss
  budget, which is what `ExitPriceSpendsLossBudget` says of it.
- Poll manager: two retry ticks that wait make `Stop` wait for ever (BT:61-73
  and 84-92), and if that is in `Hibernate` the node also counts as hibernating
  for ever (PM:223, 231); an idle poll cut short, or failing in its result but
  not in `err`, leaves no timer (FM:837-863, 889-901); waking in an old round
  stops the idle timer that PM:76-77 says prevents starvation; a `FlagLowered`
  log that is ignored while awake is not consumed and, until it is too old, wakes
  a later hibernation (FM:535-540); a failing read of a raised flag consumes the log
  without hibernating (FM:557-561).

### Fairness

- `fixed_price`, `no_allowance`: weak fairness, per trader, of "some account
  liquidates". Anybody may call `liquidate` at any time and the reward makes it
  worth the call; nothing is assumed of traders, providers, the owner or the
  feed. Weak fairness suffices because an over-leveraged position stays
  liquidatable until somebody acts on it: leverage is computed from recorded
  values, which no price moves. Both runs keep the price fixed. With a moving
  one, open interest may drift below the recorded size (`flat_interest`), and
  then `s_openInterest -= sizeInUsd` makes closing and liquidating revert.
- `quote_panel`: the price service ends every lookup with an answer or an error,
  what the proxy sends arrives, the wallet ends every call: weak fairness of
  `ProxyStep`, `PageReceives`, `WalletStep`. That an error leaves the caller
  without an answer is part of `ProxyStep`. The user need not edit.
- `flux_monitor`, `poll_manager`: heads keep coming and bring the logs that are
  not consumed and not too old (weak fairness of `HandleLog`, whose guard is that
  the pool has such a log), and a run or poll ends (weak fairness of the steps
  that end it). A log that grew too old is an exception in both liveness
  properties, and so is the node that is stuck in the second: nothing makes
  either good again. Go's `select` picks at random among the
  channels that are ready, so it does not pass over the logs for ever although
  polls may take their turn in between: strong fairness of `processBroadcast`.
  Nothing is assumed of timers, of the chain or of the flag.
- `tradex_safety`, `tradex_pool`, `pool_safety`, `pool_upgrade`,
  `wallet_connect` and `arithmetic` assume none.

## 4. Proofs

`tlapm` checks every theorem for all values of the constants, given the
assumptions each module names (`LedgerAssumption`, `MathAssumption`,
`PoolAssumption`, `TradeXAssumption`, `UpgradeAssumption`,
`AccountAssumption`, `BoundsAreNaturals`, `BoundIsNatural`): accounts are
distinct, amounts are natural numbers, scale factors and limits are positive,
bounds are natural numbers. Nothing is assumed of prices (they may be negative),
of the number of users, traders or wallet accounts, or of the token. Theorems
that need more (`ExactSizes`, the kind of token) say so in their `ASSUME`.

| Theorem | States |
|---|---|
| `RoundTripCorrect`, `ExitPriceCorrect`, `LeverageCheckCorrect` | the arithmetic, for any position, long or short, any price and scale |
| `PoolTypeCorrect`, `SupplyCorrect` | the pool's types; supply is the sum of shares |
| `PoolNoDilution`, `PoolBookMovesWithCash`, `PoolProvidersRespectUtilization` | the pool's action properties |
| `TradeXTypeCorrect`, `TradeXPositionShape`, `TradeXSupplyCorrect`, `TradeXCollateralBacked` | invariants of the composed system |
| `TradeXImplementsEscrow`, `EscrowSolvent` | TradeX implements the escrow; an escrow can pay everybody |
| `TradeXSurplusKept` | TradeX only ever pays out the collateral of the position that goes |
| `TradeXOpenInterestFollows`, `TradeXLimitKept` | how open interest moves |
| `TradeXOpenInterestExact`, `TradeXOpenInterestDrift` | open interest while the price stands: exact for exact sizes, a unit per call otherwise |
| `TradeXSharePriceKept` | the value of a share |
| `TradeXMarginKept`, `TradeXLiqPriceKept`, `TradeXUnderwaterEnds`, `TradeXNoUnpaidDeletion` | margin, liquidation price and end of positions |
| `TradeXNoFreeGain` | no call makes a trader richer, for any scale |
| `TradeXLimitOfLeverage` | what can take a position to the maximal leverage, and beyond |
| `TradeXLiquidationGoesThrough`, `TradeXNeverLiquidates` | when `liquidate` can revert, with either kind of token |
| `UpgradeTypeCorrect`, `UpgradeBothBacked`, `UpgradeReplacedLosesProtection` | two contracts on one pool |
| `WalletButtonHasAddress`, `WalletShowsGranted`, `WalletStoreGranted` | the address the page shows and stores |
| `WalletPlainSessionAgrees`, `WalletRefusalSticks` | the two copies of the connection |
| `QuotesRestCurrent`, `QuoteTypeCorrect` | the quotes of a panel at rest |
| `FluxLogAnsweredOnce`, `FluxNoLogForgotten`, `FluxPollRepeats`, `FluxRecordCounts` | logs, submissions and their record |
| `PollHibernationIsQuiet`, `PollStuckOnlyByUnservedTicks`, `PollSilentOnlyAfterGap`, `PollAwakeUnderRaisedFlag` | timers and hibernation |

**Sums.** Collateral, shares and sizes of all owners are summed by counting:
`Units(f)` has one pair per unit and owner, `Total(f)` is its cardinality.
Lemmas at the head of `LiquidityPool_proofs` derive from the library's theorems
on finite sets what an update and a move do to a total, so no induction over
owners is needed. That is also why the invariants carry `IsFiniteSet(Units(..))`:
the cardinality of an infinite set says nothing, and the set of users may itself
be infinite, as long as those who own something are finitely many.

**Arithmetic.** A quotient is named as an unknown between the two bounds that
division gives, and products of it are compared; no case is enumerated. The exit
price of a long is the price at which its loss meets the budget, up to one
rounding per unit of ETH. TX computes it for a short by the same formula, so
there the theorem says what that price is worth to the short: a profit within
the same bounds.

**Pool.** `PoolInv` is `PoolTypeOK`, `SupplyIsSumOfShares` and that finiteness.
The type alone is not inductive: burning `sh` shares lowers the supply, which
stays natural because the owner's shares are part of the sum. One lemma per
operation shows that it is kept. `PoolNoDilution` comes from what the rounding
of the conversions guarantees (`Conversions`) and two inequalities on a ratio
(`EnterKeepsPrice`, `LeaveKeepsPrice`).

**TradeX.** `TradeXInv` adds the types of positions and answer, the shape of
every position and `CollateralBacked`. Each depends on another: a handler can
only be trusted to compute an exit price because an open position has a size;
a deletion leaves the collateral of others backed because the sum of the
collateral counts the one deleted. Each handler touches one position.
`TradeEffect(t, q)` states everything the properties need to know of a step that
turns trader `t`'s position into `q`: what TradeX and the pool hold afterwards,
how open interest and the book move, whether the margin and `LiqPrice` are kept
and whether a deletion is paid. There is one lemma per handler that it has this
effect; the invariant, the action properties and the steps of the refinement are
then proved from the effect, and from the pool's lemmas for the pool's steps,
without looking at a handler again.

**Gain.** `NoFreeGain` compares what a trader owns at the price of the call
before and after (`Worth`). Nobody but the caller is touched, besides the two
contracts (`TraderStepMoves`, `TraderStepTouches`), so one lemma per handler
about its caller is enough. Opening, collateral and closing lose the fee or
nothing at any scale. `increasePosition` adds two truncated conversions that a
later call makes as one, which may be one unit more (`ConvertSum`);
`RoundingUnit` is that unit, and 0 if conversions are exact. A liquidation is
exempt in the property, and `LiquidationShows` proves that what exempts it, DAI
that flows from TradeX to the pool, holds of each one.

**Leverage.** `LimitPassedOnlyByDecrease` is proved handler by handler; only
`updateCollateral` needs an argument, that leverage falls as collateral grows in
spite of the truncation. `TradeXSurplusKept` is no property of a run: a step of
the escrow implies it, so `ImplementsEscrow` checks it.

**Liquidation.** What keeps `OverLeverageIsCleared` from being a theorem is the
leads-to; what can be proved of it is. `TradeXLiquidationGoesThrough`: while the
price stands and sizes are exact, nothing but the leverage can make `liquidate`
revert, as no trader's collateral exceeds what TradeX holds (from the sum of the
collateral) and no size exceeds open interest (from the sum of the sizes).
`TradeXNeverLiquidates` is the other half: with a token that checks the
allowance of the spender, no liquidation happens at all, at any price, which is
what the run `no_allowance` shows of one instance.

**Two contracts.** `PoolUpgrade_proofs` has two instances of `TradeX_proofs`, one
per contract, and takes over its lemmas for each. `UpgradeInv` is `TradeXInv` of
both at once: a step of one contract is a step of `TradeX` there, and for the
other it must be one that leaves its DAI and positions alone and keeps the pool
sound (`BystanderInv`). That needs what a call does to the DAI of accounts that
are not part of it (`TraderStepMoves`, `LiquidationStepMoves`,
`ProviderStepMoves`). `AskedFor` hides from each instance which of the two is set.

**Refinement.** `ImplementsEscrow` maps `held` to TradeX's DAI and `owed` to the
recorded collateral. A call is `Keep` or `Release` of its trader, a step of the
pool or a transfer to TradeX is `Arrive` or a stutter. `EscrowSolvent`, proved of
the abstract specification alone, gives `CollateralBacked` a second time.

**Standing price.** These theorems assume that the answer does not change, and
`TradeXOpenInterestExact` also `ExactSizes`: every size a trader names converts
to USD without a remainder. That is an assumption about inputs and not about the
scale, which is any; at the code's scales it is "multiples of 1e8 wei". The
strengthening `FixedPriceInv` says that every recorded size is the value of the
position's ETH at that price and that this ETH converts exactly (`Marked`), so
what a partial decrease takes off open interest is what it takes off the
position. `SizeChange` gathers the three ways in which a call changes a size
(bought, marked again after a sale, or gone), with one lemma per handler.
Without exact sizes these round apart, and `TradeXOpenInterestDrift` says by how
much: no recorded size exceeds the value of its position (`AtFixedPrice`), and
one call takes open interest at most one unit further below the sum of the
values. So what a close or a liquidation can lack of open interest is bounded
by the number of calls, in units of 1e-18 USD. With a price that moves there is
no such bound (`flat_interest`).

**Wallet.** The theorems hold for every value of `MaxRequests`, `MaxLapses` and
`MaxMessages`, the bounds the specification has on requests, lapses and messages
under way. `WalletInv` says
of the last message that sets an address that it carries the account now given,
and, while no such message is under way, that the address itself is that account
or none. The same holds of the store, with "revoked" as one more message that
sets it, and needs that the store's address is the component's or none: the
component does not pass on an account it shows already.

Whether the two flags agree depends on the parity of the messages under way that
toggle the store's. Counting them would be an induction over the sequence;
`CalmInv` foresees them instead: two sets of places `On` and `Con` exist that
say after which message the store's flag, and the component's, will be up, each
place following from the one before by what the handler of that message does
(`Steps`). A message that arrives adds a place, one that is handled drops the
first, and when none is left both flags are known. A refused request leaves the
flag upside down, so in a session with one `On` speaks of the flag as it would be
without it, and nothing turns it back (`RefusalSticks`). `StoreInv` ties the two
addresses: in a plain session a store that was emptied before its page is so by
a loss of the account whose event is the next message.

**Quote panel.** `RestInv` has two parts beside the types. Until a call of the
newest run is rejected or another run writes over one of its quotes, every quote
is of the newest run or that run is in flight and has still to set it
(`NewestArrives`). With no request and no answer under way, the newest run is of
the price and inputs shown, unless a request was left unanswered or the price
came back unchanged (`NewestIsCurrent`): an edit that leaves the inputs complete
asks again. Neither needs the order of runs or how many are in flight.

**Flux monitor.** `FluxInv` adds to the properties that a log being answered is not
consumed, that a poll that runs is for a round without a record, and that a
recorded answer has its row. `CountInv` adds the count: the row is what the
cardinality of the recorded submissions is, and what a rewind drops is in `lost`.

**Poll manager.** `PollInv` says of the manager, for each configuration, which
timers may be off (`ManagerInv`, `Sound`, `Quiet`, `Waning`), and of `consume`
what it can be doing while the node hibernates. Each operation of PM has a
lemma of what it does to the timers; that of `Hibernate` is in two parts, as the
node may be stopped between them (`QuietenFacts`, `CaughtFacts`), where it is
quiet but for the retry ticker. `FlagInv` is about the flag: which flips the
logs that wait, are served or are consumed belong to, in whatever order they are
sent (`SendOrderIsSeq`, `AddIsSeq`), and that only a log of a lowering is served
by a poll.

**Model-checked only.** The liveness properties `OverLeverageIsCleared`,
`EditsAreQuoted`, `LogsAreHandled` and `LoweredFlagWakes`: liveness under
fairness is beyond this prover, and so is `ENABLED`. The same holds of induction
over data and of `RECURSIVE` operators; no module uses either. All other
properties of the passing runs are theorems.

## 5. Not modelled

- `calculateBorrowingFee`: no function calls it. Events, names, and the views
  that only return state.
- Allowances on shares, `uint256` overflow, reentrancy (DAI calls nobody back).
- Deployment scripts: straight-line; what they establish is `Init`.
- Interfaces, and pages and widgets that only render.
- Of the quote panel: the label of the button and the long/short toggle, which no
  quote reads.
- Of the aggregator: payments, administration, requesters, medians. Of the flux
  monitor: the value (deviation check, pipeline tasks, decimals), closing the
  job, the transaction manager behind `CreateEthTransaction`, the second read of
  the round state that a drumbeat's poll makes, and the pruning of old pipeline
  runs and queued transactions.
- The rest of the vendored Chainlink repository (OCR, VRF, keepers, functions,
  generated contract wrappers, and so on), OpenZeppelin beyond the functions the
  contracts inherit, and forge-std. They are most of the repository's lines and
  no part of TradeX: what is modelled of Chainlink is what produces an answer
  that TradeX reads.

## 6. Plan

Done: the contracts with their runs and proofs; the escrow and its refinement;
the standing price, at every scale; positions under water; two contracts on one
pool; wallet, proxy and quotes; the flux monitor with its records, timers and
hibernation; all of their safety properties proved.

Left, in the order of what it would add:

1. An abstract specification of an oracle's answers (each round at most once),
   which the flux monitor implements outside of the two cases of section 3.
2. Conservation: the DAI of all accounts together never changes, and the pool's
   claims and TradeX's obligations within it.
4. The value that the flux monitor submits, and the medians of the aggregator.
