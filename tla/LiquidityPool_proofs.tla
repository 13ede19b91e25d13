------------------------ MODULE LiquidityPool_proofs ------------------------
(***************************************************************************)
(* Proofs about LiquidityPool, for every set of users and providers and    *)
(* every choice of amounts.  The lemmas on single steps are stated for the *)
(* operators ProviderStep, TransferOut, ... so that TradeX_proofs can use  *)
(* them for the same steps of the composed system.                         *)
(***************************************************************************)
EXTENDS LiquidityPool, FiniteSetTheorems, TLAPS

-----------------------------------------------------------------------------
(* What Total does when one or two of the summands change.  No assumption  *)
(* on the set of owners is needed: only finitely many units exist at any   *)
(* time.                                                                   *)

(* The units of one owner are as many as its amount.                       *)
LEMMA UnitsOfCardinality ==
  ASSUME NEW x, NEW n \in Nat
  PROVE  IsFiniteSet(UnitsOf(x, n)) /\ Cardinality(UnitsOf(x, n)) = n
<1>1. IsFiniteSet({x}) /\ Cardinality({x}) = 1
  BY FS_Singleton
<1>2. IsFiniteSet(1 .. n) /\ Cardinality(1 .. n) = n
  BY FS_Interval
<1>3. IsFiniteSet({x} \X (1 .. n))
      /\ Cardinality({x} \X (1 .. n)) = Cardinality({x}) * Cardinality(1 .. n)
  BY <1>1, <1>2, FS_Product
<1> QED  BY <1>1, <1>2, <1>3 DEF UnitsOf

(* All amounts zero: no units.                                             *)
LEMMA TotalZero ==
  ASSUME NEW f, \A x \in DOMAIN f : f[x] = 0
  PROVE  IsFiniteSet(Units(f)) /\ Total(f) = 0
<1>1. \A x \in DOMAIN f : UnitsOf(x, f[x]) = {}
  BY DEF UnitsOf
<1>2. Units(f) = {}
  BY <1>1 DEF Units
<1> QED  BY <1>2, FS_EmptySet DEF Total

(* Nobody owns more than the total.                                        *)
LEMMA TotalBoundsEach ==
  ASSUME NEW f, NEW a \in DOMAIN f, f[a] \in Nat, IsFiniteSet(Units(f))
  PROVE  f[a] <= Total(f) /\ Total(f) \in Nat
<1>1. UnitsOf(a, f[a]) \in SUBSET Units(f)
  BY DEF Units
<1>2. Cardinality(UnitsOf(a, f[a])) <= Cardinality(Units(f))
  BY <1>1, FS_Subset
<1>3. Cardinality(Units(f)) \in Nat
  BY FS_CardinalityType
<1> QED  BY <1>2, <1>3, UnitsOfCardinality DEF Total

(* One amount changes: the total changes by as much.                       *)
LEMMA TotalUpdate ==
  ASSUME NEW f, NEW g, NEW a \in DOMAIN f,
         DOMAIN g = DOMAIN f,
         \A x \in DOMAIN f : x # a => g[x] = f[x],
         f[a] \in Nat, g[a] \in Nat,
         IsFiniteSet(Units(f))
  PROVE  /\ IsFiniteSet(Units(g))
         /\ Total(f) \in Nat
         /\ Total(g) \in Nat
         /\ Total(g) = Total(f) - f[a] + g[a]
<1> DEFINE Rest == Units(f) \ UnitsOf(a, f[a])
<1>1. UnitsOf(a, f[a]) \subseteq Units(f)
  BY DEF Units
<1>2. Units(f) = Rest \cup UnitsOf(a, f[a])
  BY <1>1
<1>3. Rest = UNION {UnitsOf(x, f[x]) : x \in DOMAIN f \ {a}}
  BY DEF Units, UnitsOf
<1>4. Units(g) = Rest \cup UnitsOf(a, g[a])
  <2>1. Units(g) = (UNION {UnitsOf(x, g[x]) : x \in DOMAIN f \ {a}}) \cup UnitsOf(a, g[a])
    BY DEF Units
  <2>2. UNION {UnitsOf(x, g[x]) : x \in DOMAIN f \ {a}}
          = UNION {UnitsOf(x, f[x]) : x \in DOMAIN f \ {a}}
    OBVIOUS
  <2> QED  BY <2>1, <2>2, <1>3
<1>5. Rest \cap UnitsOf(a, f[a]) = {} /\ Rest \cap UnitsOf(a, g[a]) = {}
  BY <1>3 DEF UnitsOf
<1> HIDE DEF Rest
<1>6. IsFiniteSet(Rest)
  BY <1>2, FS_Subset
<1>7. Cardinality(Rest) \in Nat
  BY <1>6, FS_CardinalityType
<1>8. ASSUME NEW n \in Nat, Rest \cap UnitsOf(a, n) = {}
      PROVE  /\ IsFiniteSet(Rest \cup UnitsOf(a, n))
             /\ Cardinality(Rest \cup UnitsOf(a, n)) = Cardinality(Rest) + n
  <2>1. IsFiniteSet(UnitsOf(a, n)) /\ Cardinality(UnitsOf(a, n)) = n
    BY UnitsOfCardinality
  <2>2. /\ IsFiniteSet(Rest \cup UnitsOf(a, n))
        /\ Cardinality(Rest \cup UnitsOf(a, n))
             = Cardinality(Rest) + Cardinality(UnitsOf(a, n)) - Cardinality(Rest \cap UnitsOf(a, n))
    BY <1>6, <2>1, FS_Union
  <2>3. Cardinality(Rest \cap UnitsOf(a, n)) = 0
    BY <1>8, FS_EmptySet
  <2> QED  BY <1>7, <2>1, <2>2, <2>3
<1>9. Total(f) = Cardinality(Rest) + f[a]
  BY <1>2, <1>5, <1>8 DEF Total
<1>10. IsFiniteSet(Units(g)) /\ Total(g) = Cardinality(Rest) + g[a]
  BY <1>4, <1>5, <1>8 DEF Total
<1> QED  BY <1>7, <1>9, <1>10

(* An amount moves from one owner to another, h being the amounts in       *)
(* between: the total stays.                                               *)
LEMMA TotalMove ==
  ASSUME NEW S, NEW f \in [S -> Nat], NEW h \in [S -> Nat], NEW g \in [S -> Nat],
         NEW a \in S, NEW b \in S, NEW v \in Nat,
         h[a] = f[a] - v, \A x \in S : x # a => h[x] = f[x],
         g[b] = h[b] + v, \A x \in S : x # b => g[x] = h[x],
         IsFiniteSet(Units(f))
  PROVE  IsFiniteSet(Units(g)) /\ Total(g) = Total(f)
<1>1. DOMAIN f = S /\ DOMAIN h = S /\ DOMAIN g = S
      /\ f[a] \in Nat /\ h[a] \in Nat /\ h[b] \in Nat /\ g[b] \in Nat
  OBVIOUS
<1>2. IsFiniteSet(Units(h)) /\ Total(h) \in Nat /\ Total(f) \in Nat
      /\ Total(h) = Total(f) - f[a] + h[a]
  BY <1>1, TotalUpdate
<1>3. IsFiniteSet(Units(g)) /\ Total(g) \in Nat
      /\ Total(g) = Total(h) - h[b] + g[b]
  BY <1>1, <1>2, TotalUpdate
<1> QED  BY <1>1, <1>2, <1>3

-----------------------------------------------------------------------------
(* Arithmetic                                                              *)

(* What integer division returns.                                          *)
LEMMA DivBounds ==
  ASSUME NEW n \in Nat, NEW d \in Nat \ {0}
  PROVE  /\ n \div d \in Nat
         /\ d * (n \div d) <= n
         /\ n < d * (n \div d) + d
OBVIOUS

(* Division rounded up is a natural number and covers its dividend.        *)
LEMMA CeilDivBounds ==
  ASSUME NEW n \in Nat, NEW d \in Nat \ {0}
  PROVE  CeilDiv(n, d) \in Nat /\ n <= d * CeilDiv(n, d)
<1>1. n + d - 1 \in Nat
  OBVIOUS
<1>2. (n + d - 1) < d * ((n + d - 1) \div d) + d /\ (n + d - 1) \div d \in Nat
  BY <1>1, DivBounds
<1>3. d * ((n + d - 1) \div d) \in Nat
  BY <1>2
<1> QED  BY <1>2, <1>3 DEF CeilDiv

(* The product of naturals is a natural.                                   *)
LEMMA ProductNat ==
  ASSUME NEW a \in Nat, NEW b \in Nat
  PROVE  a * b \in Nat
OBVIOUS

(* The utilization limit is at most the book.                              *)
LEMMA MaxUtilizationBound ==
  ASSUME NEW l \in Nat
  PROVE  MaxUtilization(l) \in Nat /\ MaxUtilization(l) <= l
BY DEF MaxUtilization

(* It grows with the book.                                                 *)
LEMMA MaxUtilizationGrows ==
  ASSUME NEW l \in Nat, NEW m \in Nat, l <= m
  PROVE  MaxUtilization(l) <= MaxUtilization(m)
BY DEF MaxUtilization

(* A covered transfer keeps balances natural, and touches the two accounts *)
(* only.                                                                   *)
LEMMA MovedBalances ==
  ASSUME NEW f \in [Accounts -> Nat], NEW a \in Accounts, NEW b \in Accounts,
         NEW v \in Nat, f[a] >= v
  PROVE  /\ Moved(f, a, b, v) \in [Accounts -> Nat]
         /\ \A x \in Accounts : x # a /\ x # b => Moved(f, a, b, v)[x] = f[x]
         /\ a # b => /\ Moved(f, a, b, v)[a] = f[a] - v
                     /\ Moved(f, a, b, v)[b] = f[b] + v
BY DEF Moved

-----------------------------------------------------------------------------
(* The invariant: types, and the supply of shares as the sum of what the   *)
(* users hold, without which burning could leave a negative supply.        *)

PoolInv ==
  /\ PoolTypeOK
  /\ IsFiniteSet(Units(shares))
  /\ SupplyIsSumOfShares

(* The conversions of the pool return amounts, and round against the       *)
(* caller.                                                                 *)
LEMMA Conversions ==
  ASSUME PoolTypeOK, NEW n \in Nat
  PROVE  /\ SharesDown(n) \in Nat
         /\ SharesUp(n) \in Nat
         /\ AssetsDown(n) \in Nat
         /\ AssetsUp(n) \in Nat
         /\ (TotalAssets + 1) * SharesDown(n) <= n * (totalSupply + 1)
         /\ n * (totalSupply + 1) <= (TotalAssets + 1) * SharesUp(n)
         /\ (totalSupply + 1) * AssetsDown(n) <= n * (TotalAssets + 1)
         /\ n * (TotalAssets + 1) <= (totalSupply + 1) * AssetsUp(n)
<1>1. TotalAssets \in Nat /\ totalSupply \in Nat
  BY LedgerAssumption DEF PoolTypeOK, LedgerTypeOK, Accounts, TotalAssets
<1>2. TotalAssets + 1 \in Nat \ {0} /\ totalSupply + 1 \in Nat \ {0}
  BY <1>1
<1>3. n * (totalSupply + 1) \in Nat /\ n * (TotalAssets + 1) \in Nat
  BY <1>2, ProductNat
<1> QED
  BY <1>2, <1>3, DivBounds, CeilDivBounds DEF SharesDown, SharesUp, AssetsDown, AssetsUp

(* DAI in, shares out: the invariant survives.                             *)
LEMMA DepositAndMintInv ==
  ASSUME PoolInv, NEW caller \in Users, NEW receiver \in Users,
         NEW assets \in Nat, NEW sh \in Nat,
         DepositAndMint(caller, receiver, assets, sh)
  PROVE  /\ LedgerTypeOK'
         /\ (shares \in [Users -> Nat])'
         /\ (totalSupply \in Nat)'
         /\ IsFiniteSet(Units(shares))'
         /\ SupplyIsSumOfShares'
<1>1. LedgerTypeOK'
  BY LedgerAssumption, MovedBalances
     DEF PoolInv, PoolTypeOK, LedgerTypeOK, DepositAndMint, CanMove, Accounts
<1>2. /\ shares \in [Users -> Nat]
      /\ shares' = [shares EXCEPT ![receiver] = @ + sh]
      /\ totalSupply' = totalSupply + sh
      /\ Total(shares) = totalSupply
      /\ totalSupply \in Nat
  BY DEF PoolInv, PoolTypeOK, DepositAndMint, SupplyIsSumOfShares
<1>3. /\ shares' \in [Users -> Nat]
      /\ shares'[receiver] = shares[receiver] + sh
      /\ \A u \in Users : u # receiver => shares'[u] = shares[u]
  BY <1>2
<1>4. DOMAIN shares = Users /\ DOMAIN shares' = Users /\ shares[receiver] \in Nat
      /\ shares'[receiver] \in Nat /\ IsFiniteSet(Units(shares))
  BY <1>2, <1>3 DEF PoolInv
<1>5. /\ IsFiniteSet(Units(shares'))
      /\ Total(shares') = Total(shares) - shares[receiver] + shares'[receiver]
  BY <1>3, <1>4, TotalUpdate
<1> QED
  BY <1>1, <1>2, <1>3, <1>4, <1>5 DEF SupplyIsSumOfShares

(* Shares burnt, DAI out: the invariant survives.                          *)
LEMMA BurnAndWithdrawInv ==
  ASSUME PoolInv, NEW owner \in Users, NEW receiver \in Users,
         NEW assets \in Nat, NEW sh \in Nat,
         BurnAndWithdraw(owner, receiver, assets, sh)
  PROVE  /\ LedgerTypeOK'
         /\ (shares \in [Users -> Nat])'
         /\ (totalSupply \in Nat)'
         /\ IsFiniteSet(Units(shares))'
         /\ SupplyIsSumOfShares'
<1>1. LedgerTypeOK'
  BY LedgerAssumption, MovedBalances
     DEF PoolInv, PoolTypeOK, LedgerTypeOK, BurnAndWithdraw, CanMove, Accounts
<1>2. /\ shares \in [Users -> Nat]
      /\ shares[owner] >= sh
      /\ shares' = [shares EXCEPT ![owner] = @ - sh]
      /\ totalSupply' = totalSupply - sh
      /\ Total(shares) = totalSupply
      /\ totalSupply \in Nat
  BY DEF PoolInv, PoolTypeOK, BurnAndWithdraw, SupplyIsSumOfShares
<1>3. /\ shares' \in [Users -> Nat]
      /\ shares'[owner] = shares[owner] - sh
      /\ \A u \in Users : u # owner => shares'[u] = shares[u]
  BY <1>2
<1>4. DOMAIN shares = Users /\ DOMAIN shares' = Users /\ shares[owner] \in Nat
      /\ shares'[owner] \in Nat /\ IsFiniteSet(Units(shares))
  BY <1>2, <1>3 DEF PoolInv
<1>5. /\ IsFiniteSet(Units(shares'))
      /\ Total(shares') = Total(shares) - shares[owner] + shares'[owner]
      /\ Total(shares') \in Nat
  BY <1>3, <1>4, TotalUpdate
<1> QED
  BY <1>1, <1>2, <1>3, <1>4, <1>5 DEF SupplyIsSumOfShares

-----------------------------------------------------------------------------
(* Each operation preserves the invariant                                  *)

(* deposit, mint, withdraw, redeem and transfer of TXC preserve PoolInv.   *)
LEMMA ProviderStepInv ==
  ASSUME PoolInv, ProviderStep
  PROVE  PoolInv'
<1>1. PICK u \in Providers, r \in Providers, a \in PoolAmounts :
        \/ Deposit(u, a, r)
        \/ Mint(u, a, r)
        \/ Withdraw(u, a, r)
        \/ Redeem(u, a, r)
        \/ ShareTransfer(u, r, a)
  BY DEF ProviderStep
<1>2. u \in Users /\ r \in Users /\ a \in Nat
  BY PoolAssumption
<1>3. PoolTypeOK
  BY DEF PoolInv
<1>4. CASE Deposit(u, a, r)
  <2>1. SharesDown(a) \in Nat
    BY <1>2, <1>3, Conversions
  <2>2. (s_totalLiquidity \in Nat)'
    BY <1>2, <1>3, <1>4 DEF Deposit, PoolTypeOK
  <2> QED
    BY <1>2, <1>3, <1>4, <2>1, <2>2, DepositAndMintInv
       DEF Deposit, PoolInv, PoolTypeOK
<1>5. CASE Mint(u, a, r)
  <2>1. AssetsUp(a) \in Nat
    BY <1>2, <1>3, Conversions
  <2> QED
    BY <1>2, <1>3, <1>5, <2>1, DepositAndMintInv DEF Mint, PoolInv, PoolTypeOK
<1>6. CASE Withdraw(u, a, r)
  <2>1. SharesUp(a) \in Nat
    BY <1>2, <1>3, Conversions
  <2>2. s_totalLiquidity \in Nat /\ s_openInterest \in Nat
    BY <1>3 DEF PoolTypeOK
  <2>3. s_openInterest + a <= MaxUtilization(s_totalLiquidity)
    BY <1>6 DEF Withdraw, PoolUtilizationOk
  <2>4. a <= s_totalLiquidity
    BY <1>2, <2>2, <2>3, MaxUtilizationBound
  <2>5. (s_totalLiquidity \in Nat)'
    BY <1>2, <1>6, <2>2, <2>4 DEF Withdraw
  <2> QED
    BY <1>2, <1>3, <1>6, <2>1, <2>5, BurnAndWithdrawInv
       DEF Withdraw, PoolInv, PoolTypeOK
<1>7. CASE Redeem(u, a, r)
  <2>1. AssetsDown(a) \in Nat
    BY <1>2, <1>3, Conversions
  <2> QED
    BY <1>2, <1>3, <1>7, <2>1, BurnAndWithdrawInv DEF Redeem, PoolInv, PoolTypeOK
<1>8. CASE ShareTransfer(u, r, a)
  <2>1. shares \in [Users -> Nat] /\ a <= shares[u] /\ shares[u] \in Nat
        /\ IsFiniteSet(Units(shares))
    BY <1>2, <1>8 DEF ShareTransfer, PoolInv, PoolTypeOK
  <2> DEFINE between == [shares EXCEPT ![u] = @ - a]
  <2>2. /\ between \in [Users -> Nat]
        /\ between[u] = shares[u] - a
        /\ \A x \in Users : x # u => between[x] = shares[x]
    BY <1>2, <2>1
  <2>3. shares' = [between EXCEPT ![r] = @ + a]
    BY <1>8 DEF ShareTransfer, Moved
  <2> HIDE DEF between
  <2>4. /\ shares' \in [Users -> Nat]
        /\ shares'[r] = between[r] + a
        /\ \A x \in Users : x # r => shares'[x] = between[x]
    BY <1>2, <2>2, <2>3
  <2>5. IsFiniteSet(Units(shares')) /\ Total(shares') = Total(shares)
    BY <1>2, <2>1, <2>2, <2>4, TotalMove
  <2> QED
    BY <1>8, <2>4, <2>5
       DEF ShareTransfer, PoolInv, PoolTypeOK, SupplyIsSumOfShares, LedgerTypeOK
<1> QED
  BY <1>1, <1>4, <1>5, <1>6, <1>7, <1>8

(* A payout preserves PoolInv, whoever receives it.                        *)
LEMMA TransferOutInv ==
  ASSUME PoolInv, NEW u \in Users, NEW a \in Nat, TransferOut(u, a)
  PROVE  PoolInv'
<1>1. s_totalLiquidity' \in Nat
  BY DEF TransferOut, TransferOutOk, PoolInv, PoolTypeOK
<1>2. LedgerTypeOK'
  BY LedgerAssumption, MovedBalances
     DEF PoolInv, PoolTypeOK, LedgerTypeOK, TransferOut, TransferOutOk, CanMove, Accounts
<1> QED
  BY <1>1, <1>2 DEF TransferOut, PoolInv, PoolTypeOK, SupplyIsSumOfShares

(* So do the owner's setters.                                              *)
LEMMA OwnerStepInv ==
  ASSUME PoolInv, OwnerStep
  PROVE  PoolInv'
BY DEF OwnerStep, Initialize, UpdateTradeX, PoolInv, PoolTypeOK, LedgerTypeOK,
       SupplyIsSumOfShares

(* And DAI sent to a contract that is not called.                          *)
LEMMA ArrivalStepInv ==
  ASSUME PoolInv, ArrivalStep
  PROVE  PoolInv'
<1>1. PICK u \in Users, c \in {PoolContract, TradeXContract}, a \in PoolAmounts :
        DaiArrives(u, c, a)
  BY DEF ArrivalStep
<1>2. a \in Nat
  BY PoolAssumption
<1>3. LedgerTypeOK'
  BY <1>1, <1>2, MovedBalances
     DEF PoolInv, PoolTypeOK, LedgerTypeOK, DaiArrives, DaiTransfer, CanMove, Accounts
<1> QED
  BY <1>1, <1>3
     DEF DaiArrives, poolVars, PoolInv, PoolTypeOK, SupplyIsSumOfShares

(* The pool starts in the invariant.                                       *)
LEMMA PoolInitInv ==
  ASSUME PoolInit
  PROVE  PoolInv
<1>1. LedgerTypeOK
  BY LedgerAssumption DEF PoolInit, LedgerInit, LedgerTypeOK, Accounts
<1>2. PoolTypeOK
  BY <1>1, PoolAssumption DEF PoolInit, PoolTypeOK
<1>3. IsFiniteSet(Units(shares)) /\ Total(shares) = 0
  BY TotalZero DEF PoolInit
<1> QED
  BY <1>2, <1>3 DEF PoolInit, PoolInv, SupplyIsSumOfShares

(* The pool keeps its types, and the supply of TXC is the sum of what the  *)
(* users hold, in every behaviour of the pool: any providers, any amounts, *)
(* any open interest.                                                      *)
THEOREM PoolInvariant == PoolSpec => []PoolInv
<1>1. PoolInv /\ [PoolNext]_pVars => PoolInv'
  <2> SUFFICES ASSUME PoolInv, [PoolNext]_pVars
               PROVE  PoolInv'
    OBVIOUS
  <2>1. CASE ProviderStep
    BY <2>1, ProviderStepInv
  <2>2. CASE PayoutStep
    BY <2>2, PoolAssumption, TransferOutInv DEF PayoutStep
  <2>3. CASE OwnerStep
    BY <2>3, OwnerStepInv
  <2>4. CASE ArrivalStep
    BY <2>4, ArrivalStepInv
  <2>5. CASE OpenInterestMoves
    BY <2>5, PoolAssumption
       DEF OpenInterestMoves, poolVars, PoolInv, PoolTypeOK, LedgerTypeOK, SupplyIsSumOfShares
  <2>6. CASE UNCHANGED pVars
    BY <2>6 DEF pVars, poolVars, PoolInv, PoolTypeOK, LedgerTypeOK, SupplyIsSumOfShares
  <2> QED
    BY <2>1, <2>2, <2>3, <2>4, <2>5, <2>6 DEF PoolNext
<1> QED
  BY <1>1, PoolInitInv, PTL DEF PoolSpec

(* Balances, shares and book stay natural numbers: no provider, receiver or*)
(* caller of transferOut takes out more than there is.                     *)
THEOREM PoolTypeCorrect == PoolSpec => []PoolTypeOK
BY PoolInvariant, PTL DEF PoolInv

(* totalSupply() is the sum of the shares, whatever the four entry points  *)
(* and transfers of shares do.                                             *)
THEOREM SupplyCorrect == PoolSpec => []SupplyIsSumOfShares
BY PoolInvariant, PTL DEF PoolInv

-----------------------------------------------------------------------------
(* What a provider's step leaves alone                                     *)

(* Providers move DAI between themselves and the pool only.                *)
LEMMA ProviderStepMoves ==
  ASSUME PoolTypeOK, ProviderStep, NEW x \in Accounts, x \notin Users, x # PoolContract
  PROVE  dai'[x] = dai[x]
<1>1. PICK u \in Providers, r \in Providers, a \in PoolAmounts :
        \/ Deposit(u, a, r)
        \/ Mint(u, a, r)
        \/ Withdraw(u, a, r)
        \/ Redeem(u, a, r)
        \/ ShareTransfer(u, r, a)
  BY DEF ProviderStep
<1>2. /\ u \in Users /\ r \in Users /\ a \in Nat
      /\ u \in Accounts /\ r \in Accounts /\ PoolContract \in Accounts
      /\ dai \in [Accounts -> Nat]
      /\ x # u /\ x # r
  BY PoolAssumption DEF PoolTypeOK, LedgerTypeOK, Accounts
<1>3. ASSUME NEW v \in Nat, NEW sh, DepositAndMint(u, r, v, sh)
      PROVE  dai'[x] = dai[x]
  BY <1>2, <1>3, MovedBalances DEF DepositAndMint, CanMove
<1>4. ASSUME NEW v \in Nat, NEW sh, BurnAndWithdraw(u, r, v, sh)
      PROVE  dai'[x] = dai[x]
  BY <1>2, <1>4, MovedBalances DEF BurnAndWithdraw, CanMove
<1>5. AssetsUp(a) \in Nat /\ AssetsDown(a) \in Nat
  BY <1>2, Conversions
<1> QED
  BY <1>1, <1>2, <1>3, <1>4, <1>5 DEF Deposit, Mint, Withdraw, Redeem, ShareTransfer

(* They do not touch open interest or the setting of the owner.            *)
LEMMA ProviderStepKeeps ==
  ASSUME ProviderStep
  PROVE  s_openInterest' = s_openInterest /\ tradeX' = tradeX
BY DEF ProviderStep, Deposit, Mint, Withdraw, Redeem, ShareTransfer

-----------------------------------------------------------------------------
(* Action properties                                                       *)

(* Entering brings the assets in and mints the shares.                     *)
LEMMA CashIn ==
  ASSUME PoolTypeOK, NEW u \in Users, NEW r \in Users, NEW a \in Nat, NEW sh \in Nat,
         DepositAndMint(u, r, a, sh)
  PROVE  dai'[PoolContract] = dai[PoolContract] + a /\ totalSupply' = totalSupply + sh
<1>1. /\ dai \in [Accounts -> Nat]
      /\ dai[u] >= a
      /\ dai' = Moved(dai, u, PoolContract, a)
      /\ totalSupply' = totalSupply + sh
  BY DEF PoolTypeOK, LedgerTypeOK, DepositAndMint, CanMove
<1>2. u \in Accounts /\ PoolContract \in Accounts /\ u # PoolContract
  BY LedgerAssumption DEF Accounts
<1> QED  BY <1>1, <1>2, MovedBalances

(* Leaving takes the assets out and burns the shares.                      *)
LEMMA CashOut ==
  ASSUME PoolTypeOK, NEW u \in Users, NEW r \in Users, NEW a \in Nat, NEW sh \in Nat,
         BurnAndWithdraw(u, r, a, sh)
  PROVE  dai'[PoolContract] = dai[PoolContract] - a /\ totalSupply' = totalSupply - sh
<1>1. /\ dai \in [Accounts -> Nat]
      /\ dai[PoolContract] >= a
      /\ dai' = Moved(dai, PoolContract, r, a)
      /\ totalSupply' = totalSupply - sh
  BY DEF PoolTypeOK, LedgerTypeOK, BurnAndWithdraw, CanMove
<1>2. r \in Accounts /\ PoolContract \in Accounts /\ r # PoolContract
  BY LedgerAssumption DEF Accounts
<1> QED  BY <1>1, <1>2, MovedBalances

(* A payout takes the amount out.                                          *)
LEMMA CashPaid ==
  ASSUME PoolTypeOK, NEW r \in Users, NEW a \in Nat, TransferOut(r, a)
  PROVE  dai'[PoolContract] = dai[PoolContract] - a
<1>1. /\ dai \in [Accounts -> Nat]
      /\ dai[PoolContract] >= a
      /\ dai' = Moved(dai, PoolContract, r, a)
  BY DEF PoolTypeOK, LedgerTypeOK, TransferOut, TransferOutOk, CanMove
<1>2. r \in Accounts /\ PoolContract \in Accounts /\ r # PoolContract
  BY LedgerAssumption DEF Accounts
<1> QED  BY <1>1, <1>2, MovedBalances

(* Entering for no more shares than the assets are worth keeps the price of*)
(* a share.                                                                *)
LEMMA EnterKeepsPrice ==
  ASSUME NEW A \in Nat, NEW S \in Nat, NEW a \in Nat, NEW sh \in Nat, A * sh <= a * S
  PROVE  (A + a) * S >= A * (S + sh)
<1>1. (A + a) * S = A * S + a * S
  OBVIOUS
<1>2. A * (S + sh) = A * S + A * sh
  OBVIOUS
<1>3. A * S \in Nat /\ a * S \in Nat /\ A * sh \in Nat
  BY ProductNat
<1> QED  BY <1>1, <1>2, <1>3

(* The same for leaving.                                                   *)
LEMMA LeaveKeepsPrice ==
  ASSUME NEW A \in Nat, NEW S \in Nat, NEW a \in Nat, NEW sh \in Nat, a * S <= A * sh
  PROVE  (A - a) * S >= A * (S - sh)
<1>1. (A - a) * S = A * S - a * S
  OBVIOUS
<1>2. A * (S - sh) = A * S - A * sh
  OBVIOUS
<1>3. A * S \in Nat /\ a * S \in Nat /\ A * sh \in Nat
  BY ProductNat
<1> QED  BY <1>1, <1>2, <1>3

(* A provider's step never lowers (assets + 1)/(supply + 1).               *)
LEMMA ProviderStepDilution ==
  ASSUME PoolTypeOK, ProviderStep
  PROVE  (dai'[PoolContract] + 1) * (totalSupply + 1)
           >= (dai[PoolContract] + 1) * (totalSupply' + 1)
<1>1. PICK u \in Providers, r \in Providers, a \in PoolAmounts :
        \/ Deposit(u, a, r)
        \/ Mint(u, a, r)
        \/ Withdraw(u, a, r)
        \/ Redeem(u, a, r)
        \/ ShareTransfer(u, r, a)
  BY DEF ProviderStep
<1>2. u \in Users /\ r \in Users /\ a \in Nat
  BY PoolAssumption
<1> DEFINE A == dai[PoolContract] + 1
           S == totalSupply + 1
<1>3. A \in Nat /\ S \in Nat
  BY LedgerAssumption DEF PoolTypeOK, LedgerTypeOK, Accounts
<1>4. A = TotalAssets + 1
  BY DEF TotalAssets
<1>5. ASSUME NEW b \in Nat, NEW sh \in Nat, A * sh <= b * S, DepositAndMint(u, r, b, sh)
      PROVE  (dai'[PoolContract] + 1) * S >= A * (totalSupply' + 1)
  <2>1. dai'[PoolContract] + 1 = A + b /\ totalSupply' + 1 = S + sh
    <3>1. dai[PoolContract] \in Nat /\ totalSupply \in Nat
      BY LedgerAssumption DEF PoolTypeOK, LedgerTypeOK, Accounts
    <3> QED  BY <1>2, <1>5, <3>1, CashIn
  <2> QED  BY <1>3, <1>5, <2>1, EnterKeepsPrice
<1>6. ASSUME NEW b \in Nat, NEW sh \in Nat, b * S <= A * sh, BurnAndWithdraw(u, r, b, sh)
      PROVE  (dai'[PoolContract] + 1) * S >= A * (totalSupply' + 1)
  <2>1. dai'[PoolContract] + 1 = A - b /\ totalSupply' + 1 = S - sh
    <3>1. dai[PoolContract] \in Nat /\ totalSupply \in Nat
      BY LedgerAssumption DEF PoolTypeOK, LedgerTypeOK, Accounts
    <3> QED  BY <1>2, <1>6, <3>1, CashOut
  <2> QED  BY <1>3, <1>6, <2>1, LeaveKeepsPrice
<1>7. /\ SharesDown(a) \in Nat /\ SharesUp(a) \in Nat
      /\ AssetsDown(a) \in Nat /\ AssetsUp(a) \in Nat
      /\ A * SharesDown(a) <= a * S
      /\ a * S <= A * SharesUp(a)
      /\ S * AssetsDown(a) <= a * A
      /\ a * A <= S * AssetsUp(a)
  BY <1>2, <1>4, Conversions
<1> HIDE DEF A, S
<1>8. CASE Deposit(u, a, r)
  BY <1>2, <1>5, <1>7, <1>8 DEF Deposit, A, S
<1>9. CASE Mint(u, a, r)
  <2>1. A * a <= AssetsUp(a) * S
    BY <1>2, <1>3, <1>7
  <2> QED  BY <1>2, <1>5, <1>7, <1>9, <2>1 DEF Mint, A, S
<1>10. CASE Withdraw(u, a, r)
  BY <1>2, <1>6, <1>7, <1>10 DEF Withdraw, A, S
<1>11. CASE Redeem(u, a, r)
  <2>1. AssetsDown(a) * S <= A * a
    BY <1>2, <1>3, <1>7
  <2> QED  BY <1>2, <1>6, <1>7, <1>11, <2>1 DEF Redeem, A, S
<1>12. CASE ShareTransfer(u, r, a)
  <2>1. A * S \in Nat
    BY <1>3, ProductNat
  <2>2. (dai'[PoolContract] + 1) * (totalSupply + 1) = A * S
        /\ (dai[PoolContract] + 1) * (totalSupply' + 1) = A * S
    BY <1>12 DEF ShareTransfer, A, S
  <2> QED  BY <2>1, <2>2
<1> QED
  BY <1>1, <1>8, <1>9, <1>10, <1>11, <1>12

(* No provider is diluted by another: NoDilution holds of the pool for any *)
(* amounts, whatever rounding they meet.                                   *)
THEOREM PoolNoDilution == PoolSpec => NoDilution
<1>1. PoolTypeOK /\ [PoolNext]_pVars =>
        [ totalSupply' # totalSupply =>
            (dai'[PoolContract] + 1) * (totalSupply + 1)
              >= (dai[PoolContract] + 1) * (totalSupply' + 1) ]_pVars
  <2> SUFFICES ASSUME PoolTypeOK, PoolNext, totalSupply' # totalSupply
               PROVE  (dai'[PoolContract] + 1) * (totalSupply + 1)
                        >= (dai[PoolContract] + 1) * (totalSupply' + 1)
    OBVIOUS
  <2>1. CASE ProviderStep
    BY <2>1, ProviderStepDilution
  <2>2. CASE PayoutStep \/ OwnerStep \/ ArrivalStep \/ OpenInterestMoves
    BY <2>2 DEF PayoutStep, TransferOut, OwnerStep, Initialize, UpdateTradeX,
                ArrivalStep, DaiArrives, OpenInterestMoves, poolVars
  <2> QED
    BY <2>1, <2>2 DEF PoolNext
<1> QED
  BY <1>1, PoolTypeCorrect, PTL DEF PoolSpec, NoDilution

(* The book moves only with cash and by the same amount.                   *)
THEOREM PoolBookMovesWithCash == PoolSpec => BookMovesWithCash
<1>1. PoolTypeOK /\ [PoolNext]_pVars =>
        [ s_totalLiquidity' # s_totalLiquidity =>
            s_totalLiquidity' - s_totalLiquidity
              = dai'[PoolContract] - dai[PoolContract] ]_pVars
  <2> SUFFICES ASSUME PoolTypeOK, PoolNext, s_totalLiquidity' # s_totalLiquidity
               PROVE  s_totalLiquidity' - s_totalLiquidity
                        = dai'[PoolContract] - dai[PoolContract]
    OBVIOUS
  <2>1. dai[PoolContract] \in Nat /\ s_totalLiquidity \in Nat
    BY LedgerAssumption DEF PoolTypeOK, LedgerTypeOK, Accounts
  <2>2. CASE ProviderStep
    <3>1. PICK u \in Providers, r \in Providers, a \in PoolAmounts :
            Deposit(u, a, r) \/ Withdraw(u, a, r)
      BY <2>2 DEF ProviderStep, Mint, Redeem, ShareTransfer
    <3>2. u \in Users /\ r \in Users /\ a \in Nat
      BY PoolAssumption
    <3>3. SharesDown(a) \in Nat /\ SharesUp(a) \in Nat
      BY <3>2, Conversions
    <3>4. CASE Deposit(u, a, r)
      BY <2>1, <3>2, <3>3, <3>4, CashIn DEF Deposit
    <3>5. CASE Withdraw(u, a, r)
      BY <2>1, <3>2, <3>3, <3>5, CashOut DEF Withdraw
    <3> QED  BY <3>1, <3>4, <3>5
  <2>3. CASE PayoutStep
    <3>1. PICK r \in Users, a \in PoolAmounts : TransferOut(r, a)
      BY <2>3 DEF PayoutStep
    <3>2. a \in Nat
      BY PoolAssumption
    <3> QED  BY <2>1, <3>1, <3>2, CashPaid DEF TransferOut
  <2>4. CASE OwnerStep \/ ArrivalStep \/ OpenInterestMoves
    BY <2>4 DEF OwnerStep, Initialize, UpdateTradeX, ArrivalStep, DaiArrives,
                OpenInterestMoves, poolVars
  <2> QED
    BY <2>2, <2>3, <2>4 DEF PoolNext
<1> QED
  BY <1>1, PoolTypeCorrect, PTL DEF PoolSpec, BookMovesWithCash

(* Providers that enter or leave keep open interest within the limit.      *)
LEMMA ProviderStepUtilization ==
  ASSUME PoolTypeOK, ProviderStep, s_openInterest <= MaxUtilization(s_totalLiquidity)
  PROVE  s_openInterest' <= MaxUtilization(s_totalLiquidity')
<1>1. PICK u \in Providers, r \in Providers, a \in PoolAmounts :
        \/ Deposit(u, a, r)
        \/ Mint(u, a, r)
        \/ Withdraw(u, a, r)
        \/ Redeem(u, a, r)
        \/ ShareTransfer(u, r, a)
  BY DEF ProviderStep
<1>2. a \in Nat /\ s_totalLiquidity \in Nat /\ s_openInterest \in Nat
  BY PoolAssumption DEF PoolTypeOK
<1>3. CASE Deposit(u, a, r)
  BY <1>2, <1>3 DEF Deposit, MaxUtilization
<1>4. CASE Withdraw(u, a, r)
  BY <1>2, <1>4 DEF Withdraw, PoolUtilizationOk, MaxUtilization
<1>5. CASE Mint(u, a, r) \/ Redeem(u, a, r) \/ ShareTransfer(u, r, a)
  BY <1>5 DEF Mint, Redeem, ShareTransfer
<1> QED
  BY <1>1, <1>3, <1>4, <1>5

(* The book falls by a provider's step only if shares are burnt for it.    *)
LEMMA ProviderStepBurns ==
  ASSUME PoolTypeOK, ProviderStep, s_totalLiquidity' < s_totalLiquidity
  PROVE  totalSupply' < totalSupply
<1>1. PICK u \in Providers, r \in Providers, a \in PoolAmounts :
        Deposit(u, a, r) \/ Withdraw(u, a, r)
  <2>1. s_totalLiquidity \in Nat
    BY DEF PoolTypeOK
  <2>2. s_totalLiquidity' # s_totalLiquidity
    BY <2>1
  <2> QED  BY <2>2 DEF ProviderStep, Mint, Redeem, ShareTransfer
<1>2. a \in Nat /\ s_totalLiquidity \in Nat /\ totalSupply \in Nat /\ TotalAssets \in Nat
  BY PoolAssumption, LedgerAssumption
     DEF PoolTypeOK, LedgerTypeOK, Accounts, TotalAssets
<1>3. Withdraw(u, a, r)
  BY <1>1, <1>2 DEF Deposit
<1>4. a > 0
  BY <1>2, <1>3 DEF Withdraw
<1>5. SharesUp(a) \in Nat /\ a * (totalSupply + 1) <= (TotalAssets + 1) * SharesUp(a)
  BY <1>2, Conversions
<1>6. a * (totalSupply + 1) > 0
  BY <1>2, <1>4
<1>7. SharesUp(a) # 0
  <2> SUFFICES ASSUME SharesUp(a) = 0
               PROVE  FALSE
    OBVIOUS
  <2>1. (TotalAssets + 1) * SharesUp(a) = 0
    BY <1>2
  <2>2. a * (totalSupply + 1) \in Nat
    BY <1>2
  <2> QED  BY <1>5, <1>6, <2>1, <2>2
<1>8. totalSupply' = totalSupply - SharesUp(a)
  BY <1>3 DEF Withdraw, BurnAndWithdraw
<1> QED  BY <1>2, <1>5, <1>7, <1>8

(* No deposit, mint, withdraw or redeem takes open interest that is within *)
(* the limit over it.                                                      *)
THEOREM PoolProvidersRespectUtilization == PoolSpec => ProvidersRespectUtilization
<1>1. PoolTypeOK /\ [PoolNext]_pVars =>
        [ /\ totalSupply' # totalSupply
          /\ s_openInterest <= MaxUtilization(s_totalLiquidity)
          => s_openInterest' <= MaxUtilization(s_totalLiquidity') ]_pVars
  <2> SUFFICES ASSUME PoolTypeOK, PoolNext, totalSupply' # totalSupply,
                      s_openInterest <= MaxUtilization(s_totalLiquidity)
               PROVE  s_openInterest' <= MaxUtilization(s_totalLiquidity')
    OBVIOUS
  <2>1. CASE ProviderStep
    BY <2>1, ProviderStepUtilization
  <2>2. CASE PayoutStep \/ OwnerStep \/ ArrivalStep \/ OpenInterestMoves
    BY <2>2 DEF PayoutStep, TransferOut, OwnerStep, Initialize, UpdateTradeX,
                ArrivalStep, DaiArrives, OpenInterestMoves, poolVars
  <2> QED
    BY <2>1, <2>2 DEF PoolNext
<1> QED
  BY <1>1, PoolTypeCorrect, PTL DEF PoolSpec, ProvidersRespectUtilization
=============================================================================
