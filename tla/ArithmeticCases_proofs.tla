------------------------ MODULE ArithmeticCases_proofs ------------------------
(***************************************************************************)
(* What the conversions, the exit price and the leverage check guarantee,  *)
(* for every position, price and scale factor.  Each proof writes a        *)
(* quotient as an unknown between the two bounds that division gives, and  *)
(* compares products of it.                                                *)
(***************************************************************************)
EXTENDS ArithmeticCases, TLAPS

CaseInv ==
  /\ price \in Nat \ {0}
  /\ size \in Nat \ {0}
  /\ collateral \in Nat \ {0}

-----------------------------------------------------------------------------
(* Division and products                                                   *)

(* What integer division returns.                                          *)
LEMMA Quotient ==
  ASSUME NEW n \in Nat, NEW d \in Nat \ {0}
  PROVE  /\ n \div d \in Nat
         /\ d * (n \div d) <= n
         /\ n < d * (n \div d) + d
OBVIOUS

(* A positive factor cancels.                                              *)
LEMMA Cancel ==
  ASSUME NEW a \in Nat, NEW b \in Nat, NEW d \in Nat \ {0}, d * a <= d * b
  PROVE  a <= b
<1>1. ASSUME b < a PROVE FALSE
  <2>1. PICK k \in Nat \ {0} : a = b + k
    <3>1. a - b \in Nat \ {0} /\ a = b + (a - b)
      BY <1>1
    <3> QED  BY <3>1
  <2>2. d * a = d * b + d * k /\ d * k > 0
    BY <2>1
  <2>3. d * b \in Nat /\ d * k \in Nat
    BY <2>1
  <2> QED  BY <2>2, <2>3
<1> QED  BY <1>1

(* Dividing a multiple.                                                    *)
LEMMA ExactQuotient ==
  ASSUME NEW n \in Nat, NEW d \in Nat \ {0}
  PROVE  (d * n) \div d = n
<1>1. d * n \in Nat
  OBVIOUS
<1>2. PICK q \in Nat : q = (d * n) \div d
  BY <1>1, Quotient
<1>3. d * q <= d * n /\ d * n < d * q + d
  BY <1>1, <1>2, Quotient
<1>4. q <= n
  BY <1>3, Cancel
<1>5. d * q + d = d * (q + 1) /\ d * (q + 1) \in Nat
  BY <1>2
<1>6. d * n <= d * (q + 1) /\ d * n # d * (q + 1)
  BY <1>1, <1>3, <1>5
<1>7. n <= q + 1 /\ n # q + 1
  BY <1>6, Cancel
<1> QED  BY <1>2, <1>4, <1>7

(* A positive price in WAD units, and the value of a position.             *)
LEMMA PriceAndSize ==
  ASSUME CaseInv
  PROVE  /\ EthInUsd(price) \in Nat \ {0}
         /\ EthInUsd(price) * size \in Nat
         /\ SizeInUsd \in Nat
<1>1. EthInUsd(price) \in Nat \ {0}
  BY MathAssumption DEF CaseInv, EthInUsd
<1>2. EthInUsd(price) * size \in Nat
  BY <1>1 DEF CaseInv
<1> QED  BY <1>1, <1>2, Quotient, MathAssumption DEF SizeInUsd, ConvertEthToUsd

-----------------------------------------------------------------------------
(* The properties of a case                                                *)

(* There and back.                                                         *)
LEMMA RoundTrip ==
  ASSUME CaseInv
  PROVE  RoundTripLosesLittle
<1>1. PICK e \in Nat \ {0} : e = EthInUsd(price)
  BY PriceAndSize
<1>2. PICK u \in Nat : u = SizeInUsd
  BY PriceAndSize
<1>3. WAD * u <= e * size /\ e * size < WAD * u + WAD /\ e * size \in Nat
  BY <1>1, <1>2, PriceAndSize, Quotient, MathAssumption DEF SizeInUsd, ConvertEthToUsd
<1>4. u * WAD \in Nat /\ u * WAD = WAD * u
  BY MathAssumption
<1>5. PICK back \in Nat : back = ConvertUsdToEth(SizeInUsd, price)
  BY <1>1, <1>2, <1>4, Quotient DEF ConvertUsdToEth
<1>6. e * back <= WAD * u /\ WAD * u < e * back + e
  BY <1>1, <1>2, <1>4, <1>5, Quotient DEF ConvertUsdToEth
<1>7. e * back \in Nat
  OBVIOUS
<1>8. e * back <= e * size
  BY <1>3, <1>4, <1>6, <1>7
<1>9. size \in Nat
  BY DEF CaseInv
<1>10. back <= size
  BY <1>8, <1>9, Cancel
<1>11. (size - back) * e = e * size - e * back
  BY <1>9
<1>12. (size - back) * e < WAD + e
  BY <1>3, <1>4, <1>6, <1>7, <1>11, MathAssumption
<1> QED  BY <1>1, <1>5, <1>10, <1>12 DEF RoundTripLosesLittle

(* The exit price.                                                         *)
LEMMA SpendsLossBudget ==
  ASSUME CaseInv
  PROVE  ExitPriceSpendsLossBudget
<1> SUFFICES ASSUME ExitPriceOk(SizeInUsd, size, collateral)
             PROVE  LET rest == collateral + ProfitAtLiqPrice(TRUE)
                    IN  /\ rest <= Maintenance(SizeInUsd)
                        /\ Maintenance(SizeInUsd) < rest + size
                        /\ ProfitAtLiqPrice(FALSE) >= LossBudget(SizeInUsd, collateral)
  BY DEF ExitPriceSpendsLossBudget
<1>1. Maintenance(SizeInUsd) \in Int
  <2>1. SizeInUsd \div MAX_LEVERAGE \in Nat
    BY PriceAndSize, MathAssumption, Quotient
  <2> QED  BY <2>1, MathAssumption DEF Maintenance
<1>2. PICK left \in Nat : left = SizeInUsd - LossBudget(SizeInUsd, collateral)
  <2>1. SizeInUsd - LossBudget(SizeInUsd, collateral) \in Nat
    BY <1>1, PriceAndSize DEF LossBudget, ExitPriceOk, CaseInv
  <2> QED  BY <2>1
<1>3. PICK q \in Nat : q = left \div size
  BY Quotient DEF CaseInv
<1>4. size * q <= left /\ left < size * q + size
  BY <1>3, Quotient DEF CaseInv
<1>5. ExitPrice(SizeInUsd, size, collateral) * size = WAD * (size * q)
  <2>1. ExitPrice(SizeInUsd, size, collateral) = q * WAD
    BY <1>2, <1>3 DEF ExitPrice
  <2>2. (q * WAD) * size = WAD * (size * q)
    BY MathAssumption DEF CaseInv
  <2> QED  BY <2>1, <2>2
<1>6. size * q \in Nat
  BY DEF CaseInv
<1>7. ValueAtLiqPrice = size * q
  BY <1>5, <1>6, ExactQuotient, MathAssumption DEF ValueAtLiqPrice
<1>8. PICK value \in Nat : /\ value = ValueAtLiqPrice
                           /\ value <= left
                           /\ left < value + size
  BY <1>4, <1>6, <1>7
<1>9. PICK m \in Int, u \in Nat, c \in Nat, n \in Nat :
        m = Maintenance(SizeInUsd) /\ u = SizeInUsd /\ c = collateral /\ n = size
  BY <1>1, PriceAndSize DEF CaseInv
<1>10. left = u - (c - m) /\ LossBudget(SizeInUsd, collateral) = c - m
  BY <1>2, <1>9 DEF LossBudget
<1>11. ProfitAtLiqPrice(TRUE) = value - u /\ ProfitAtLiqPrice(FALSE) = u - value
  BY <1>8, <1>9 DEF ProfitAtLiqPrice
<1>12. /\ c + (value - u) <= m
       /\ m < c + (value - u) + n
       /\ u - value >= c - m
  BY <1>8, <1>9, <1>10
<1> QED  BY <1>9, <1>10, <1>11, <1>12

(* The leverage check.                                                     *)
LEMMA AcceptedIsMargined ==
  ASSUME CaseInv
  PROVE  AcceptedLeverageIsMargined
<1> SUFFICES ASSUME Leverage(SizeInUsd, collateral) < MAX_LEVERAGE
             PROVE  0 <= LossBudget(SizeInUsd, collateral)
  BY DEF AcceptedLeverageIsMargined
<1>1. PICK u \in Nat, c \in Nat \ {0}, M \in Nat \ {0}, lp \in Nat \ {0} :
        u = SizeInUsd /\ c = collateral /\ M = MAX_LEVERAGE /\ lp = LEVERAGE_PRECISION
  BY PriceAndSize, MathAssumption DEF CaseInv
<1>2. PICK l \in Nat : /\ l = Leverage(SizeInUsd, collateral)
                       /\ u * lp < c * l + c
  <2>1. u * lp \in Nat
    BY <1>1
  <2> QED  BY <1>1, <2>1, Quotient DEF Leverage
<1>3. l < M
  BY <1>1, <1>2
<1>4. c * l + c <= c * M
  <2>1. PICK k \in Nat : M = l + 1 + k
    <3>1. M - l - 1 \in Nat /\ M = l + 1 + (M - l - 1)
      BY <1>3
    <3> QED  BY <3>1
  <2>2. c * M = c * l + c + c * k /\ c * k \in Nat /\ c * l \in Nat
    BY <2>1
  <2> QED  BY <2>2
<1>5. PICK m \in Nat : m = u \div M /\ M * m <= u
  BY Quotient
<1>6. M * (m * lp) <= u * lp
  <2>1. PICK k \in Nat : u = M * m + k
    <3>1. M * m \in Nat
      OBVIOUS
    <3>2. u - M * m \in Nat /\ u = M * m + (u - M * m)
      BY <1>5, <3>1
    <3> QED  BY <3>2
  <2>2. u * lp = M * (m * lp) + k * lp /\ k * lp \in Nat /\ M * (m * lp) \in Nat
    BY <2>1
  <2> QED  BY <2>2
<1>7. m * lp \in Nat /\ M * (m * lp) \in Nat /\ u * lp \in Nat /\ c * l \in Nat
      /\ c * M \in Nat /\ c * M = M * c
  OBVIOUS
<1>8. M * (m * lp) <= M * c
  <2>1. PICK x \in Nat, y \in Nat, z \in Nat, w \in Nat :
          x = M * (m * lp) /\ y = u * lp /\ z = c * l /\ w = c * M
    BY <1>7
  <2>2. x <= y /\ y < z + c /\ z + c <= w
    BY <1>2, <1>4, <1>6, <2>1
  <2>3. x <= w
    BY <2>2
  <2> QED  BY <1>7, <2>1, <2>3
<1>9. m * lp <= c
  BY <1>7, <1>8, Cancel
<1> QED  BY <1>1, <1>5, <1>7, <1>9 DEF LossBudget, Maintenance

-----------------------------------------------------------------------------
(* The theorems                                                            *)

(* Every case is one of positive numbers.                                  *)
LEMMA CasesInv == CasesSpec => []CaseInv
<1>1. CasesInit => CaseInv
  BY DEF CasesInit, CaseInv
<1>2. CaseInv /\ [CasesNext]_caseVars => CaseInv'
  BY DEF CaseInv, CasesNext, caseVars
<1> QED  BY <1>1, <1>2, PTL DEF CasesSpec

(* convertUsdToEth undoes convertEthToUsd but for truncation, at any price *)
(* and scale: never more ETH, and little less.                             *)
THEOREM RoundTripCorrect == CasesSpec => []RoundTripLosesLittle
BY CasesInv, RoundTrip, PTL

(* calculateExitPrice returns where a long spends its budget, to a dollar  *)
(* per ETH, for any position it does not revert on.                        *)
THEOREM ExitPriceCorrect == CasesSpec => []ExitPriceSpendsLossBudget
BY CasesInv, SpendsLossBudget, PTL

(* A position that passes the leverage check has an exit price, for any    *)
(* maximal leverage and precision.                                         *)
THEOREM LeverageCheckCorrect == CasesSpec => []AcceptedLeverageIsMargined
BY CasesInv, AcceptedIsMargined, PTL
=============================================================================
