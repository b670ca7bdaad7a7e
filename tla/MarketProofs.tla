-------------------------- MODULE MarketProofs --------------------------
(***************************************************************************)
(* Theorems about x/market, for any denominations, rates, pools, offers    *)
(* and accounts.  A swap neither makes nor loses coins on the way: what    *)
(* the bank counts as the supply is what the accounts and the oracle       *)
(* module hold.  And it mints no more than it burns, at the rates of the   *)
(* oracle, but for the rounding of two conversions, one into SDR and one   *)
(* out of it, each of which may round up.                                  *)
(***************************************************************************)
EXTENDS Market, ArithmeticTheorems

-----------------------------------------------------------------------------
(* Conversions between denominations *)

LEMMA RateType ==
    ASSUME NEW prices \in PriceTable, NEW d \in Denoms
    PROVE  LunaRate(prices, d) \in (Nat \ {0}) \cup {None}
  BY UnitAssumption DEF LunaRate, PriceTable, Denoms, OneDec

\* A product of natural numbers is one.
LEMMA Products ==
    ASSUME NEW x \in Nat, NEW y \in Nat
    PROVE  x * y \in Nat
  BY Z3

\* A rounded quotient is no more than a half above the exact one.
LEMMA QuoAtMost ==
    ASSUME NEW m \in Nat, NEW r \in Nat \ {0}
    PROVE  /\ Quo(m, r) \in Nat /\ Quo(m, r) * r \in Nat /\ m * Unit \in Nat
           /\ 2 * (Quo(m, r) * r) <= 2 * (m * Unit) + r
  <1> DEFINE p == m * Unit
             a == p * Unit
             w == a \div r
             y == Quo(m, r)
  <1>1. Unit \in Nat \ {0}
    BY UnitAssumption
  <1>2. p \in Nat
    BY <1>1, Products
  <1>3. y = ChopRound(TruncQuo(a, r))
    BY DEF Quo
  <1> HIDE DEF p, y
  <1>4. a \in Nat
    BY <1>1, <1>2, Products
  <1> HIDE DEF a
  <1>5. TruncQuo(a, r) = w /\ w \in Nat
    BY <1>4, TruncQuoType
  <1>6. w * r \in Nat /\ w * r <= a
    <2>1. a = w * r + (a % r) /\ (a % r) \in 0..(r - 1)
      BY <1>4, DivDef
    <2> HIDE DEF w
    <2>2. w * r \in Nat
      BY <1>5, Products
    <2> QED BY <2>1, <2>2
  <1> HIDE DEF w
  <1>7. y \in Nat /\ y * Unit \in Nat /\ 2 * (y * Unit) <= 2 * w + Unit
    BY <1>3, <1>5, ChopNear
  <1>8. y * r \in Nat
    BY <1>7, Products
  <1>9. Unit * (2 * (y * r)) <= Unit * (2 * p + r)
    <2>1. (2 * (y * Unit)) * r <= (2 * w + Unit) * r
      <3>1. 2 * (y * Unit) \in Nat /\ 2 * w + Unit \in Nat
        BY <1>1, <1>5, <1>7
      <3> QED BY <1>7, <3>1, TimesMonotone
    <2>2. (2 * (y * Unit)) * r = Unit * (2 * (y * r))
      BY <1>1, <1>7, Z3
    <2>3. (2 * w + Unit) * r = 2 * (w * r) + Unit * r
      BY <1>1, <1>5, Z3
    <2>4. Unit * (2 * p + r) = 2 * a + Unit * r
      BY <1>1, <1>2, Z3 DEF a
    <2>5. Unit * r \in Nat
      BY <1>1, Products
    <2> DEFINE wr == w * r
               ur == Unit * r
               left == Unit * (2 * (y * r))
               right == Unit * (2 * p + r)
    <2>6. wr \in Nat /\ wr <= a /\ ur \in Nat
      BY <1>6, <2>5
    <2>7. left <= 2 * wr + ur /\ right = 2 * a + ur
      BY <2>1, <2>2, <2>3, <2>4
    <2>8. left \in Int
      BY <1>1, <1>8, Products
    <2> HIDE DEF a, wr, ur, left, right
    <2>9. left <= right
      BY <1>4, <2>6, <2>7, <2>8
    <2> QED BY <2>9 DEF left, right
  <1>10. 2 * (y * r) <= 2 * p + r
    <2> DEFINE u == 2 * (y * r)
               v == 2 * p + r
    <2>1. u \in Nat /\ v \in Nat
      BY <1>2, <1>8
    <2>2. Unit * u <= Unit * v
      BY <1>9
    <2> HIDE DEF u, v
    <2>3. u <= v
      BY <1>1, <2>1, <2>2, Z3
    <2> QED BY <2>3 DEF u, v
  <1> QED BY <1>2, <1>7, <1>8, <1>10 DEF p, y

\* ComputeInternalSwap rounds twice, a product and a quotient, and either may go up
\* by a half; the product of a whole amount is exact.
LEMMA ConvertAtMost ==
    ASSUME NEW prices \in PriceTable, NEW x \in Nat, NEW o \in Denoms, NEW a \in Denoms,
           InternalSwap(prices, x, o, a) # None, o # a
    PROVE  LET y == InternalSwap(prices, x, o, a)
               ro == LunaRate(prices, o)
               ra == LunaRate(prices, a)
           IN  /\ y \in Nat \ {0} /\ ro \in Nat \ {0} /\ ra \in Nat \ {0}
               /\ 2 * (y * ro) <= 2 * (x * ra) + Unit + ro
               /\ \A n \in Nat : x = n * Unit => 2 * (y * ro) <= 2 * (x * ra) + ro
  <1> DEFINE ro == LunaRate(prices, o)
             ra == LunaRate(prices, a)
             m == Mul(x, ra)
             y == Quo(m, ro)
  <1>1. InternalSwap(prices, x, o, a) = y /\ ~(y <= 0) /\ ro # None /\ ra # None
    BY DEF InternalSwap
  <1>2. ro \in Nat \ {0} /\ ra \in Nat \ {0}
    BY <1>1, RateType
  <1>3. Unit \in Nat \ {0}
    BY UnitAssumption
  <1>4. m = ChopRound(x * ra)
    BY DEF Mul
  <1> HIDE DEF ro, ra, m
  <1>5. x * ra \in Nat
    BY <1>2, Products
  <1>6. m \in Nat /\ m * Unit \in Nat /\ 2 * (m * Unit) <= 2 * (x * ra) + Unit
    BY <1>4, <1>5, ChopNear
  <1>7. y \in Nat /\ y * ro \in Nat /\ 2 * (y * ro) <= 2 * (m * Unit) + ro
    BY <1>2, <1>6, QuoAtMost, Zenon
  <1> HIDE DEF y
  <1>8. y \in Nat \ {0}
    BY <1>1, <1>7
  <1>9. 2 * (y * ro) <= 2 * (x * ra) + Unit + ro
    BY <1>2, <1>3, <1>5, <1>6, <1>7
  <1>10. ASSUME NEW n \in Nat, x = n * Unit
         PROVE  2 * (y * ro) <= 2 * (x * ra) + ro
    <2>1. x * ra = (n * ra) * Unit
      BY <1>2, <1>3, <1>10, Z3
    <2>2. n * ra \in Nat
      BY <1>2, Products
    <2>3. m = n * ra
      BY <1>4, <2>1, <2>2, ChopExact
    <2>4. m * Unit = x * ra
      BY <2>1, <2>3
    <2> QED BY <1>2, <1>5, <1>7, <2>4
  <1> QED BY <1>1, <1>2, <1>8, <1>9, <1>10 DEF ro, ra
-----------------------------------------------------------------------------
(* The coins of a swap *)

\* Truncated quotients and rounded numbers are integers, whatever their sign.
LEMMA TruncQuoInt ==
    ASSUME NEW x \in Int, NEW n \in Int, n # 0
    PROVE  TruncQuo(x, n) \in Int
  <1> DEFINE p == IF x < 0 THEN -x ELSE x
             q == IF n < 0 THEN -n ELSE n
             w == p \div q
  <1>1. p \in Nat /\ q \in Nat \ {0}
    OBVIOUS
  <1>2. TruncQuo(x, n) = IF (x < 0) = (n < 0) THEN w ELSE -w
    BY DEF TruncQuo
  <1> HIDE DEF p, q
  <1>3. w \in Nat
    BY <1>1, DivDef
  <1> HIDE DEF w
  <1> QED BY <1>2, <1>3

LEMMA ChopInt ==
    ASSUME NEW x \in Int
    PROVE  ChopRound(x) \in Int
  <1>1. CASE x >= 0
    BY <1>1, ChopNear
  <1>2. CASE x < 0
    <2>1. -x \in Nat /\ ~(-x < 0)
      BY <1>2
    <2>2. ChopRound(-x) \in Nat
      BY <2>1, ChopNear
    <2>3. ChopRound(x) = -ChopRound(-x)
      <3>1. -(-x) = x
        OBVIOUS
      <3> QED BY <1>2, <2>1 DEF ChopRound
    <2> QED BY <2>2, <2>3
  <1> QED BY <1>1, <1>2

LEMMA QuoIntegers ==
    ASSUME NEW x \in Int, NEW n \in Int, n # 0
    PROVE  Quo(x, n) \in Int
  <1>1. Unit \in Int
    BY UnitAssumption
  <1> DEFINE a == x * Unit * Unit
  <1>2. a \in Int
    BY <1>1, Z3
  <1>3. Quo(x, n) = ChopRound(TruncQuo(a, n))
    BY DEF Quo
  <1> HIDE DEF a
  <1> QED BY <1>2, <1>3, TruncQuoInt, ChopInt

\* What ComputeSwap gives: an amount, and a spread.
LEMMA TobinSpreadType ==
    ASSUME NEW o \in Terra, NEW a \in Terra
    PROVE  TobinSpread(o, a) \in Int \cup {None}
  <1> DEFINE x == TobinTaxes[o]
             y == TobinTaxes[a]
  <1>1. x \in Int \cup {None} /\ y \in Int \cup {None}
    BY MarketAssumption, UnitAssumption DEF OneDec
  <1> HIDE DEF x, y
  <1>2. CASE None \in {x, y}
    BY <1>2 DEF TobinSpread, x, y
  <1>3. CASE None \notin {x, y}
    <2>1. x \in Int /\ y \in Int
      BY <1>1, <1>3
    <2>2. Max({x, y}) \in Int
      BY <2>1, MaxOfTwo
    <2> QED BY <1>3, <2>2 DEF TobinSpread, x, y
  <1> QED BY <1>2, <1>3

LEMMA PoolSpreadType ==
    ASSUME terraPoolDelta \in Int, NEW b \in Nat \ {0}, NEW o
    PROVE  PoolSpread(b, o) \in Int \cup {None}
  <1> DEFINE cp == Mul(BasePool, BasePool)
             terraPool == BasePool + terraPoolDelta
             lunaPool == Quo(cp, terraPool)
             offerPool == IF o = Luna THEN lunaPool ELSE terraPool
             askPool == IF o = Luna THEN terraPool ELSE lunaPool
             left == Quo(cp, offerPool + b)
             spread == Quo(b - (askPool - left), b)
  <1>1. PoolSpread(b, o) = IF terraPool = 0 \/ offerPool + b = 0 THEN None
                           ELSE Max({MinStabilitySpread, spread})
    BY DEF PoolSpread
  <1>2. BasePool \in Nat /\ MinStabilitySpread \in Int
    BY MarketAssumption, UnitAssumption DEF OneDec
  <1>3. cp \in Nat
    BY <1>2, DecTypes
  <1> HIDE DEF cp
  <1>4. SUFFICES ASSUME terraPool # 0, offerPool + b # 0
                 PROVE  Max({MinStabilitySpread, spread}) \in Int
    BY <1>1
  <1>5. terraPool \in Int
    BY <1>2
  <1> HIDE DEF terraPool
  <1>6. lunaPool \in Int
    BY <1>3, <1>4, <1>5, QuoIntegers
  <1> HIDE DEF lunaPool
  <1>7. offerPool \in Int /\ askPool \in Int
    BY <1>5, <1>6
  <1> HIDE DEF offerPool, askPool
  <1>8. left \in Int
    <2>1. cp \in Int /\ offerPool + b \in Int
      BY <1>3, <1>7
    <2> QED BY <1>4, <2>1, QuoIntegers
  <1> HIDE DEF left
  <1>9. spread \in Int
    <2>1. b - (askPool - left) \in Int /\ b \in Int /\ b # 0
      BY <1>7, <1>8
    <2> QED BY <2>1, QuoIntegers
  <1> HIDE DEF spread
  <1> QED BY <1>2, <1>9, MaxOfTwo
\* Arithmetic: the bounds of the two conversions, multiplied out.
LEMMA TwoConversions ==
    ASSUME NEW x \in Nat, NEW b \in Nat, NEW A \in Nat, NEW rd \in Nat, NEW re \in Nat, NEW rs \in Nat,
           NEW U \in Nat,
           2 * (b * rd) <= 2 * (x * rs) + rd,
           2 * (A * rs) <= 2 * (b * re) + U + rs
    PROVE  2 * ((A * rs) * rd) <= 2 * ((x * rs) * re) + rd * (re + U + rs)
  <1> DEFINE p == A * rs
             q == b * re
             v == b * rd
             w == x * rs
  <1>1. p \in Nat /\ q \in Nat /\ v \in Nat /\ w \in Nat
    BY Products
  <1>2. q * rd = v * re
    BY Z3
  <1> HIDE DEF p, q, v, w
  <1>3. (2 * p) * rd <= (2 * q + U + rs) * rd
    BY <1>1, TimesMonotone DEF p, q
  <1>4. (2 * v) * re <= (2 * w + rd) * re
    BY <1>1, TimesMonotone DEF v, w
  <1>5. (2 * p) * rd = 2 * (p * rd) /\ (2 * q + U + rs) * rd = 2 * (q * rd) + rd * (U + rs)
    BY <1>1, Z3
  <1>6. (2 * v) * re = 2 * (v * re) /\ (2 * w + rd) * re = 2 * (w * re) + rd * re
    BY <1>1, Z3
  <1>7. rd * (re + U + rs) = rd * re + rd * (U + rs)
    BY Z3
  <1> DEFINE P == p * rd
             Q == q * rd
             W == w * re
             k == rd * (U + rs)
             l == rd * re
             m == rd * (re + U + rs)
  <1>8. P \in Nat /\ Q \in Nat /\ W \in Nat /\ k \in Nat /\ l \in Nat
    <2>1. U + rs \in Nat
      OBVIOUS
    <2> QED BY <1>1, <2>1, Products
  <1>9. 2 * P <= 2 * Q + k /\ 2 * Q <= 2 * W + l /\ m = l + k
    BY <1>2, <1>3, <1>4, <1>5, <1>6, <1>7
  <1> HIDE DEF P, Q, W, k, l, m
  <1>10. 2 * P <= 2 * W + m
    BY <1>8, <1>9
  <1> QED BY <1>10 DEF P, W, m, p, w

\* A swap converts into SDR and out of it.  Multiplied out, with the rates of what
\* is offered, what is asked and SDR, the amount exceeds the exact one by no more
\* than the halves that rounding up adds.
LEMMA ComputeSwapIs ==
    ASSUME rates \in PriceTable, terraPoolDelta \in Int,
           NEW n \in Nat \ {0}, NEW d \in Denoms, NEW e \in Denoms, d # e,
           ComputeSwap(n, d, e) # None
    PROVE  LET swap == ComputeSwap(n, d, e)
               rd == LunaExchangeRate(d)
               re == LunaExchangeRate(e)
               rs == LunaExchangeRate(SDR)
           IN  /\ swap.amount \in Nat /\ swap.spread \in Int
               /\ rd \in Nat \ {0} /\ re \in Nat \ {0} /\ rs \in Nat \ {0}
               /\ 2 * ((swap.amount * rs) * rd)
                    <= 2 * (((n * Unit) * rs) * re) + rd * (re + Unit + rs)
  <1> DEFINE x == n * Unit
             b == ComputeInternalSwap(NewDec(n), d, SDR)
             A == ComputeInternalSwap(b, SDR, e)
             spread == IF Luna \notin {d, e} THEN TobinSpread(d, e) ELSE PoolSpread(b, d)
             rd == LunaExchangeRate(d)
             re == LunaExchangeRate(e)
             rs == LunaExchangeRate(SDR)
  <1>1. b # None /\ A # None /\ spread # None /\ ComputeSwap(n, d, e) = [amount |-> A, spread |-> spread]
    BY DEF ComputeSwap
  <1>2. SDR \in Denoms /\ Unit \in Nat \ {0}
    BY PricesAssumption, UnitAssumption DEF Denoms
  <1>3. x \in Nat \ {0}
    BY <1>2, Z3
  <1>4. b = InternalSwap(rates, x, d, SDR) /\ A = InternalSwap(rates, b, SDR, e)
    BY DEF ComputeInternalSwap, NewDec
  <1>5. /\ b \in Nat \ {0} /\ rd \in (Nat \ {0}) \cup {None}
        /\ d = SDR => b = x
        /\ d # SDR => rd \in Nat \ {0} /\ rs \in Nat \ {0} /\ 2 * (b * rd) <= 2 * (x * rs) + rd
    <2>1. CASE d = SDR
      BY <1>2, <1>3, <1>4, <2>1, RateType DEF InternalSwap, LunaExchangeRate
    <2>2. CASE d # SDR
      <3> HIDE DEF x, b
      <3>1. InternalSwap(rates, x, d, SDR) # None
        BY <1>1, <1>4
      <3>2. n \in Nat /\ x = n * Unit
        BY DEF x
      <3> QED BY <1>2, <1>3, <1>4, <2>2, <3>1, <3>2, ConvertAtMost DEF LunaExchangeRate
    <2> QED BY <2>1, <2>2
  <1> HIDE DEF b
  <1>6. /\ A \in Nat \ {0} /\ re \in (Nat \ {0}) \cup {None}
        /\ e = SDR => A = b
        /\ e # SDR => re \in Nat \ {0} /\ rs \in Nat \ {0} /\ 2 * (A * rs) <= 2 * (b * re) + Unit + rs
    <2>1. CASE e = SDR
      BY <1>2, <1>4, <1>5, <2>1, RateType DEF InternalSwap, LunaExchangeRate
    <2>2. CASE e # SDR
      <3> HIDE DEF A
      <3>1. InternalSwap(rates, b, SDR, e) # None
        BY <1>1, <1>4
      <3> QED BY <1>2, <1>4, <1>5, <2>2, <3>1, ConvertAtMost DEF LunaExchangeRate
    <2> QED BY <2>1, <2>2
  <1> HIDE DEF A
  <1>7. rd \in Nat \ {0} /\ re \in Nat \ {0} /\ rs \in Nat \ {0}
    BY <1>5, <1>6
  <1>8. /\ d = SDR => rd = rs
        /\ e = SDR => re = rs
    OBVIOUS
  <1>9. spread \in Int
    <2>1. CASE Luna \notin {d, e}
      <3>1. d \in Terra /\ e \in Terra
        BY <2>1 DEF Denoms
      <3> QED BY <1>1, <2>1, <3>1, TobinSpreadType
    <2>2. CASE Luna \in {d, e}
      BY <1>1, <1>5, <2>2, PoolSpreadType
    <2> QED BY <2>1, <2>2
  <1> HIDE DEF x, rd, re, rs, spread
  <1>10. 2 * (b * rd) <= 2 * (x * rs) + rd
    <2>1. CASE d = SDR
      <3>1. b * rd = x * rs /\ x * rs \in Nat
        BY <1>3, <1>5, <1>7, <1>8, <2>1, Products
      <3> QED BY <1>7, <3>1
    <2> QED BY <1>5, <2>1
  <1>11. 2 * (A * rs) <= 2 * (b * re) + Unit + rs
    <2>1. CASE e = SDR
      <3>1. A * rs = b * re /\ b * re \in Nat
        BY <1>5, <1>6, <1>7, <1>8, <2>1, Products
      <3> QED BY <1>2, <1>7, <3>1
    <2> QED BY <1>6, <2>1
  <1>12. 2 * ((A * rs) * rd) <= 2 * ((x * rs) * re) + rd * (re + Unit + rs)
    BY <1>2, <1>3, <1>5, <1>6, <1>7, <1>10, <1>11, TwoConversions
  <1> QED BY <1>1, <1>6, <1>7, <1>9, <1>12 DEF x, rd, re, rs

LEMMA TruncateBelow ==
    ASSUME NEW x \in Nat
    PROVE  /\ TruncateInt(x) \in Nat /\ TruncateInt(x) * Unit \in Nat
           /\ TruncateInt(x) * Unit <= x
  <1> DEFINE w == x \div Unit
  <1>1. Unit \in Nat \ {0}
    BY UnitAssumption
  <1>2. TruncateInt(x) = w
    BY <1>1, TruncQuoType, Zenon DEF TruncateInt
  <1>3. w \in Nat /\ (x % Unit) \in 0..(Unit - 1) /\ x = w * Unit + (x % Unit)
    BY <1>1, DivDef, ZenonT(30)
  <1> HIDE DEF w
  <1>4. w * Unit \in Nat
    BY <1>1, <1>3, Products
  <1>5. w * Unit <= x
    BY <1>3, <1>4
  <1> QED BY <1>2, <1>3, <1>4, <1>5

\* The trader's coins and the fee together are the amount, truncated once.
LEMMA SwapCoinsAre ==
    ASSUME NEW swap, swap.amount \in Nat, swap.spread \in Int, SwapCoins(swap).ret >= 0
    PROVE  LET coins == SwapCoins(swap)
           IN  /\ coins.ret \in Nat /\ coins.swapCoin \in Nat /\ coins.feeCoin \in Nat
               /\ MintCoins(coins) \in Nat
               /\ MintCoins(coins) = coins.swapCoin + coins.feeCoin
               /\ MintCoins(coins) * Unit <= swap.amount
  <1> DEFINE A == swap.amount
             fee == IF swap.spread > 0 THEN Mul(swap.spread, A) ELSE 0
             ret == A - fee
             s == TruncateInt(ret)
             left == fee + ret - NewDec(s)
             f == TruncateInt(left)
  <1>1. SwapCoins(swap) = [ret |-> ret, swapCoin |-> s, feeCoin |-> f]
    BY DEF SwapCoins
  <1>2. Unit \in Nat \ {0}
    BY UnitAssumption
  <1>3. fee \in Nat
    <2>1. CASE swap.spread > 0
      <3>1. swap.spread \in Nat /\ A \in Nat
        BY <2>1
      <3>2. Mul(swap.spread, A) \in Nat
        BY <3>1, DecTypes, ZenonT(30)
      <3> QED BY <2>1, <3>2
    <2> QED BY <2>1
  <1>4. ret >= 0
    BY <1>1
  <1> HIDE DEF fee
  <1>5. ret \in Nat /\ fee + ret = A
    BY <1>3, <1>4
  <1> HIDE DEF ret
  <1>6. s \in Nat /\ s * Unit \in Nat /\ s * Unit <= ret
    BY <1>2, <1>5, TruncateBelow
  <1> HIDE DEF s
  <1>7. left \in Nat /\ left = A - s * Unit
    BY <1>3, <1>5, <1>6 DEF NewDec
  <1> HIDE DEF left
  <1>8. f \in Nat /\ f * Unit \in Nat /\ f * Unit <= left
    BY <1>2, <1>7, TruncateBelow
  <1> HIDE DEF f
  <1>9. (s + f) * Unit = s * Unit + f * Unit
    BY <1>2, <1>6, <1>8, Z3
  <1>10. (s + f) * Unit <= A
    <2> DEFINE u == s * Unit
               v == f * Unit
               w == (s + f) * Unit
    <2>1. u \in Nat /\ v \in Nat /\ w = u + v /\ v <= left /\ left = A - u
      BY <1>6, <1>7, <1>8, <1>9
    <2> HIDE DEF u, v, w, A
    <2>2. A \in Nat
      BY DEF A
    <2>3. w <= A
      BY <1>7, <2>1, <2>2
    <2> QED BY <2>3 DEF w
  <1>11. MintCoins(SwapCoins(swap)) = s + f
    BY <1>1 DEF MintCoins
  <1> QED BY <1>1, <1>5, <1>6, <1>8, <1>10, <1>11
-----------------------------------------------------------------------------
(* The invariant *)

TypeOK ==
    /\ terraPoolDelta \in Int
    /\ balances \in [Accounts -> [Denoms -> Nat]]
    /\ oracleAccount \in [Denoms -> Nat]
    /\ supply \in [Denoms -> Nat]
    /\ rates \in RateTables

\* Every coin of the supply is in an account or with the oracle module: a swap
\* burns and mints exactly what it takes from the trader and gives to the receiver
\* and the oracle (handleSwapRequest).
SupplyHeld == \A d \in Denoms : supply[d] = Held(d)

MarketInv == TypeOK /\ SupplyHeld

\* Coins of one denomination in the accounts.
Coins(purses, d) == SumFunctionOnSet([a \in Accounts |-> purses[a][d]], Accounts)

LEMMA CoinsType ==
    ASSUME NEW purses \in [Accounts -> [Denoms -> Nat]], NEW d \in Denoms
    PROVE  Coins(purses, d) \in Nat
  <1> DEFINE f == [a \in Accounts |-> purses[a][d]]
  <1>1. \A a \in Accounts : f[a] \in Nat
    OBVIOUS
  <1>2. IsFiniteSet(Accounts)
    BY MarketAssumption
  <1>3. Coins(purses, d) = SumFunctionOnSet(f, Accounts)
    BY DEF Coins
  <1> HIDE DEF f
  <1> QED BY <1>1, <1>2, <1>3, SumNat

\* One purse changes in one denomination.
Changed(purses, new, t, o, v) == new = [purses EXCEPT ![t][o] = v]

LEMMA OnePurse ==
    ASSUME NEW purses \in [Accounts -> [Denoms -> Nat]],
           NEW t \in Accounts, NEW o \in Denoms, NEW v \in Nat,
           NEW new, Changed(purses, new, t, o, v)
    PROVE  /\ new \in [Accounts -> [Denoms -> Nat]]
           /\ Coins(new, o) = Coins(purses, o) + (v - purses[t][o])
           /\ \A d \in Denoms \ {o} : Coins(new, d) = Coins(purses, d)
  <1> DEFINE F(p, d) == [a \in Accounts |-> p[a][d]]
  <1>1. /\ new \in [Accounts -> [Denoms -> Nat]] /\ new[t][o] = v
        /\ \A a \in Accounts, d \in Denoms : <<a, d>> # <<t, o>> => new[a][d] = purses[a][d]
    BY DEF Changed
  <1>2. IsFiniteSet(Accounts)
    BY MarketAssumption
  <1>3. \A d \in Denoms : \A a \in Accounts : F(purses, d)[a] \in Int /\ F(new, d)[a] \in Int
    BY <1>1
  <1>4. Coins(new, o) = Coins(purses, o) + (v - purses[t][o])
    <2> DEFINE f == F(purses, o)
               h == F(new, o)
    <2>1. \A a \in Accounts : f[a] \in Int
      OBVIOUS
    <2>2. h[t] = v /\ f[t] = purses[t][o] /\ \A a \in Accounts \ {t} : h[a] = f[a]
      BY <1>1
    <2>3. Coins(new, o) = SumFunctionOnSet(h, Accounts) /\ Coins(purses, o) = SumFunctionOnSet(f, Accounts)
      BY DEF Coins
    <2> HIDE DEF f, h
    <2>4. h[t] \in Int
      BY <2>2
    <2>5. SumFunctionOnSet(h, Accounts) = SumFunctionOnSet(f, Accounts) + (h[t] - f[t])
      BY <1>2, <2>1, <2>2, <2>4, SumUpdate
    <2> QED BY <2>2, <2>3, <2>5
  <1>5. ASSUME NEW d \in Denoms \ {o}
        PROVE  Coins(new, d) = Coins(purses, d)
    <2>1. \A a \in Accounts : new[a][d] = purses[a][d]
      BY <1>1
    <2>2. F(new, d) = F(purses, d)
      BY <2>1
    <2> QED BY <2>2 DEF Coins
  <1> QED BY <1>1, <1>4, <1>5

LEMMA HeldIs ==
    \A d : Held(d) = Coins(balances, d) + oracleAccount[d]
  BY DEF Held, Coins

LEMMA InitInv == Init => MarketInv
  <1> SUFFICES ASSUME Init PROVE MarketInv
    OBVIOUS
  <1>1. /\ balances \in [Accounts -> [Denoms -> Nat]] /\ terraPoolDelta \in Int
        /\ oracleAccount = [d \in Denoms |-> 0] /\ rates \in RateTables
        /\ supply = [d \in Denoms |-> Held(d)]
    BY MarketAssumption DEF Init
  <1>2. \A d \in Denoms : Held(d) \in Nat
    <2> TAKE d \in Denoms
    <2>1. Coins(balances, d) \in Nat
      BY <1>1, CoinsType
    <2> QED BY <1>1, <2>1, HeldIs
  <1> QED BY <1>1, <1>2 DEF MarketInv, TypeOK, SupplyHeld
LEMMA ConvertType ==
    ASSUME NEW prices \in PriceTable, NEW x \in Nat, NEW o \in Denoms, NEW a \in Denoms
    PROVE  InternalSwap(prices, x, o, a) \in Nat \cup {None}
  <1>1. CASE o = a
    BY <1>1 DEF InternalSwap
  <1>2. CASE o # a /\ InternalSwap(prices, x, o, a) # None
    BY <1>2, ConvertAtMost
  <1> QED BY <1>1, <1>2

-----------------------------------------------------------------------------
(* Swaps *)

\* What a swap does to the coins: s for the receiver, f for the oracle module.
Moves(trader, receiver, n, d, e, s, f) ==
    /\ n <= balances[trader][d]
    /\ balances' = [[balances EXCEPT ![trader][d] = @ - n] EXCEPT ![receiver][e] = @ + s]
    /\ oracleAccount' = [oracleAccount EXCEPT ![e] = @ + f]
    /\ supply' = [supply EXCEPT ![d] = @ - n, ![e] = @ + (s + f)]

LEMMA SwapMoves ==
    ASSUME MarketInv, NEW trader \in Accounts, NEW receiver \in Accounts, NEW n \in Offers,
           NEW d \in Denoms, NEW e \in Denoms, HandleSwapRequest(trader, receiver, n, d, e)
    PROVE  \E s, f \in Nat :
              LET rd == LunaExchangeRate(d)
                  re == LunaExchangeRate(e)
                  rs == LunaExchangeRate(SDR)
              IN  /\ d # e /\ Moves(trader, receiver, n, d, e, s, f)
                  /\ terraPoolDelta' \in Int /\ rates' = rates
                  /\ rd \in Nat \ {0} /\ re \in Nat \ {0} /\ rs \in Nat \ {0}
                  /\ \E A \in Nat : /\ (s + f) * Unit <= A
                                    /\ 2 * ((A * rs) * rd)
                                        <= 2 * (((n * Unit) * rs) * re) + rd * (re + Unit + rs)
  <1> DEFINE swap == ComputeSwap(n, d, e)
             coins == SwapCoins(swap)
             delta == ApplySwapToPool(n, d, coins.ret, e)
             rd == LunaExchangeRate(d)
             re == LunaExchangeRate(e)
             rs == LunaExchangeRate(SDR)
  <1>1. /\ d # e /\ swap # None /\ coins.ret >= 0 /\ delta # None
        /\ n <= balances[trader][d] /\ terraPoolDelta' = delta /\ rates' = rates
        /\ balances' = [[balances EXCEPT ![trader][d] = @ - n] EXCEPT ![receiver][e] = @ + coins.swapCoin]
        /\ oracleAccount' = [oracleAccount EXCEPT ![e] = @ + coins.feeCoin]
        /\ supply' = [supply EXCEPT ![d] = @ - n, ![e] = @ + MintCoins(coins)]
    BY DEF HandleSwapRequest, CanSend
  <1>2. /\ rates \in PriceTable /\ terraPoolDelta \in Int /\ n \in Nat \ {0}
        /\ SDR \in Denoms
    BY MarketAssumption, PricesAssumption DEF MarketInv, TypeOK, Denoms
  <1>3. /\ swap.amount \in Nat /\ swap.spread \in Int
        /\ rd \in Nat \ {0} /\ re \in Nat \ {0} /\ rs \in Nat \ {0}
        /\ 2 * ((swap.amount * rs) * rd)
             <= 2 * (((n * Unit) * rs) * re) + rd * (re + Unit + rs)
    BY <1>1, <1>2, ComputeSwapIs
  <1> HIDE DEF swap
  <1>4. /\ coins.ret \in Nat /\ coins.swapCoin \in Nat /\ coins.feeCoin \in Nat
        /\ MintCoins(coins) = coins.swapCoin + coins.feeCoin
        /\ MintCoins(coins) * Unit <= swap.amount
    BY <1>1, <1>3, SwapCoinsAre
  <1> HIDE DEF coins
  <1>5. delta \in Int
    <2> DEFINE o == ComputeInternalSwap(NewDec(n), d, SDR)
               a == ComputeInternalSwap(coins.ret, e, SDR)
    <2>1. NewDec(n) \in Nat
      BY <1>2, DecTypes
    <2>2. o \in Nat \cup {None} /\ a \in Nat \cup {None}
      BY <1>2, <1>4, <2>1, ConvertType DEF ComputeInternalSwap
    <2>3. delta = IF Luna \notin {d, e} THEN terraPoolDelta
                  ELSE IF (IF e = Luna THEN o ELSE a) = None THEN None
                  ELSE IF e = Luna THEN terraPoolDelta + o ELSE terraPoolDelta - a
      BY DEF ApplySwapToPool
    <2> HIDE DEF o, a
    <2> QED BY <1>1, <1>2, <2>2, <2>3
  <1> HIDE DEF delta
  <1>6. Moves(trader, receiver, n, d, e, coins.swapCoin, coins.feeCoin)
    BY <1>1, <1>4 DEF Moves
  <1>7. \E A \in Nat : /\ (coins.swapCoin + coins.feeCoin) * Unit <= A
                       /\ 2 * ((A * rs) * rd)
                            <= 2 * (((n * Unit) * rs) * re) + rd * (re + Unit + rs)
    <2>1. swap.amount \in Nat
      BY <1>3
    <2>2. /\ (coins.swapCoin + coins.feeCoin) * Unit <= swap.amount
          /\ 2 * ((swap.amount * rs) * rd)
               <= 2 * (((n * Unit) * rs) * re) + rd * (re + Unit + rs)
      BY <1>3, <1>4
    <2> HIDE DEF rd, re, rs
    <2> QED BY <2>1, <2>2, Zenon
  <1> HIDE DEF rd, re, rs
  <1>8. /\ d # e /\ terraPoolDelta' \in Int /\ rates' = rates
        /\ rd \in Nat \ {0} /\ re \in Nat \ {0} /\ rs \in Nat \ {0}
    BY <1>1, <1>3, <1>5
  <1> QED BY <1>4, <1>6, <1>7, <1>8, Zenon DEF rd, re, rs

\* And so a swap keeps the supply what is held.
LEMMA MovesKeep ==
    ASSUME MarketInv, NEW trader \in Accounts, NEW receiver \in Accounts, NEW n \in Nat,
           NEW d \in Denoms, NEW e \in Denoms, d # e, NEW s \in Nat, NEW f \in Nat,
           Moves(trader, receiver, n, d, e, s, f)
    PROVE  /\ balances' \in [Accounts -> [Denoms -> Nat]] /\ oracleAccount' \in [Denoms -> Nat]
           /\ supply' \in [Denoms -> Nat] /\ SupplyHeld'
           /\ supply'[d] = supply[d] - n /\ supply'[e] = supply[e] + (s + f)
           /\ \A c \in Denoms \ {d, e} : supply'[c] = supply[c]
  <1>1. /\ balances \in [Accounts -> [Denoms -> Nat]] /\ oracleAccount \in [Denoms -> Nat]
        /\ supply \in [Denoms -> Nat]
        /\ \A c \in Denoms : supply[c] = Coins(balances, c) + oracleAccount[c]
    BY HeldIs DEF MarketInv, TypeOK, SupplyHeld
  <1> DEFINE left == balances[trader][d] - n
             paid == [balances EXCEPT ![trader][d] = left]
             got == paid[receiver][e] + s
             new == [paid EXCEPT ![receiver][e] = got]
  <1>2. left \in Nat
    BY <1>1 DEF Moves
  <1>3. balances' = new
    BY <1>1 DEF Moves
  <1> HIDE DEF left
  <1>4. /\ paid \in [Accounts -> [Denoms -> Nat]]
        /\ Coins(paid, d) = Coins(balances, d) + (left - balances[trader][d])
        /\ \A c \in Denoms \ {d} : Coins(paid, c) = Coins(balances, c)
    <2>1. Changed(balances, paid, trader, d, left)
      BY DEF Changed
    <2> HIDE DEF paid
    <2> QED BY <1>1, <1>2, <2>1, OnePurse
  <1> HIDE DEF paid
  <1>5. got \in Nat
    BY <1>4
  <1> HIDE DEF got
  <1>6. /\ new \in [Accounts -> [Denoms -> Nat]]
        /\ Coins(new, e) = Coins(paid, e) + (got - paid[receiver][e])
        /\ \A c \in Denoms \ {e} : Coins(new, c) = Coins(paid, c)
    <2>1. Changed(paid, new, receiver, e, got)
      BY DEF Changed
    <2> HIDE DEF new
    <2> QED BY <1>4, <1>5, <2>1, OnePurse
  <1> HIDE DEF new
  <1>7. \A c \in Denoms : Coins(balances, c) \in Nat /\ Coins(paid, c) \in Nat
    BY <1>1, <1>4, CoinsType
  <1>8. left - balances[trader][d] = -n /\ got - paid[receiver][e] = s
    <2>1. balances[trader][d] \in Nat /\ paid[receiver][e] \in Nat
      BY <1>1, <1>4
    <2> QED BY <2>1 DEF left, got
  <1>9. /\ Coins(new, d) = Coins(balances, d) - n
        /\ Coins(new, e) = Coins(balances, e) + s
        /\ \A c \in Denoms \ {d, e} : Coins(new, c) = Coins(balances, c)
    BY <1>4, <1>6, <1>7, <1>8
  <1>10. /\ oracleAccount' \in [Denoms -> Nat] /\ oracleAccount'[e] = oracleAccount[e] + f
         /\ \A c \in Denoms \ {e} : oracleAccount'[c] = oracleAccount[c]
    BY <1>1 DEF Moves
  <1>11. /\ supply' \in [Denoms -> Int]
         /\ supply'[d] = supply[d] - n /\ supply'[e] = supply[e] + (s + f)
         /\ \A c \in Denoms \ {d, e} : supply'[c] = supply[c]
    BY <1>1 DEF Moves
  <1>12. \A c \in Denoms : Coins(new, c) \in Nat
    BY <1>6, CoinsType
  <1>13. \A c \in Denoms : supply'[c] = Coins(new, c) + oracleAccount'[c]
    <2> TAKE c \in Denoms
    <2>1. oracleAccount[c] \in Nat /\ supply[c] = Coins(balances, c) + oracleAccount[c]
      BY <1>1
    <2>2. CASE c = d
      BY <1>7, <1>9, <1>10, <1>11, <2>1, <2>2
    <2>3. CASE c = e
      BY <1>7, <1>9, <1>10, <1>11, <2>1, <2>3
    <2>4. CASE c \in Denoms \ {d, e}
      BY <1>7, <1>9, <1>10, <1>11, <2>1, <2>4
    <2> QED BY <2>2, <2>3, <2>4
  <1>14. supply' \in [Denoms -> Nat]
    BY <1>10, <1>11, <1>12, <1>13
  <1>15. SupplyHeld'
    BY <1>3, <1>13 DEF SupplyHeld, Held, Coins
  <1> QED BY <1>3, <1>6, <1>10, <1>11, <1>14, <1>15
-----------------------------------------------------------------------------
(* Steps *)

\* Every swap, by either message, moves coins.
SwapStep ==
    \E trader, receiver \in Accounts, n \in Offers, d, e \in Denoms :
        HandleSwapRequest(trader, receiver, n, d, e)

LEMMA NextIs == Next => SwapStep \/ EndBlock
  BY DEF Next, Swap, SwapSend, SwapStep

LEMMA NextInv == MarketInv /\ [Next]_vars => MarketInv'
  <1> SUFFICES ASSUME MarketInv, [Next]_vars PROVE MarketInv'
    OBVIOUS
  <1>1. CASE SwapStep
    <2>1. PICK trader \in Accounts, receiver \in Accounts, n \in Offers, d \in Denoms, e \in Denoms :
              HandleSwapRequest(trader, receiver, n, d, e)
      BY <1>1 DEF SwapStep
    <2>2. PICK s \in Nat, f \in Nat :
              /\ d # e /\ Moves(trader, receiver, n, d, e, s, f)
              /\ terraPoolDelta' \in Int /\ rates' = rates
      BY <2>1, SwapMoves, Zenon
    <2>3. n \in Nat
      BY MarketAssumption
    <2>4. /\ balances' \in [Accounts -> [Denoms -> Nat]] /\ oracleAccount' \in [Denoms -> Nat]
          /\ supply' \in [Denoms -> Nat] /\ SupplyHeld'
      BY <2>2, <2>3, MovesKeep
    <2> QED BY <2>2, <2>4 DEF MarketInv, TypeOK
  <1>2. CASE EndBlock
    <2>1. terraPoolDelta \in Int /\ PoolRecoveryPeriod \in Int /\ PoolRecoveryPeriod # 0
      BY MarketAssumption DEF MarketInv, TypeOK
    <2>2. QuoInt(terraPoolDelta, PoolRecoveryPeriod) \in Int
      BY <2>1, TruncQuoInt DEF QuoInt
    <2>3. terraPoolDelta' \in Int
      BY <1>2, <2>1, <2>2 DEF EndBlock, ReplenishPools
    <2>4. SupplyHeld'
      BY <1>2 DEF EndBlock, MarketInv, SupplyHeld, Held
    <2> QED BY <1>2, <2>3, <2>4 DEF EndBlock, MarketInv, TypeOK
  <1>3. CASE UNCHANGED vars
    BY <1>3 DEF vars, MarketInv, TypeOK, SupplyHeld, Held
  <1> QED BY <1>1, <1>2, <1>3, NextIs

LEMMA MarketInvariant == Spec => []MarketInv
  BY InitInv, NextInv, PTL DEF Spec

\* Swaps conserve coins, over every interleaving of swaps of any accounts and
\* blocks: the supply of every denomination is the coins of the accounts and of the
\* oracle module, fees and truncated decimals included, and no balance is negative.
THEOREM SupplyIsHeld == Spec => [](TypeOK /\ SupplyHeld)
  BY MarketInvariant, PTL DEF MarketInv

-----------------------------------------------------------------------------
(* What a swap mints *)

\* The worth, at the rates rd and re of Luna in what is offered and what is asked,
\* of M coins minted exceeds that of n coins burned by no more than two roundings.
WithinRounding(n, M, rd, re, rs) ==
    2 * ((Unit * rs) * (M * rd - n * re)) <= rd * (re + Unit + rs)

\* Arithmetic: from the amount before truncation to the coins minted.
LEMMA AmountBoundsMint ==
    ASSUME NEW n \in Nat, NEW M \in Nat, NEW A \in Nat,
           NEW rd \in Nat, NEW re \in Nat, NEW rs \in Nat, NEW k \in Nat, NEW U \in Nat,
           M * U <= A,
           2 * ((A * rs) * rd) <= 2 * (((n * U) * rs) * re) + k
    PROVE  2 * ((U * rs) * (M * rd - n * re)) <= k
  <1> DEFINE p == M * U
             r == rs * rd
             x == p * r
             y == A * r
             z == ((n * U) * rs) * re
             w == (U * rs) * (M * rd - n * re)
  <1>1. p \in Nat /\ r \in Nat
    BY Products
  <1>2. (A * rs) * rd = y
    BY Z3
  <1>3. w = x - z
    BY Z3
  <1>4. z \in Nat
    <2>1. n * U \in Nat
      BY Products
    <2>2. (n * U) * rs \in Nat
      BY <2>1, Products
    <2> QED BY <2>2, Products
  <1> HIDE DEF p, r
  <1>5. x \in Nat /\ y \in Nat
    BY <1>1, Products
  <1>6. x <= y
    BY <1>1, TimesMonotone DEF p
  <1>7. 2 * y <= 2 * z + k
    BY <1>2
  <1> HIDE DEF x, y, z, w
  <1>8. 2 * w <= k
    BY <1>3, <1>4, <1>5, <1>6, <1>7
  <1> QED BY <1>8 DEF w

\* A swap mints within rounding.
LEMMA SwapWithinRounding ==
    ASSUME MarketInv, NEW trader \in Accounts, NEW receiver \in Accounts, NEW n \in Offers,
           NEW d \in Denoms, NEW e \in Denoms, HandleSwapRequest(trader, receiver, n, d, e)
    PROVE  \E M \in Nat :
              LET rd == LunaExchangeRate(d)
                  re == LunaExchangeRate(e)
                  rs == LunaExchangeRate(SDR)
              IN  /\ d # e /\ rd \in Nat \ {0} /\ re \in Nat \ {0} /\ rs \in Nat \ {0}
                  /\ WithinRounding(n, M, rd, re, rs)
                  /\ supply'[d] = supply[d] - n /\ supply'[e] = supply[e] + M
                  /\ \A c \in Denoms \ {d, e} : supply'[c] = supply[c]
  <1> DEFINE rd == LunaExchangeRate(d)
             re == LunaExchangeRate(e)
             rs == LunaExchangeRate(SDR)
             k == rd * (re + Unit + rs)
  <1>1. PICK s \in Nat, f \in Nat :
            /\ d # e /\ Moves(trader, receiver, n, d, e, s, f)
            /\ rd \in Nat \ {0} /\ re \in Nat \ {0} /\ rs \in Nat \ {0}
            /\ \E A \in Nat : /\ (s + f) * Unit <= A
                              /\ 2 * ((A * rs) * rd) <= 2 * (((n * Unit) * rs) * re) + k
    BY SwapMoves, Zenon
  <1>2. PICK A \in Nat : /\ (s + f) * Unit <= A
                         /\ 2 * ((A * rs) * rd) <= 2 * (((n * Unit) * rs) * re) + k
    BY <1>1
  <1>3. n \in Nat /\ Unit \in Nat /\ s + f \in Nat
    BY MarketAssumption, UnitAssumption
  <1> HIDE DEF rd, re, rs
  <1>4. k \in Nat
    <2>1. re + Unit + rs \in Nat
      BY <1>1, <1>3
    <2> QED BY <1>1, <2>1, Products
  <1> HIDE DEF k
  <1>5. 2 * ((Unit * rs) * ((s + f) * rd - n * re)) <= k
    BY <1>1, <1>2, <1>3, <1>4, AmountBoundsMint
  <1>6. WithinRounding(n, s + f, rd, re, rs)
    BY <1>5 DEF WithinRounding, k
  <1>7. /\ supply'[d] = supply[d] - n /\ supply'[e] = supply[e] + (s + f)
        /\ \A c \in Denoms \ {d, e} : supply'[c] = supply[c]
    BY <1>1, <1>3, MovesKeep
  <1> DEFINE M == s + f
  <1>8. M \in Nat /\ d # e /\ rd \in Nat \ {0} /\ re \in Nat \ {0} /\ rs \in Nat \ {0}
    BY <1>1, <1>3
  <1>9. /\ WithinRounding(n, M, rd, re, rs)
        /\ supply'[d] = supply[d] - n /\ supply'[e] = supply[e] + M
        /\ \A c \in Denoms \ {d, e} : supply'[c] = supply[c]
    BY <1>6, <1>7
  <1> HIDE DEF M
  <1> QED BY <1>8, <1>9, Zenon DEF rd, re, rs
\* What a step mints of one denomination and burns of another.
MintsWithinRounding ==
    \A d, e \in Denoms : supply'[d] < supply[d] /\ supply'[e] > supply[e] =>
        WithinRounding(supply[d] - supply'[d], supply'[e] - supply[e],
                       LunaExchangeRate(d), LunaExchangeRate(e), LunaExchangeRate(SDR))

\* The step's burnt and minted coins are the swap's.
LEMMA StepIsSwap ==
    ASSUME MarketInv, [Next]_vars, NEW d \in Denoms, NEW e \in Denoms,
           supply'[d] < supply[d], supply'[e] > supply[e]
    PROVE  LET rd == LunaExchangeRate(d)
               re == LunaExchangeRate(e)
               rs == LunaExchangeRate(SDR)
               n == supply[d] - supply'[d]
               M == supply'[e] - supply[e]
           IN  /\ n \in Offers /\ M \in Nat
               /\ rd \in Nat \ {0} /\ re \in Nat \ {0} /\ rs \in Nat \ {0}
               /\ WithinRounding(n, M, rd, re, rs)
  <1>1. \A c \in Denoms : supply[c] \in Nat
    BY DEF MarketInv, TypeOK
  <1>2. SwapStep
    <2>1. ~UNCHANGED vars
      BY <1>1 DEF vars
    <2>2. ~EndBlock
      BY <1>1 DEF EndBlock
    <2> QED BY <2>1, <2>2, NextIs
  <1>3. PICK trader \in Accounts, receiver \in Accounts, n \in Offers, o \in Denoms, a \in Denoms :
            HandleSwapRequest(trader, receiver, n, o, a)
    BY <1>2 DEF SwapStep
  <1> DEFINE ro == LunaExchangeRate(o)
             ra == LunaExchangeRate(a)
             rs == LunaExchangeRate(SDR)
  <1>4. PICK M \in Nat :
            /\ o # a /\ ro \in Nat \ {0} /\ ra \in Nat \ {0} /\ rs \in Nat \ {0}
            /\ WithinRounding(n, M, ro, ra, rs)
            /\ supply'[o] = supply[o] - n /\ supply'[a] = supply[a] + M
            /\ \A c \in Denoms \ {o, a} : supply'[c] = supply[c]
    BY <1>3, SwapWithinRounding
  <1>5. n \in Nat
    BY MarketAssumption
  <1> HIDE DEF ro, ra, rs
  <1>6. d = o /\ e = a
    BY <1>1, <1>4, <1>5
  <1>7. supply[d] - supply'[d] = n /\ supply'[e] - supply[e] = M
    BY <1>1, <1>4, <1>5, <1>6
  <1> QED BY <1>3, <1>4, <1>6, <1>7 DEF ro, ra, rs

\* For any rates, pools, taxes and offers: what a swap mints, the fee included,
\* is worth no more at the oracle's rates than what it burns, but for the two
\* roundings of its conversions: (re + Unit + rs) / (2 * Unit * rs) of a coin asked.
THEOREM MintsWhatItBurns == Spec => [][MintsWithinRounding]_vars
  <1>1. MarketInv /\ [Next]_vars => MintsWithinRounding
    <2> SUFFICES ASSUME MarketInv, [Next]_vars, NEW d \in Denoms, NEW e \in Denoms,
                        supply'[d] < supply[d], supply'[e] > supply[e]
                 PROVE  WithinRounding(supply[d] - supply'[d], supply'[e] - supply[e],
                            LunaExchangeRate(d), LunaExchangeRate(e), LunaExchangeRate(SDR))
      BY DEF MintsWithinRounding
    <2> QED BY StepIsSwap, Zenon
  <1> QED BY <1>1, MarketInvariant, PTL DEF Spec

\* No amount offered comes, at any of the oracle's rates, so close below a whole
\* number of the coins asked that rounding up reaches it.
OffersClear ==
    \A prices \in RateTables, n \in Offers, d, e \in Denoms :
        LET rd == LunaRate(prices, d)
            re == LunaRate(prices, e)
            rs == LunaRate(prices, SDR)
        IN  None \in {rd, re, rs}
            \/ rd * (re + Unit + rs) < 2 * ((Unit * rs) * (rd - ((n * re) % rd)))

\* Arithmetic: coins are whole, so an excess is at least what is missing to the
\* next whole coin.
LEMMA ExcessIsWhole ==
    ASSUME NEW n \in Nat, NEW M \in Nat, NEW rd \in Nat \ {0}, NEW re \in Nat, M * rd > n * re
    PROVE  /\ rd - ((n * re) % rd) \in Nat /\ M * rd - n * re \in Nat
           /\ rd - ((n * re) % rd) <= M * rd - n * re
  <1> DEFINE a == n * re
             q == a \div rd
             m == a % rd
  <1>1. a \in Nat
    BY Products
  <1> HIDE DEF a
  <1>2. q \in Nat /\ m \in 0..(rd - 1) /\ a = q * rd + m
    BY <1>1, DivDef, ZenonT(30)
  <1> HIDE DEF q, m
  <1>3. M * rd \in Nat /\ q * rd \in Nat
    BY <1>2, Products
  <1>4. q + 1 <= M
    <2> SUFFICES ASSUME M <= q PROVE FALSE
      BY <1>2
    <2>1. M * rd <= q * rd
      BY <1>2, TimesMonotone
    <2>2. M * rd > a
      BY DEF a
    <2> QED BY <1>1, <1>2, <1>3, <2>1, <2>2
  <1>5. q * rd + rd <= M * rd
    <2>1. (q + 1) * rd <= M * rd
      BY <1>2, <1>4, TimesMonotone
    <2>2. (q + 1) * rd = q * rd + rd
      BY <1>2, Z3
    <2> QED BY <2>1, <2>2
  <1>6. rd - m \in Nat /\ M * rd - a \in Nat /\ rd - m <= M * rd - a
    <2> DEFINE x == q * rd
               y == M * rd
    <2>1. x \in Nat /\ y \in Nat /\ x + rd <= y /\ a = x + m
      BY <1>2, <1>3, <1>5
    <2> HIDE DEF x, y
    <2>2. rd - m \in Nat /\ y - a \in Nat /\ rd - m <= y - a
      BY <1>1, <1>2, <2>1
    <2> QED BY <2>2 DEF y
  <1> QED BY <1>6 DEF a, m

\* Such offers mint no more than they burn, whatever the accounts, pools and taxes.
\* Without the premise it fails by rounding alone, on an offer worth all but less
\* than a unit of the last decimal of a whole coin.
THEOREM ClearOffersMintNoMore ==
    ASSUME OffersClear
    PROVE  Spec => MintedWorthNoMore
  <1> DEFINE Step == \A d, e \in Denoms : supply'[d] < supply[d] /\ supply'[e] > supply[e] =>
                        (supply'[e] - supply[e]) * LunaExchangeRate(d)
                            <= (supply[d] - supply'[d]) * LunaExchangeRate(e)
  <1>1. MarketInv /\ [Next]_vars => Step
    <2> SUFFICES ASSUME MarketInv, [Next]_vars, NEW d \in Denoms, NEW e \in Denoms,
                        supply'[d] < supply[d], supply'[e] > supply[e]
                 PROVE  (supply'[e] - supply[e]) * LunaExchangeRate(d)
                            <= (supply[d] - supply'[d]) * LunaExchangeRate(e)
      OBVIOUS
    <2> DEFINE rd == LunaExchangeRate(d)
               re == LunaExchangeRate(e)
               rs == LunaExchangeRate(SDR)
               n == supply[d] - supply'[d]
               M == supply'[e] - supply[e]
               gap == rd - ((n * re) % rd)
               over == M * rd - n * re
    <2>1. /\ n \in Offers /\ M \in Nat
          /\ rd \in Nat \ {0} /\ re \in Nat \ {0} /\ rs \in Nat \ {0}
          /\ WithinRounding(n, M, rd, re, rs)
      BY StepIsSwap, Zenon
    <2>2. rates \in RateTables /\ n \in Nat /\ Unit \in Nat \ {0} /\ None \notin {rd, re, rs}
      <3>1. rates \in RateTables
        BY DEF MarketInv, TypeOK
      <3> HIDE DEF n, rd, re, rs
      <3>2. n \in Nat /\ Unit \in Nat \ {0}
        BY <2>1, MarketAssumption, UnitAssumption
      <3>3. None \notin {rd, re, rs}
        BY <2>1, PricesAssumption
      <3> QED BY <3>1, <3>2, <3>3
    <2>3. rd * (re + Unit + rs) < 2 * ((Unit * rs) * gap)
      <3>1. None \in {rd, re, rs} \/ rd * (re + Unit + rs) < 2 * ((Unit * rs) * gap)
        BY <2>1, <2>2, Zenon DEF OffersClear, LunaExchangeRate
      <3> QED BY <2>2, <3>1
    <2> HIDE DEF rd, re, rs, n, M
    <2>4. 2 * ((Unit * rs) * over) <= rd * (re + Unit + rs)
      BY <2>1 DEF WithinRounding
    <2>5. M * rd \in Nat /\ n * re \in Nat /\ Unit * rs \in Nat
      BY <2>1, <2>2, Products
    <2>6. ASSUME M * rd > n * re PROVE FALSE
      <3>1. gap \in Nat /\ over \in Nat /\ gap <= over
        BY <2>1, <2>2, <2>6, ExcessIsWhole
      <3> HIDE DEF gap, over
      <3> DEFINE u == Unit * rs
                 x == gap * u
                 y == over * u
                 k == rd * (re + Unit + rs)
      <3>2. u \in Nat
        BY <2>5
      <3>3. u * gap = x /\ u * over = y
        BY <3>1, <3>2, Z3
      <3>4. k \in Nat
        <4>1. re + Unit + rs \in Nat
          BY <2>1, <2>2
        <4> QED BY <2>1, <4>1, Products
      <3>5. k < 2 * x /\ 2 * y <= k
        BY <2>3, <2>4, <3>3
      <3> HIDE DEF u, k
      <3>6. x \in Nat /\ y \in Nat /\ x <= y
        BY <3>1, <3>2, TimesMonotone, Products
      <3> HIDE DEF x, y
      <3> QED BY <3>4, <3>5, <3>6
    <2>7. M * rd <= n * re
      BY <2>5, <2>6
    <2> QED BY <2>7 DEF M, n, rd, re
  <1>2. Spec => [][Step]_vars
    BY <1>1, MarketInvariant, PTL DEF Spec
  <1> QED BY <1>2 DEF MintedWorthNoMore

-----------------------------------------------------------------------------
(* The end of a block *)

\* The pool is nearer to its base and on the same side of it, and has moved unless
\* it is within the PoolRecoveryPeriod units that the truncation leaves.
Nearer ==
    /\ terraPoolDelta >= 0 => 0 <= terraPoolDelta' /\ terraPoolDelta' <= terraPoolDelta
    /\ terraPoolDelta <= 0 => terraPoolDelta <= terraPoolDelta' /\ terraPoolDelta' <= 0
    /\ \/ -PoolRecoveryPeriod < terraPoolDelta /\ terraPoolDelta < PoolRecoveryPeriod
       \/ terraPoolDelta' # terraPoolDelta

LEMMA QuotientWithin ==
    ASSUME NEW x \in Nat, NEW p \in Nat \ {0}
    PROVE  x \div p \in Nat /\ x \div p <= x /\ (x >= p => x \div p > 0)
  <1> DEFINE w == x \div p
             m == x % p
  <1>1. w \in Nat /\ m \in 0..(p - 1) /\ x = w * p + m
    BY DivDef, Zenon
  <1> HIDE DEF w, m
  <1>2. w <= w * p /\ w * p \in Nat
    BY <1>1, Z3
  <1>3. w = 0 => w * p = 0
    BY Z3
  <1>4. w <= x /\ (x >= p => w > 0)
    BY <1>1, <1>2, <1>3
  <1> QED BY <1>1, <1>4 DEF w

LEMMA EndBlockNearer ==
    ASSUME MarketInv, EndBlock
    PROVE  Nearer
  <1> DEFINE p == PoolRecoveryPeriod
             t == terraPoolDelta
  <1>1. t \in Int /\ p \in Nat \ {0}
    BY MarketAssumption DEF MarketInv, TypeOK
  <1>2. terraPoolDelta' = t - TruncQuo(t, p)
    BY DEF EndBlock, ReplenishPools, QuoInt
  <1>3. CASE t >= 0
    <2>1. t \in Nat
      BY <1>1, <1>3
    <2>2. TruncQuo(t, p) = t \div p
      BY <1>1, <2>1, TruncQuoType, Zenon
    <2>3. t \div p \in Nat /\ t \div p <= t /\ (t >= p => t \div p > 0)
      BY <1>1, <2>1, QuotientWithin
    <2> QED BY <1>1, <1>2, <1>3, <2>2, <2>3 DEF Nearer
  <1>4. CASE t < 0
    <2> DEFINE u == -t
    <2>1. u \in Nat
      BY <1>1, <1>4
    <2>2. TruncQuo(t, p) = -(u \div p)
      BY <1>1, <1>4 DEF TruncQuo
    <2>3. u \div p \in Nat /\ u \div p <= u /\ (u >= p => u \div p > 0)
      BY <1>1, <2>1, QuotientWithin
    <2> QED BY <1>1, <1>2, <1>4, <2>2, <2>3 DEF Nearer
  <1> QED BY <1>1, <1>3, <1>4

\* Every block brings the Terra pool towards its base and never past it, so the
\* distance is a number that falls until it is below PoolRecoveryPeriod.
THEOREM ReplenishApproaches == Spec => [][EndBlock => Nearer]_vars
  <1>1. MarketInv /\ [Next]_vars => (EndBlock => Nearer)
    BY EndBlockNearer
  <1> QED BY <1>1, MarketInvariant, PTL DEF Spec

-----------------------------------------------------------------------------
(* The Terra pool *)

\* What the constant product leaves in the Terra pool when Luna worth b is offered.
LeftInPool(b) ==
    LET cp == Mul(BasePool, BasePool)
    IN  Quo(cp, Quo(cp, BasePool + terraPoolDelta) + b)

\* That is more than the roundings of a swap can take on top: a product and two
\* conversions, and half a unit of the last decimal of the spread for every unit
\* offered.
DeepPool ==
    \A n \in Offers, e \in Terra :
        LET b == ComputeInternalSwap(NewDec(n), Luna, SDR)
            re == LunaExchangeRate(e)
            rs == LunaExchangeRate(SDR)
        IN  \/ None \in {b, re}
            \/ re * ((Unit + 2) * b) + (Unit * Unit) * (2 * Unit + 2 * rs + re)
                 < 2 * ((Unit * Unit) * (re * LeftInPool(b)))

\* A rounded quotient is no more than a half, and what is truncated, below.
LEMMA QuoAtLeast ==
    ASSUME NEW x \in Nat, NEW b \in Nat \ {0}
    PROVE  /\ Quo(x, b) \in Nat /\ (Quo(x, b) * b) * Unit \in Nat /\ (x * Unit) * Unit \in Nat
           /\ 2 * ((x * Unit) * Unit) <= 2 * ((Quo(x, b) * b) * Unit) + (Unit + 2) * b
  <1> DEFINE a == (x * Unit) * Unit
             w == a \div b
             m == a % b
             y == Quo(x, b)
             z == (y * b) * Unit
  <1>1. Unit \in Nat \ {0}
    BY UnitAssumption
  <1>2. a \in Nat
    <2>1. x * Unit \in Nat
      BY <1>1, Products
    <2> QED BY <1>1, <2>1, Products
  <1>3. y = ChopRound(TruncQuo(a, b))
    BY DEF Quo
  <1> HIDE DEF a, y
  <1>4. TruncQuo(a, b) = w
    BY <1>2, TruncQuoType, Zenon
  <1>5. w \in Nat /\ m \in 0..(b - 1) /\ a = w * b + m
    BY <1>2, DivDef, ZenonT(30)
  <1> HIDE DEF w, m
  <1>6. y \in Nat /\ y * Unit \in Nat /\ 2 * w <= 2 * (y * Unit) + Unit
    BY <1>3, <1>4, <1>5, ChopNear
  <1>7. (2 * w) * b <= (2 * (y * Unit) + Unit) * b
    <2>1. 2 * w \in Nat /\ 2 * (y * Unit) + Unit \in Nat
      BY <1>1, <1>5, <1>6
    <2> QED BY <1>6, <2>1, TimesMonotone
  <1>8. (2 * w) * b = 2 * (w * b) /\ (2 * (y * Unit) + Unit) * b = 2 * z + Unit * b
    BY <1>1, <1>5, <1>6, Z3
  <1>9. w * b \in Nat /\ Unit * b \in Nat /\ z \in Nat
    <2>1. y * b \in Nat
      BY <1>6, Products
    <2> QED BY <1>1, <1>5, <2>1, Products
  <1>10. (Unit + 2) * b = Unit * b + 2 * b
    BY <1>1, Z3
  <1>11. 2 * a <= 2 * z + (Unit + 2) * b
    <2> DEFINE v == w * b
               u == Unit * b
               k == (Unit + 2) * b
    <2>1. v \in Nat /\ u \in Nat /\ z \in Nat /\ 2 * v <= 2 * z + u /\ k = u + 2 * b /\ a = v + m
      BY <1>5, <1>7, <1>8, <1>9, <1>10
    <2> HIDE DEF v, u, k, z
    <2>2. 2 * a <= 2 * z + k
      BY <1>5, <2>1
    <2> QED BY <2>2 DEF k
  <1> QED BY <1>2, <1>6, <1>9, <1>11 DEF a, y

\* The spread of an offer of Luna is at least what the constant product returns
\* less than the offer.
LEMMA SpreadAtLeast ==
    ASSUME terraPoolDelta \in Int, NEW b \in Nat \ {0}, PoolSpread(b, Luna) # None
    PROVE  LET s == PoolSpread(b, Luna)
               ask == (BasePool + terraPoolDelta) - LeftInPool(b)
           IN  /\ s \in Nat /\ LeftInPool(b) \in Int
               /\ 2 * (((b - ask) * Unit) * Unit) <= 2 * ((s * b) * Unit) + (Unit + 2) * b
  <1> DEFINE cp == Mul(BasePool, BasePool)
             terraPool == BasePool + terraPoolDelta
             lunaPool == Quo(cp, terraPool)
             left == Quo(cp, lunaPool + b)
             short == b - (terraPool - left)
             quo == Quo(short, b)
             s == PoolSpread(b, Luna)
  <1>1. terraPool # 0 /\ lunaPool + b # 0 /\ s = Max({MinStabilitySpread, quo})
    BY DEF PoolSpread
  <1>2. BasePool \in Nat /\ MinStabilitySpread \in Nat /\ Unit \in Nat \ {0}
    BY MarketAssumption, UnitAssumption DEF OneDec
  <1>3. LeftInPool(b) = left
    BY DEF LeftInPool
  <1>4. cp \in Nat
    BY <1>2, DecTypes, ZenonT(30)
  <1> HIDE DEF cp, s
  <1>5. terraPool \in Int
    BY <1>2
  <1> HIDE DEF terraPool
  <1>6. lunaPool \in Int
    BY <1>1, <1>4, <1>5, QuoIntegers
  <1> HIDE DEF lunaPool
  <1>7. left \in Int
    <2>1. cp \in Int /\ lunaPool + b \in Int
      BY <1>4, <1>6
    <2> QED BY <1>1, <2>1, QuoIntegers
  <1> HIDE DEF left
  <1>8. short \in Int
    BY <1>5, <1>7
  <1> HIDE DEF short
  <1>9. quo \in Int
    BY <1>8, QuoIntegers
  <1>10. s \in Nat /\ quo <= s
    <2> HIDE DEF quo
    <2> QED BY <1>1, <1>2, <1>9, MaxOfTwo
  <1>11. 2 * ((short * Unit) * Unit) <= 2 * ((s * b) * Unit) + (Unit + 2) * b
    <2> DEFINE a == (short * Unit) * Unit
               z == (s * b) * Unit
               k == (Unit + 2) * b
    <2>1. z \in Nat /\ k \in Nat
      <3>1. s * b \in Nat /\ Unit + 2 \in Nat
        BY <1>2, <1>10, Products
      <3> QED BY <1>2, <3>1, Products
    <2>2. CASE short < 0
      <3>1. a \in Int /\ a <= 0
        BY <1>2, <1>8, <2>2, Z3
      <3> HIDE DEF a, z, k
      <3>2. 2 * a <= 2 * z + k
        BY <2>1, <3>1
      <3> QED BY <3>2 DEF a, z, k
    <2>3. CASE short >= 0
      <3> DEFINE y == (quo * b) * Unit
      <3>1. short \in Nat
        BY <1>8, <2>3
      <3>2. quo \in Nat /\ y \in Nat /\ a \in Nat /\ 2 * a <= 2 * y + k
        BY <3>1, QuoAtLeast, ZenonT(30)
      <3> HIDE DEF quo
      <3>3. y <= z
        <4>1. quo * b <= s * b /\ quo * b \in Int /\ s * b \in Int
          BY <1>10, <3>2, TimesMonotone
        <4> QED BY <1>2, <4>1, TimesMonotone
      <3> HIDE DEF a, y, z, k
      <3>4. 2 * a <= 2 * z + k
        BY <2>1, <3>2, <3>3
      <3> QED BY <3>4 DEF a, z, k
    <2> QED BY <1>8, <2>2, <2>3
  <1>12. short = b - ((BasePool + terraPoolDelta) - LeftInPool(b)) /\ LeftInPool(b) \in Int
    <2>1. short = b - (terraPool - LeftInPool(b))
      BY <1>3, Zenon DEF short
    <2>2. terraPool = BasePool + terraPoolDelta
      BY DEF terraPool
    <2> QED BY <1>3, <1>7, <2>1, <2>2, Zenon
  <1> QED BY <1>10, <1>11, <1>12, Zenon DEF s

\* Arithmetic: the bounds of the spread, of the fee and of the two conversions,
\* multiplied out.  s is the spread, A the amount, r what is left of it after the
\* fee, and base what the pool loses.
LEMMA PoolLoses ==
    ASSUME NEW U \in Nat, NEW b \in Nat, NEW A \in Nat, NEW r \in Nat, NEW base \in Nat,
           NEW re \in Nat, NEW rs \in Nat, NEW g \in Nat, NEW ask \in Int, NEW k \in Nat,
           g <= U,
           2 * (U * (b * g)) <= 2 * ((U * U) * ask) + k,
           2 * (U * r) <= 2 * (A * g) + U,
           2 * (A * rs) <= 2 * (b * re) + U + rs,
           2 * (base * re) <= 2 * (r * rs) + U + re
    PROVE  2 * ((U * U) * (re * base))
             <= 2 * ((U * U) * (re * ask)) + re * k + (U * U) * (2 * U + 2 * rs + re)
  <1> DEFINE UU == U * U
             bre == b * re
             Ars == A * rs
             rrs == r * rs
             Ag == A * g
             c == U + rs
  <1>1. /\ UU \in Nat /\ bre \in Nat /\ Ars \in Nat /\ rrs \in Nat /\ Ag \in Nat /\ c \in Nat
    BY Products
  <1>2. 2 * (U * rrs) <= 2 * (Ars * g) + U * rs
    <2> DEFINE x == 2 * (U * r)
               y == 2 * Ag + U
    <2>1. x \in Int /\ y \in Int /\ x <= y
      BY <1>1, Products
    <2>2. x * rs <= y * rs
      BY <2>1, TimesMonotone
    <2>3. x * rs = 2 * (U * rrs) /\ y * rs = 2 * (Ars * g) + U * rs
      BY Z3
    <2> QED BY <2>2, <2>3
  <1>3. 2 * (Ars * g) <= 2 * (bre * g) + c * g
    <2> DEFINE x == 2 * Ars
               y == 2 * bre + U + rs
    <2>1. x \in Int /\ y \in Int /\ x <= y
      BY <1>1
    <2>2. x * g <= y * g
      BY <2>1, TimesMonotone
    <2>3. x * g = 2 * (Ars * g) /\ y * g = 2 * (bre * g) + c * g
      BY Z3
    <2> QED BY <2>2, <2>3
  <1>4. c * g <= c * U /\ c * g \in Nat /\ c * U \in Nat
    <2>1. g * c <= U * c
      BY <1>1, TimesMonotone
    <2>2. g * c = c * g /\ U * c = c * U
      BY Z3
    <2> HIDE DEF c
    <2>3. c * g \in Nat /\ c * U \in Nat
      BY <1>1, Products
    <2> QED BY <2>1, <2>2, <2>3
  <1>5. 2 * (U * (base * re)) <= 2 * (U * rrs) + U * (U + re)
    <2> DEFINE x == 2 * (base * re)
               y == 2 * rrs + U + re
    <2>1. x \in Int /\ y \in Int /\ x <= y
      BY <1>1, Products
    <2>2. x * U <= y * U
      BY <2>1, TimesMonotone
    <2>3. x * U = 2 * (U * (base * re)) /\ y * U = 2 * (U * rrs) + U * (U + re)
      BY Z3
    <2> QED BY <2>2, <2>3
  <1> DEFINE B == U * (base * re)
             R == U * rrs
             V == Ars * g
             W == bre * g
             d == U * rs
             f == U * (U + re)
             h == c * U
             e == c * g
  <1>6. B \in Nat /\ R \in Nat /\ V \in Nat /\ W \in Nat /\ d \in Nat /\ f \in Nat
    <2>1. base * re \in Nat /\ U + re \in Nat
      BY Products
    <2> HIDE DEF bre, Ars, rrs
    <2> QED BY <1>1, <2>1, Products
  <1>7. d + f + h = U * (2 * U + 2 * rs + re)
    BY Z3
  <1>8. 2 * B <= 2 * W + U * (2 * U + 2 * rs + re)
    <2>1. /\ 2 * R <= 2 * V + d /\ 2 * V <= 2 * W + e /\ e <= h /\ e \in Nat /\ h \in Nat
          /\ 2 * B <= 2 * R + f
      BY <1>2, <1>3, <1>4, <1>5
    <2> HIDE DEF B, R, V, W, d, e, f, h
    <2>2. 2 * B <= 2 * W + (d + f + h)
      BY <1>6, <2>1
    <2> QED BY <1>7, <2>2
  <1>9. 2 * (UU * (re * base)) <= 2 * (U * W) + UU * (2 * U + 2 * rs + re)
    <2> DEFINE x == 2 * B
               t == U * (2 * U + 2 * rs + re)
               y == 2 * W + t
    <2>1. t \in Nat
      <3>1. 2 * U + 2 * rs + re \in Nat
        OBVIOUS
      <3> QED BY <3>1, Products
    <2>2. x \in Int /\ y \in Int /\ x <= y
      BY <1>6, <1>8, <2>1
    <2>3. x * U <= y * U
      BY <2>2, TimesMonotone
    <2>4. x * U = 2 * (UU * (re * base)) /\ y * U = 2 * (U * W) + UU * (2 * U + 2 * rs + re)
      BY Z3
    <2> QED BY <2>3, <2>4
  <1>10. 2 * (U * W) <= 2 * (UU * (re * ask)) + re * k
    <2> DEFINE x == 2 * (U * (b * g))
               y == 2 * (UU * ask) + k
    <2>1. x \in Int /\ y \in Int /\ x <= y
      <3>1. UU * ask \in Int
        BY <1>1, Z3
      <3>2. b * g \in Nat
        BY Products
      <3>3. U * (b * g) \in Nat
        BY <3>2, Products
      <3> QED BY <3>1, <3>3
    <2>2. x * re <= y * re
      BY <2>1, TimesMonotone
    <2>3. x * re = 2 * (U * W) /\ y * re = 2 * (UU * (re * ask)) + re * k
      BY Z3
    <2> QED BY <2>2, <2>3
  <1> DEFINE p == UU * (re * base)
             q == U * W
             t == UU * (2 * U + 2 * rs + re)
             v == UU * (re * ask)
             w == re * k
  <1>11. p \in Int /\ q \in Int /\ t \in Int /\ v \in Int /\ w \in Int
    <2>1. re * base \in Int /\ re * ask \in Int /\ 2 * U + 2 * rs + re \in Int /\ w \in Int
      BY Z3
    <2> HIDE DEF UU, W
    <2> QED BY <1>1, <1>6, <2>1, Z3
  <1>12. 2 * p <= 2 * v + w + t
    <2>1. 2 * p <= 2 * q + t /\ 2 * q <= 2 * v + w
      BY <1>9, <1>10
    <2> HIDE DEF p, q, t, v, w
    <2> QED BY <1>11, <2>1
  <1> QED BY <1>12
\* The fee is at least the spread of the amount, but for half a unit.
LEMMA ReturnAtMost ==
    ASSUME NEW swap, swap.amount \in Nat, swap.spread \in Nat, SwapCoins(swap).ret >= 0
    PROVE  LET r == SwapCoins(swap).ret
           IN  r \in Nat /\ 2 * (Unit * r) <= 2 * (swap.amount * (Unit - swap.spread)) + Unit
  <1> DEFINE A == swap.amount
             s == swap.spread
             fee == IF s > 0 THEN Mul(s, A) ELSE 0
             r == A - fee
  <1>1. SwapCoins(swap).ret = r /\ Unit \in Nat \ {0}
    BY UnitAssumption DEF SwapCoins
  <1>2. fee \in Nat /\ fee * Unit \in Nat /\ 2 * (s * A) <= 2 * (fee * Unit) + Unit
    <2>1. CASE s > 0
      <3>1. s * A \in Nat
        BY Products
      <3> QED BY <2>1, <3>1, ChopNear DEF Mul
    <2>2. CASE s = 0
      <3>1. s * A = 0 /\ fee = 0 /\ fee * Unit = 0
        BY <1>1, <2>2, Z3
      <3> QED BY <1>1, <3>1
    <2> QED BY <2>1, <2>2
  <1> HIDE DEF fee, A, s
  <1>3. A \in Nat /\ s \in Nat
    BY DEF A, s
  <1>4. r \in Nat
    BY <1>1, <1>2, <1>3
  <1>5. Unit * r = A * Unit - fee * Unit /\ A * (Unit - s) = A * Unit - s * A
    BY <1>1, <1>2, <1>3, Z3
  <1>6. 2 * (Unit * r) <= 2 * (A * (Unit - s)) + Unit
    <2> DEFINE x == A * Unit
               y == fee * Unit
               z == s * A
    <2>1. x \in Nat /\ y \in Nat /\ z \in Nat /\ 2 * z <= 2 * y + Unit
      BY <1>1, <1>2, <1>3, Products
    <2> HIDE DEF x, y, z
    <2>2. 2 * (x - y) <= 2 * (x - z) + Unit
      BY <1>1, <2>1
    <2> QED BY <1>5, <2>2 DEF x, y, z
  <1> QED BY <1>1, <1>4, <1>6 DEF A, s

\* A conversion, or none, is within its bound.
LEMMA MayConvert ==
    ASSUME NEW prices \in PriceTable, NEW x \in Nat, NEW o \in Denoms, NEW a \in Denoms,
           InternalSwap(prices, x, o, a) # None,
           LunaRate(prices, o) \in Nat \ {0}, LunaRate(prices, a) \in Nat \ {0}
    PROVE  LET y == InternalSwap(prices, x, o, a)
               ro == LunaRate(prices, o)
               ra == LunaRate(prices, a)
           IN  /\ y \in Nat
               /\ 2 * (y * ro) <= 2 * (x * ra) + Unit + ro
               /\ x = 0 => y = 0
  <1> DEFINE y == InternalSwap(prices, x, o, a)
             ro == LunaRate(prices, o)
             ra == LunaRate(prices, a)
  <1>1. Unit \in Nat \ {0}
    BY UnitAssumption
  <1>2. CASE o = a
    <2>1. y = x /\ ro = ra
      BY <1>2 DEF InternalSwap
    <2> HIDE DEF y, ro, ra
    <2>2. y * ro = x * ra /\ ro \in Nat /\ ra \in Nat
      BY <2>1 DEF ro, ra
    <2>3. x * ra \in Nat
      BY <2>2, Products
    <2> QED BY <1>1, <2>1, <2>2, <2>3 DEF y, ro, ra
  <1>3. CASE o # a
    <2>1. /\ y \in Nat \ {0} /\ 2 * (y * ro) <= 2 * (x * ra) + Unit + ro
          /\ \A n \in Nat : x = n * Unit => 2 * (y * ro) <= 2 * (x * ra) + ro
      BY <1>3, ConvertAtMost
    <2>2. x # 0
      <3> SUFFICES ASSUME x = 0 PROVE FALSE
        OBVIOUS
      <3> HIDE DEF y, ro, ra
      <3>1. ro \in Nat \ {0} /\ ra \in Nat
        BY DEF ro, ra
      <3>2. x = 0 * Unit /\ x * ra = 0
        BY <1>1, <3>1, Z3
      <3>3. 2 * (y * ro) <= ro
        BY <2>1, <3>1, <3>2
      <3>4. ro <= y * ro
        BY <2>1, <3>1, Z3
      <3> QED BY <2>1, <3>1, <3>3, <3>4
    <2> QED BY <2>1, <2>2
  <1> QED BY <1>2, <1>3

\* Luna offered for Terra coins never empties a pool that is deep.
LEMMA LunaOffer ==
    ASSUME MarketInv, TerraPoolPositive, DeepPool,
           NEW trader \in Accounts, NEW receiver \in Accounts, NEW n \in Offers, NEW e \in Terra,
           HandleSwapRequest(trader, receiver, n, Luna, e)
    PROVE  BasePool + terraPoolDelta' > 0
  <1> DEFINE swap == ComputeSwap(n, Luna, e)
             r == SwapCoins(swap).ret
             b == ComputeInternalSwap(NewDec(n), Luna, SDR)
             A == ComputeInternalSwap(b, SDR, e)
             s == PoolSpread(b, Luna)
             base == ComputeInternalSwap(r, e, SDR)
             re == LunaExchangeRate(e)
             rs == LunaExchangeRate(SDR)
             T == BasePool + terraPoolDelta
             Q == LeftInPool(b)
             ask == T - Q
  <1>1. /\ Luna # e /\ Luna # SDR /\ Luna \in Denoms /\ e \in Denoms /\ SDR \in Denoms
        /\ rates \in PriceTable /\ terraPoolDelta \in Int /\ BasePool \in Nat
        /\ n \in Nat \ {0} /\ Unit \in Nat \ {0} /\ T \in Int /\ T > 0
    BY MarketAssumption, PricesAssumption, UnitAssumption
       DEF MarketInv, TypeOK, Denoms, TerraPoolPositive
  <1>2. swap # None /\ r >= 0 /\ terraPoolDelta' = ApplySwapToPool(n, Luna, r, e) /\ terraPoolDelta' # None
    BY DEF HandleSwapRequest
  <1>3. base # None /\ terraPoolDelta' = terraPoolDelta - base
    BY <1>1, <1>2 DEF ApplySwapToPool
  <1>4. b # None /\ A # None /\ s # None /\ swap = [amount |-> A, spread |-> s]
    BY <1>2 DEF ComputeSwap
  <1>5. re \in Nat \ {0} /\ rs \in Nat \ {0}
    BY <1>1, <1>2, ComputeSwapIs
  <1>6. b \in Nat \ {0}
    <2>1. NewDec(n) \in Nat
      BY <1>1, DecTypes
    <2> QED BY <1>1, <1>4, <2>1, ConvertAtMost DEF ComputeInternalSwap
  <1> HIDE DEF b
  <1>7. A \in Nat /\ 2 * (A * rs) <= 2 * (b * re) + Unit + rs
    BY <1>1, <1>4, <1>5, <1>6, MayConvert DEF ComputeInternalSwap, LunaExchangeRate
  <1>8. /\ s \in Nat /\ Q \in Int
        /\ 2 * (((b - ask) * Unit) * Unit) <= 2 * ((s * b) * Unit) + (Unit + 2) * b
    BY <1>1, <1>4, <1>6, SpreadAtLeast
  <1> HIDE DEF A, s, Q
  <1>9. r \in Nat /\ 2 * (Unit * r) <= 2 * (A * (Unit - s)) + Unit
    <2>1. swap.amount = A /\ swap.spread = s
      BY <1>4
    <2> HIDE DEF swap
    <2> QED BY <1>2, <1>7, <1>8, <2>1, ReturnAtMost
  <1> HIDE DEF swap, r
  <1>10. base \in Nat /\ 2 * (base * re) <= 2 * (r * rs) + Unit + re /\ (r = 0 => base = 0)
    BY <1>1, <1>3, <1>5, <1>9, MayConvert DEF ComputeInternalSwap, LunaExchangeRate
  <1>11. DeepPool => re * ((Unit + 2) * b) + (Unit * Unit) * (2 * Unit + 2 * rs + re)
                       < 2 * ((Unit * Unit) * (re * Q))
    <2>1. re # None /\ b # None
      BY <1>4, <1>5, PricesAssumption
    <2>2. DeepPool => \/ None \in {b, re}
                      \/ re * ((Unit + 2) * b) + (Unit * Unit) * (2 * Unit + 2 * rs + re)
                            < 2 * ((Unit * Unit) * (re * Q))
      BY DEF DeepPool, b, Q
    <2> QED BY <2>1, <2>2
  <1> HIDE DEF base, re, rs, T
  <1>12. base < T
    <2>1. CASE s > Unit
      <3> DEFINE g == s - Unit
      <3>1. g \in Nat /\ A * (Unit - s) = -(A * g) /\ A * g \in Nat
        BY <1>1, <1>7, <1>8, <2>1, Z3
      <3>2. 2 * (Unit * r) <= Unit
        BY <1>1, <1>9, <3>1
      <3>3. r = 0
        BY <1>1, <1>9, <3>2, Z3
      <3> QED BY <1>1, <1>10, <3>3
    <2>2. CASE s <= Unit
      <3> DEFINE g == Unit - s
                 k == (Unit + 2) * b
                 UU == Unit * Unit
                 x == UU * (re * base)
                 y == UU * (re * ask)
                 q == UU * (re * Q)
                 t == UU * (re * T)
                 c == UU * (2 * Unit + 2 * rs + re)
                 l == re * k
      <3>1. g \in Nat /\ g <= Unit /\ ask \in Int
        BY <1>1, <1>8, <2>2
      <3>2. k \in Nat
        <4>1. Unit + 2 \in Nat
          BY <1>1
        <4> QED BY <1>6, <4>1, Products
      <3>3. 2 * (Unit * (b * g)) <= 2 * ((Unit * Unit) * ask) + k
        <4> DEFINE u == ((b - ask) * Unit) * Unit
                   v == (s * b) * Unit
                   w == Unit * (b * g)
                   z == (Unit * Unit) * ask
        <4>1. w - z = u - v
          BY <1>1, <1>6, <1>8, <3>1, Z3
        <4>2. u \in Int /\ v \in Int /\ w \in Int /\ z \in Int
          BY <1>1, <1>6, <1>8, <3>1, Z3
        <4>3. 2 * u <= 2 * v + k
          BY <1>8
        <4> HIDE DEF u, v, w, z, k
        <4>4. 2 * w <= 2 * z + k
          BY <3>2, <4>1, <4>2, <4>3
        <4> QED BY <4>4 DEF w, z
      <3>4. 2 * x <= 2 * y + l + c
        <4> HIDE DEF g, ask, k
        <4>1. 2 * (Unit * r) <= 2 * (A * g) + Unit
          BY <1>9 DEF g
        <4> QED BY <1>1, <1>5, <1>6, <1>7, <1>9, <1>10, <3>1, <3>2, <3>3, <4>1, PoolLoses
      <3>5. l + c < 2 * q
        BY <1>11
      <3>6. y = t - q
        BY <1>1, <1>5, <1>8, Z3
      <3>7. x \in Int /\ y \in Int /\ q \in Int /\ t \in Int /\ l \in Int /\ c \in Int
        <4>1. UU \in Int /\ re * base \in Int /\ re * ask \in Int /\ re * Q \in Int /\ re * T \in Int
              /\ 2 * Unit + 2 * rs + re \in Int
          BY <1>1, <1>5, <1>8, <1>10, <3>1, Z3
        <4> HIDE DEF UU, ask
        <4> QED BY <1>5, <3>2, <4>1, Z3
      <3>8. x < t
        <4> HIDE DEF x, y, q, t, l, c
        <4> QED BY <3>4, <3>5, <3>6, <3>7
      <3>9. re * base < re * T
        <4> DEFINE v == re * base
                   w == re * T
        <4>1. UU \in Nat /\ v \in Int /\ w \in Int
          BY <1>1, <1>5, <1>10, Z3
        <4>2. UU * v < UU * w
          BY <3>8
        <4> HIDE DEF UU, v, w
        <4>3. v < w
          BY <4>1, <4>2, Z3
        <4> QED BY <4>3 DEF v, w
      <3> QED BY <1>1, <1>5, <1>10, <3>9, Z3
    <2> QED BY <1>1, <1>8, <2>1, <2>2
  <1> QED BY <1>1, <1>3, <1>10, <1>12 DEF T
\* Coins swapped for Luna fill the pool, and swaps without Luna leave it.
LEMMA TerraOffer ==
    ASSUME MarketInv, TerraPoolPositive,
           NEW trader \in Accounts, NEW receiver \in Accounts, NEW n \in Offers,
           NEW d \in Terra, NEW e \in Denoms, HandleSwapRequest(trader, receiver, n, d, e)
    PROVE  BasePool + terraPoolDelta' > 0
  <1> DEFINE base == ComputeInternalSwap(NewDec(n), d, SDR)
             r == SwapCoins(ComputeSwap(n, d, e)).ret
  <1>1. /\ Luna # d /\ d \in Denoms /\ SDR \in Denoms /\ rates \in PriceTable
        /\ terraPoolDelta \in Int /\ BasePool \in Nat /\ n \in Nat
    BY MarketAssumption, PricesAssumption DEF MarketInv, TypeOK, Denoms
  <1>2. terraPoolDelta' = ApplySwapToPool(n, d, r, e) /\ terraPoolDelta' # None
    BY DEF HandleSwapRequest
  <1> HIDE DEF r
  <1>3. terraPoolDelta' = terraPoolDelta \/ (base # None /\ terraPoolDelta' = terraPoolDelta + base)
    BY <1>1, <1>2 DEF ApplySwapToPool
  <1>4. base \in Nat \cup {None}
    <2>1. NewDec(n) \in Nat
      BY <1>1, DecTypes
    <2> QED BY <1>1, <2>1, ConvertType DEF ComputeInternalSwap
  <1> HIDE DEF base
  <1> QED BY <1>1, <1>3, <1>4 DEF TerraPoolPositive

LEMMA StaysAbove ==
    ASSUME NEW p \in Nat, NEW t \in Int, NEW u \in Int, p > 0, p + t > 0, u >= t \/ u >= 0
    PROVE  p + u > 0
  OBVIOUS

\* While what the constant product would leave of the pool exceeds the rounding of
\* one swap, no sequence of swaps and blocks empties the Terra pool, and ComputeSwap
\* never divides by it when it is zero.
THEOREM DeepPoolStaysPositive ==
    ASSUME BasePool > 0, BasePool + InitDelta > 0
    PROVE  Spec /\ [](TerraPoolPositive => DeepPool) => []TerraPoolPositive
  <1>1. Init => TerraPoolPositive
    BY DEF Init, TerraPoolPositive
  <1>2. ASSUME MarketInv, TerraPoolPositive, TerraPoolPositive => DeepPool, [Next]_vars
        PROVE  TerraPoolPositive'
    <2>1. CASE SwapStep
      <3>1. PICK trader \in Accounts, receiver \in Accounts, n \in Offers, d \in Denoms, e \in Denoms :
                HandleSwapRequest(trader, receiver, n, d, e)
        BY <2>1 DEF SwapStep
      <3>2. d # e
        BY <3>1 DEF HandleSwapRequest
      <3>3. CASE d = Luna
        <4>1. e \in Terra
          BY <3>2, <3>3 DEF Denoms
        <4>2. HandleSwapRequest(trader, receiver, n, Luna, e)
          BY <3>1, <3>3
        <4> QED BY <1>2, <4>1, <4>2, LunaOffer DEF TerraPoolPositive
      <3>4. CASE d \in Terra
        BY <1>2, <3>1, <3>4, TerraOffer DEF TerraPoolPositive
      <3> QED BY <3>3, <3>4 DEF Denoms
    <2>2. CASE EndBlock
      <3>1. Nearer
        BY <1>2, <2>2, EndBlockNearer
      <3>2. terraPoolDelta \in Int /\ BasePool \in Nat /\ terraPoolDelta' \in Int /\ InitDelta \in Int
        <4>1. MarketInv'
          BY <1>2, NextInv
        <4> QED BY <1>2, <4>1, MarketAssumption DEF MarketInv, TypeOK
      <3>3. BasePool + terraPoolDelta > 0 /\ BasePool > 0
        BY <1>2 DEF TerraPoolPositive
      <3>4. terraPoolDelta' >= terraPoolDelta \/ terraPoolDelta' >= 0
        BY <3>1, <3>2 DEF Nearer
      <3>5. BasePool + terraPoolDelta' > 0
        BY <3>2, <3>3, <3>4, StaysAbove, Zenon
      <3> QED BY <3>5 DEF TerraPoolPositive
    <2>3. CASE UNCHANGED vars
      BY <1>2, <2>3 DEF vars, TerraPoolPositive
    <2> QED BY <1>2, <2>1, <2>2, <2>3, NextIs
  <1> QED BY <1>1, <1>2, MarketInvariant, PTL DEF Spec


===========================================================================
