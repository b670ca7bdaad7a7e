---------------------------- MODULE AnteProofs ----------------------------
(***************************************************************************)
(* Theorems about Ante, the ante handler composed with the treasury, for   *)
(* any transactions, validators, policies and rates.                       *)
(***************************************************************************)
EXTENDS Ante, TreasuryProofs, SequenceTheorems

-----------------------------------------------------------------------------
(* Taxes *)

CapTable == [Terra -> Nat \cup {None}]

\* The messages of a transaction that are taxed are finitely many, and name coins.
LEMMA SendsType ==
    ASSUME NEW t \in Txs
    PROVE  IsFiniteSet(Sends(t)) /\ \A i \in Sends(t) : t.msgs[i].coins \in Coins
  <1>1. t.msgs \in Seq(Messages)
    BY AnteAssumption
  <1> DEFINE s == t.msgs
  <1>2. Len(s) \in Nat /\ DOMAIN s = 1..Len(s) /\ \A i \in DOMAIN s : s[i] \in Messages
    BY <1>1, LenProperties, ElementOfSeq
  <1>3. IsFiniteSet(DOMAIN s)
    BY <1>2, FS_Interval
  <1>4. Sends(t) \subseteq DOMAIN s /\ \A i \in Sends(t) : s[i].type = "send"
    BY DEF Sends
  <1>5. IsFiniteSet(Sends(t))
    BY <1>3, <1>4, FS_Subset
  <1>6. ASSUME NEW m \in Messages, m.type = "send" PROVE m.coins \in Coins
    BY <1>6 DEF Messages, OracleTypes
  <1>7. \A i \in Sends(t) : s[i].coins \in Coins
    BY <1>2, <1>4, <1>6
  <1> QED BY <1>5, <1>7

\* The tax on coins is an amount of coins.
LEMMA ComputeTaxType ==
    ASSUME LeverInv, taxCaps \in CapTable, NEW c \in Coins, NEW d \in Terra
    PROVE  ComputeTax(c)[d] \in Nat
  <1>1. c[d] \in Nat /\ taxRate \in Nat
    BY DEF LeverInv, Coins
  <1> DEFINE x == c[d] * taxRate
             y == TruncateInt(x)
             z == GetTaxCap(d)
  <1>2. ComputeTax(c)[d] = Min({y, z})
    BY DEF ComputeTax
  <1>3. x \in Nat
    BY <1>1, Z3
  <1> HIDE DEF x
  <1>4. y \in Nat
    BY <1>3, DecTypes
  <1>5. z \in Nat
    <2>1. taxPolicy.CapAmount \in Nat
      BY TreasuryAssumption DEF LeverInv
    <2>2. taxCaps[d] \in Nat \cup {None}
      BY DEF CapTable
    <2> QED BY <2>1, <2>2 DEF GetTaxCap
  <1> HIDE DEF y, z
  <1>6. Min({y, z}) = IF y <= z THEN y ELSE z
    BY <1>4, <1>5, MinOfTwo
  <1> QED BY <1>2, <1>4, <1>5, <1>6

LEMMA TaxType ==
    ASSUME LeverInv, taxCaps \in CapTable, NEW t \in Txs
    PROVE  TaxOf(t) \in Coins
  <1> SUFFICES ASSUME NEW d \in Terra
               PROVE  SumFunction([i \in Sends(t) |-> ComputeTax(t.msgs[i].coins)[d]]) \in Nat
    BY DEF TaxOf, Coins
  <1> DEFINE S == Sends(t)
             f == [i \in S |-> ComputeTax(t.msgs[i].coins)[d]]
  <1>1. IsFiniteSet(S) /\ \A i \in S : t.msgs[i].coins \in Coins
    BY SendsType
  <1>2. \A i \in S : f[i] \in Nat
    BY <1>1, ComputeTaxType
  <1>3. DOMAIN f = S
    OBVIOUS
  <1> HIDE DEF f, S
  <1>4. SumFunctionOnSet(f, S) \in Nat
    BY <1>1, <1>2, SumNat
  <1> QED BY <1>3, <1>4 DEF SumFunction, f, S

\* A price converts an amount to an amount, or to nothing.
LEMMA SwapType ==
    ASSUME NEW prices \in PriceTable, NEW amount \in Nat, NEW c \in Terra, NEW d \in Terra
    PROVE  InternalSwap(prices, amount, c, d) \in Nat \cup {None}
  <1> DEFINE p == LunaRate(prices, c)
             q == LunaRate(prices, d)
             m == Mul(amount, q)
             r == Quo(m, p)
  <1>1. p \in (Nat \ {0}) \cup {None} /\ q \in (Nat \ {0}) \cup {None}
    BY UnitAssumption DEF LunaRate, PriceTable, OneDec
  <1>2. InternalSwap(prices, amount, c, d) =
            IF c = d THEN amount ELSE IF None \in {p, q} \/ r <= 0 THEN None ELSE r
    BY DEF InternalSwap
  <1> HIDE DEF p, q
  <1>3. CASE None \in {p, q}
    BY <1>2, <1>3
  <1>4. CASE None \notin {p, q}
    <2>1. p \in Nat \ {0} /\ q \in Nat
      BY <1>1, <1>4
    <2>2. m \in Nat
      BY <2>1, DecTypes
    <2> HIDE DEF m
    <2>3. r \in Nat
      BY <2>1, <2>2, DecTypes
    <2> HIDE DEF r
    <2> QED BY <1>2, <2>3
  <1> QED BY <1>3, <1>4

LEMMA UpdateTaxCapType ==
    ASSUME taxCaps \in CapTable, NEW pc \in TaxPolicies, NEW prices \in RateTables
    PROVE  UpdateTaxCap(pc, prices) \in CapTable
  <1> SUFFICES ASSUME NEW d \in Terra PROVE UpdateTaxCap(pc, prices)[d] \in Nat \cup {None}
    BY DEF UpdateTaxCap, CapTable
  <1> DEFINE a == NewDec(pc.CapAmount)
             c == InternalSwap(prices, a, pc.CapDenom, d)
  <1>1. pc.CapAmount \in Nat /\ pc.CapDenom \in Terra /\ prices \in PriceTable
    BY TreasuryAssumption
  <1>2. a \in Nat
    BY <1>1, DecTypes, ZenonT(30)
  <1>3. \/ UpdateTaxCap(pc, prices)[d] = TruncateInt(c) /\ c # None
        \/ UpdateTaxCap(pc, prices)[d] = taxCaps[d]
    BY DEF UpdateTaxCap
  <1> HIDE DEF a
  <1>4. c \in Nat \cup {None}
    BY <1>1, <1>2, SwapType
  <1> HIDE DEF c
  <1>5. c # None => TruncateInt(c) \in Nat
    BY <1>4, DecTypes
  <1> QED BY <1>3, <1>5 DEF CapTable

LEMMA CapsEndBlock ==
    ASSUME taxCaps \in CapTable, EndBlock
    PROVE  taxCaps' \in CapTable /\ UNCHANGED taxLog
  <1>1. CASE Halt
    BY <1>1 DEF Halt, leverVars, historyVars
  <1>2. ASSUME NEW tp \in TaxPolicies, NEW rp \in RewardPolicies, NEW prices \in RateTables,
               NEW bonded \in BondedTokens, EndBlocker(tp, rp, prices, bonded), NextBlock
        PROVE  taxCaps' \in CapTable /\ UNCHANGED taxLog
    <2>1. taxCaps' = taxCaps \/ taxCaps' = UpdateTaxCap(tp, prices)
      BY <1>2 DEF EndBlocker, UpdatePolicies
    <2>2. UNCHANGED taxLog
      BY <1>2 DEF NextBlock, historyVars
    <2> QED BY <2>1, <2>2, UpdateTaxCapType
  <1> QED BY <1>1, <1>2 DEF EndBlock

-----------------------------------------------------------------------------
(* Proceeds *)

\* The treasury's invariants hold in the composition; what the fee collector receives is
\* an amount, and it covers what was recorded.
ProceedsInv ==
    /\ EpochInv /\ LeverInv /\ taxCaps \in CapTable
    /\ collected \in Coins
    /\ ProceedsCovered

LEMMA HeightType == ProceedsInv => height \in Nat
  <1>1. ProceedsInv => height \in 0..MaxHeight
    BY Zenon DEF ProceedsInv, EpochInv
  <1>2. \A h \in 0..MaxHeight : h \in Nat
    OBVIOUS
  <1> QED BY <1>1, <1>2, Zenon

LEMMA ProceedsInitially ==
    ASSUME AnteInit PROVE ProceedsInv
  <1>1. EpochInv /\ LeverInv
    BY EpochInitially, LeverInitially DEF AnteInit
  <1>2. taxCaps \in CapTable /\ collected \in Coins
    BY DEF AnteInit, Init, CapTable, Coins, NoCoins
  <1>3. ASSUME NEW d \in Terra
        PROVE  SumFunction([e \in Epochs |-> taxLog[e][d]]) <= collected[d]
    <2> DEFINE f == [e \in Epochs |-> taxLog[e][d]]
    <2>1. f = [e \in Epochs |-> 0] /\ collected[d] = 0
      BY DEF AnteInit, Init, NoCoins
    <2>2. SumFunctionOnSet([e \in Epochs |-> 0], Epochs) = 0
      BY EpochsFinite, SumZero, ZenonT(30)
    <2> QED BY <2>1, <2>2 DEF SumFunction
  <1> QED BY <1>1, <1>2, <1>3 DEF ProceedsInv, ProceedsCovered

LEMMA ProceedsDeliver ==
    ASSUME ProceedsInv, NEW t \in Txs, DeliverTx(t) PROVE ProceedsInv'
  <1> DEFINE tax == TaxOf(t)
             e0 == GetEpoch(height)
  <1>1. EpochInv /\ LeverInv /\ taxCaps \in CapTable /\ collected \in Coins
    BY DEF ProceedsInv
  <1>2. tax \in Coins /\ t.fee \in Coins
    BY <1>1, TaxType, AnteAssumption
  <1>3. /\ RecordEpochTaxProceeds(tax) /\ collected' = AddCoins(collected, t.fee)
        /\ Covers(t.fee, tax)
    BY DEF DeliverTx, DeliverTxFees
  <1> HIDE DEF tax
  <1>4. EpochInv'
    BY <1>1, <1>2, <1>3, EpochTax
  <1>5. LeverInv' /\ taxCaps' \in CapTable
    BY <1>1, <1>3 DEF RecordEpochTaxProceeds, leverVars, LeverInv
  <1>6. collected' \in Coins
    BY <1>1, <1>2, <1>3, AddCoinsType
  <1>7. ASSUME NEW d \in Terra
        PROVE  SumFunction([e \in Epochs |-> taxLog'[e][d]]) <= collected'[d]
    <2> DEFINE f == [e \in Epochs |-> taxLog[e][d]]
               g == [e \in Epochs |-> taxLog'[e][d]]
    <2>1. e0 \in Epochs /\ IsFiniteSet(Epochs)
      BY <1>1, EpochInRange, EpochsFinite DEF EpochInv
    <2>2. taxLog \in [Epochs -> Coins] /\ taxLog' = [taxLog EXCEPT ![e0] = AddCoins(@, tax)]
      BY <1>1, <1>3 DEF EpochInv, RecordEpochTaxProceeds
    <2>3. /\ \A e \in Epochs : f[e] \in Int
          /\ g[e0] = f[e0] + tax[d] /\ \A e \in Epochs \ {e0} : g[e] = f[e]
      <3>1. \A e \in Epochs : taxLog[e][d] \in Int
        BY <2>2 DEF Coins
      <3>2. taxLog'[e0][d] = taxLog[e0][d] + tax[d]
        BY <2>1, <2>2 DEF AddCoins
      <3>3. \A e \in Epochs \ {e0} : taxLog'[e] = taxLog[e]
        BY <2>2
      <3> QED BY <2>1, <3>1, <3>2, <3>3
    <2>4. /\ tax[d] \in Nat /\ t.fee[d] \in Nat /\ tax[d] <= t.fee[d]
          /\ collected[d] \in Nat /\ collected'[d] = collected[d] + t.fee[d]
      BY <1>1, <1>2, <1>3 DEF Coins, Covers, AddCoins
    <2>5. SumFunction(f) = SumFunctionOnSet(f, Epochs) /\ SumFunction(g) = SumFunctionOnSet(g, Epochs)
      BY DEF SumFunction
    <2>6. SumFunction(f) <= collected[d]
      BY DEF ProceedsInv, ProceedsCovered
    <2> HIDE DEF f, g
    <2>7. g[e0] \in Int /\ g[e0] - f[e0] = tax[d]
      BY <2>1, <2>3, <2>4
    <2>8. SumFunctionOnSet(g, Epochs) = SumFunctionOnSet(f, Epochs) + (g[e0] - f[e0])
      BY <2>1, <2>3, <2>7, SumUpdate
    <2>9. SumFunctionOnSet(f, Epochs) \in Int
      BY <2>1, <2>3, SumType
    <2>10. SumFunction(g) <= collected'[d]
      BY <2>4, <2>5, <2>6, <2>7, <2>8, <2>9
    <2> QED BY <2>10 DEF g
  <1> QED BY <1>4, <1>5, <1>6, <1>7 DEF ProceedsInv, ProceedsCovered

LEMMA ProceedsStep ==
    ASSUME ProceedsInv, [AnteNext]_<<vars, anteVars>> PROVE ProceedsInv'
  <1>1. ASSUME NEW t \in Txs, DeliverTx(t) PROVE ProceedsInv'
    BY <1>1, ProceedsDeliver
  <1>2. CASE CommitBlock
    <2>1. EndBlock /\ UNCHANGED collected
      BY <1>2 DEF CommitBlock, anteVars
    <2>2. EpochInv'
      BY <2>1, EpochEndBlock DEF ProceedsInv
    <2>3. LeverInv'
      BY <2>1, LeverStep DEF ProceedsInv, Next
    <2>4. taxCaps' \in CapTable /\ UNCHANGED taxLog
      BY <2>1, CapsEndBlock DEF ProceedsInv
    <2> QED BY <2>1, <2>2, <2>3, <2>4 DEF ProceedsInv, ProceedsCovered
  <1>3. CASE UNCHANGED <<vars, collected>>
    <2>1. LeverInv'
      BY <1>3, LeverStep DEF ProceedsInv
    <2>2. EpochInv'
      BY <1>3, EpochStep DEF ProceedsInv
    <2>3. UNCHANGED <<taxCaps, taxLog, collected>>
      BY <1>3 DEF vars, leverVars, historyVars
    <2> QED BY <2>1, <2>2, <2>3 DEF ProceedsInv, ProceedsCovered
  <1>4. ASSUME NEW t \in Txs, CheckTx(t) PROVE UNCHANGED <<vars, collected>>
    BY <1>4 DEF CheckTx
  <1>5. RestartNode => UNCHANGED <<vars, collected>>
    BY DEF RestartNode
  <1>6. UNCHANGED <<vars, anteVars>> => UNCHANGED <<vars, collected>>
    BY DEF anteVars
  <1> QED BY <1>1, <1>2, <1>3, <1>4, <1>5, <1>6 DEF AnteNext

\* For any transactions, policies and rates: all the tax proceeds that the decorator ever
\* recorded were paid to the fee collector (tax.go:60-68).
THEOREM ProceedsArePaid == AnteSpec => []ProceedsCovered
  <1>1. AnteInit => ProceedsInv
    BY ProceedsInitially
  <1>2. ProceedsInv /\ [AnteNext]_<<vars, anteVars>> => ProceedsInv'
    BY ProceedsStep
  <1>3. ProceedsInv => ProceedsCovered
    BY DEF ProceedsInv
  <1> QED BY <1>1, <1>2, <1>3, PTL DEF AnteSpec

\* Composed with the ante handler, which records what the messages of a transaction owe, the
\* treasury still counts taxes and seigniorage for the epoch they belong to.
THEOREM EpochsOfTheComposition == AnteSpec => [](ProceedsOfEpoch /\ SeigniorageOfEpoch)
  <1>1. AnteInit => ProceedsInv
    BY ProceedsInitially
  <1>2. ProceedsInv /\ [AnteNext]_<<vars, anteVars>> => ProceedsInv'
    BY ProceedsStep
  <1>3. ProceedsInv => ProceedsOfEpoch /\ SeigniorageOfEpoch
    BY DEF ProceedsInv, EpochInv
  <1> QED BY <1>1, <1>2, <1>3, PTL DEF AnteSpec

-----------------------------------------------------------------------------
(* The mempool *)

Entries == [tx : Txs, height : Int]

DistinctTxs(pool) == \A i, j \in DOMAIN pool : i # j => pool[i].tx # pool[j].tx

\* A pool that is left of another one, of transactions that still pay.
LeftOf(pool, old, paying) ==
    /\ pool \in Seq(Entries) /\ DistinctTxs(pool)
    /\ \A i \in DOMAIN pool : pool[i].tx \in paying /\ \E a \in DOMAIN old : pool[i] = old[a]

LEMMA Appended ==
    ASSUME NEW pool \in Seq(Entries), NEW e \in Entries
    PROVE  LET new == Append(pool, e)
               k == Len(pool)
           IN  /\ new \in Seq(Entries) /\ k \in Nat
               /\ DOMAIN pool = 1..k /\ DOMAIN new = 1..(k + 1)
               /\ new[k + 1] = e /\ \A i \in 1..k : new[i] = pool[i]
  <1> DEFINE new == Append(pool, e)
             k == Len(pool)
  <1>1. k \in Nat /\ DOMAIN pool = 1..k
    BY LenProperties
  <1>2. new \in Seq(Entries) /\ Len(new) = k + 1 /\ new[k + 1] = e /\ \A i \in 1..k : new[i] = pool[i]
    BY AppendProperties
  <1>3. DOMAIN new = 1..(k + 1)
    BY <1>2, LenProperties
  <1> QED BY <1>1, <1>2, <1>3

\* A transaction is kept, behind those that were kept before it.
LEMMA KeepTx ==
    ASSUME NEW old \in Seq(Entries), DistinctTxs(old), NEW paying, NEW n \in DOMAIN old,
           NEW pool, LeftOf(pool, SubSeq(old, 1, n - 1), paying), old[n].tx \in paying
    PROVE  LeftOf(Append(pool, old[n]), SubSeq(old, 1, n), paying)
  <1> DEFINE e == old[n]
             new == Append(pool, e)
             k == Len(pool)
             before == SubSeq(old, 1, n - 1)
             upto == SubSeq(old, 1, n)
  <1>1. /\ n \in 1..Len(old) /\ Len(old) \in Nat /\ DOMAIN old = 1..Len(old)
        /\ e \in Entries
    BY LenProperties, ElementOfSeq
  <1>2. /\ DOMAIN before = 1..(n - 1) /\ \A a \in 1..(n - 1) : before[a] = old[a]
        /\ DOMAIN upto = 1..n /\ \A a \in 1..n : upto[a] = old[a]
    BY <1>1
  <1> HIDE DEF before, upto
  <1>3. /\ pool \in Seq(Entries) /\ DistinctTxs(pool)
        /\ \A i \in DOMAIN pool : pool[i].tx \in paying /\ \E a \in 1..(n - 1) : pool[i] = old[a]
    BY <1>2, Zenon DEF LeftOf, before
  <1>4. /\ new \in Seq(Entries) /\ k \in Nat /\ DOMAIN pool = 1..k /\ DOMAIN new = 1..(k + 1)
        /\ new[k + 1] = e /\ \A i \in 1..k : new[i] = pool[i]
    BY <1>1, <1>3, Appended
  <1> HIDE DEF new, k
  <1>5. \A i \in 1..k : pool[i].tx # e.tx
    <2> SUFFICES ASSUME NEW i \in 1..k, pool[i].tx = e.tx PROVE FALSE
      OBVIOUS
    <2>1. PICK a \in 1..(n - 1) : pool[i] = old[a]
      BY <1>3, <1>4
    <2>2. a \in DOMAIN old /\ a # n
      BY <1>1
    <2> QED BY <2>1, <2>2 DEF DistinctTxs
  <1>10. \A i \in 1..(k + 1) : i = k + 1 \/ i \in 1..k
    BY <1>4, Intervals
  <1>11. \A a \in 1..(n - 1) : a \in 1..n
    BY <1>1
  <1>6. DistinctTxs(new)
    <2> SUFFICES ASSUME NEW i \in DOMAIN new, NEW j \in DOMAIN new, i # j
                 PROVE  new[i].tx # new[j].tx
      BY DEF DistinctTxs
    <2>1. CASE i = k + 1
      <3>1. j \in 1..k
        BY <1>4, <1>10, <2>1, Zenon
      <3> QED BY <1>4, <1>5, <2>1, <3>1
    <2>2. CASE j = k + 1
      <3>1. i \in 1..k
        BY <1>4, <1>10, <2>2, Zenon
      <3> QED BY <1>4, <1>5, <2>2, <3>1
    <2>3. CASE i # k + 1 /\ j # k + 1
      <3>1. i \in 1..k /\ j \in 1..k
        BY <1>4, <1>10, <2>3, Zenon
      <3> QED BY <1>3, <1>4, <3>1 DEF DistinctTxs
    <2> QED BY <2>1, <2>2, <2>3
  <1>7. ASSUME NEW i \in DOMAIN new
        PROVE  new[i].tx \in paying /\ \E a \in 1..n : new[i] = old[a]
    <2>1. CASE i = k + 1
      BY <1>1, <1>4, <2>1
    <2>2. CASE i # k + 1
      <3>1. i \in 1..k
        BY <1>4, <1>10, <2>2, Zenon
      <3>2. pool[i].tx \in paying /\ \E a \in 1..(n - 1) : pool[i] = old[a]
        BY <1>3, <1>4, <3>1
      <3> QED BY <1>4, <1>11, <3>1, <3>2, Zenon
    <2> QED BY <2>1, <2>2
  <1>8. \A i \in DOMAIN new : new[i].tx \in paying /\ \E a \in DOMAIN upto : new[i] = upto[a]
    <2> SUFFICES ASSUME NEW i \in DOMAIN new
                 PROVE  new[i].tx \in paying /\ \E a \in DOMAIN upto : new[i] = upto[a]
      OBVIOUS
    <2>1. PICK a \in 1..n : new[i] = old[a]
      BY <1>7, Zenon
    <2>2. a \in DOMAIN upto /\ new[i] = upto[a]
      BY <1>2, <2>1, Zenon
    <2> QED BY <1>7, <2>2, Zenon
  <1>9. LeftOf(new, upto, paying)
    BY <1>4, <1>6, <1>8, Zenon DEF LeftOf
  <1> QED BY <1>9 DEF new, upto

\* The recursion of Recheck has a solution.
LEMMA RecheckDefined ==
    ASSUME NEW paying, Len(mempool) \in Nat
    PROVE  \E kept :
               /\ kept = [n \in 0..Len(mempool) |->
                             IF n = 0 THEN [pool |-> <<>>, balance |-> balance]
                             ELSE RecheckTx(paying, kept[n - 1], mempool[n])]
               /\ Recheck(paying) = kept[Len(mempool)]
  <1> DEFINE N == Len(mempool)
             First == [pool |-> <<>>, balance |-> balance]
             Step(acc, n) == RecheckTx(paying, acc, mempool[n])
             F(g, m) == [n \in 0..m |-> IF n = 0 THEN First ELSE Step(g[n - 1], n)]
             P == {m \in Nat : \E g : g = F(g, m)}
  <1> HIDE DEF First, Step
  <1>1. 0 \in P
    <2> DEFINE g == [n \in 0..0 |-> First]
    <2>1. g = F(g, 0)
      <3>1. \A n \in 0..0 : n = 0
        OBVIOUS
      <3> QED BY <3>1
    <2> QED BY <2>1, ZenonT(30)
  <1>2. ASSUME NEW m \in Nat, m \in P PROVE m + 1 \in P
    <2>1. PICK g : g = F(g, m)
      BY <1>2
    <2> DEFINE h == [n \in 0..(m + 1) |-> IF n <= m THEN g[n] ELSE Step(g[m], m + 1)]
    <2>2. ASSUME NEW n \in 0..(m + 1)
          PROVE  h[n] = IF n = 0 THEN First ELSE Step(h[n - 1], n)
      <3>1. CASE n = 0
        BY <2>1, <3>1
      <3>2. CASE n \in 1..m
        <4>1. n - 1 \in 0..m /\ n - 1 <= m /\ n \in 0..m /\ n # 0
          BY <3>2
        <4>2. h[n] = g[n] /\ h[n - 1] = g[n - 1]
          BY <4>1
        <4>3. g[n] = Step(g[n - 1], n)
          BY <2>1, <4>1
        <4> QED BY <4>1, <4>2, <4>3
      <3>3. CASE n = m + 1
        <4>1. ~(n <= m) /\ n - 1 = m /\ n # 0 /\ m \in 0..(m + 1) /\ m <= m
          BY <3>3
        <4>2. h[n] = Step(g[m], n) /\ h[m] = g[m]
          BY <3>3, <4>1
        <4> QED BY <4>1, <4>2
      <3> QED BY <3>1, <3>2, <3>3
    <2>3. h = F(h, m + 1)
      <3> HIDE DEF h
      <3>1. h = [n \in 0..(m + 1) |-> h[n]]
        BY DEF h
      <3> QED BY <2>2, <3>1
    <2>4. m + 1 \in Nat /\ \E g0 : g0 = F(g0, m + 1)
      <3> HIDE DEF h
      <3>1. \E g0 : g0 = F(g0, m + 1)
        BY <2>3
      <3> QED BY <3>1
    <2> QED BY <2>4
  <1>3. Nat \subseteq P
    <2> HIDE DEF P
    <2> QED BY <1>1, <1>2, SetInduction
  <1>4. \E g : g = F(g, N)
    BY <1>3
  <1> DEFINE kept == CHOOSE g : g = F(g, N)
  <1>5. kept = F(kept, N)
    BY <1>4
  <1>6. Recheck(paying) = kept[N]
    BY DEF Recheck, First, Step
  <1> QED BY <1>5, <1>6, Zenon DEF First, Step

\* What ReCheckTx leaves in the mempool was there before and pays.
LEMMA RecheckLeaves ==
    ASSUME NEW paying, mempool \in Seq(Entries), DistinctTxs(mempool)
    PROVE  LeftOf(Recheck(paying).pool, mempool, paying)
  <1> DEFINE N == Len(mempool)
  <1>1. N \in Nat /\ DOMAIN mempool = 1..N
    BY LenProperties
  <1>2. PICK kept :
            /\ kept = [n \in 0..N |-> IF n = 0 THEN [pool |-> <<>>, balance |-> balance]
                                      ELSE RecheckTx(paying, kept[n - 1], mempool[n])]
            /\ Recheck(paying) = kept[N]
    BY <1>1, RecheckDefined
  <1> DEFINE P == {n \in Nat : n <= N => LeftOf(kept[n].pool, SubSeq(mempool, 1, n), paying)}
  <1>3. 0 \in P
    <2>1. kept[0].pool = <<>>
      BY <1>1, <1>2
    <2>2. <<>> \in Seq(Entries) /\ DOMAIN <<>> = {}
      OBVIOUS
    <2>3. LeftOf(<<>>, SubSeq(mempool, 1, 0), paying)
      BY <2>2 DEF LeftOf, DistinctTxs
    <2> QED BY <2>1, <2>3
  <1>4. ASSUME NEW n \in Nat, n \in P PROVE n + 1 \in P
    <2> SUFFICES ASSUME n + 1 <= N
                 PROVE  LeftOf(kept[n + 1].pool, SubSeq(mempool, 1, n + 1), paying)
      OBVIOUS
    <2> DEFINE acc == kept[n]
               m == n + 1
               e == mempool[m]
    <2>1. m \in 1..N /\ m \in 0..N /\ m # 0 /\ m - 1 = n /\ n <= N
      BY <1>1
    <2>2. LeftOf(acc.pool, SubSeq(mempool, 1, n), paying)
      BY <1>4, <2>1
    <2>3. kept[m] = RecheckTx(paying, acc, e)
      BY <1>2, <2>1
    <2> HIDE DEF acc
    <2>4. \/ kept[m].pool = acc.pool
          \/ kept[m].pool = Append(acc.pool, e) /\ e.tx \in paying
      <3> DEFINE new == RecheckTx(paying, acc, e)
      <3>1. \/ new = acc
            \/ /\ e.tx \in paying
               /\ new = [pool |-> Append(acc.pool, e),
                         balance |-> [acc.balance EXCEPT ![e.tx.payer] = SubCoins(@, e.tx.fee)]]
        BY DEF RecheckTx
      <3> HIDE DEF new
      <3>2. new = acc \/ (new.pool = Append(acc.pool, e) /\ e.tx \in paying)
        BY <3>1
      <3> QED BY <2>3, <3>2 DEF new
    <2>5. CASE kept[m].pool = acc.pool
      <3>1. /\ DOMAIN SubSeq(mempool, 1, n) = 1..n /\ DOMAIN SubSeq(mempool, 1, m) = 1..m
            /\ \A a \in 1..n : a \in 1..m /\ SubSeq(mempool, 1, n)[a] = SubSeq(mempool, 1, m)[a]
        BY <1>1, <2>1
      <3> QED BY <2>2, <2>5, <3>1 DEF LeftOf
    <2>6. CASE kept[m].pool = Append(acc.pool, e) /\ e.tx \in paying
      <3>1. LeftOf(acc.pool, SubSeq(mempool, 1, m - 1), paying) /\ m \in DOMAIN mempool
        BY <1>1, <2>1, <2>2
      <3> HIDE DEF m
      <3>2. LeftOf(Append(acc.pool, e), SubSeq(mempool, 1, m), paying)
        BY <2>6, <3>1, KeepTx
      <3> QED BY <2>6, <3>2 DEF m
    <2> QED BY <2>4, <2>5, <2>6
  <1>5. Nat \subseteq P
    <2> HIDE DEF P
    <2> QED BY <1>3, <1>4, SetInduction
  <1>6. LeftOf(kept[N].pool, SubSeq(mempool, 1, N), paying)
    BY <1>1, <1>5
  <1>7. SubSeq(mempool, 1, N) = mempool
    BY SubSeqFull
  <1> QED BY <1>2, <1>6, <1>7, ZenonT(30)

\* The transactions whose fee covers the tax of now.
PaysTax == {t \in Txs : Covers(t.fee, TaxOf(t))}

PoolInv ==
    /\ mempool \in Seq(Entries) /\ DistinctTxs(mempool)
    /\ \A i \in DOMAIN mempool : mempool[i].tx \in PaysTax

\* The tax depends on the levers only.
LEMMA SameTax ==
    ASSUME UNCHANGED <<taxRate, taxCaps, taxPolicy>> PROVE PaysTax' = PaysTax
  <1>1. ASSUME NEW t PROVE TaxOf(t)' = TaxOf(t)
    BY DEF TaxOf, ComputeTax, GetTaxCap
  <1> QED BY <1>1 DEF PaysTax

\* What CheckTx admits, if it does.
LEMMA Admits ==
    ASSUME height \in Nat, NEW t \in Txs, CheckTx(t)
    PROVE  LET e == [tx |-> t, height |-> height - 1]
           IN  /\ e \in Entries /\ e.tx = t /\ e.height = height - 1
               /\ \/ mempool' = mempool
                  \/ /\ mempool' = Append(mempool, e)
                     /\ ~CheckOracleSpamming(height - 1, t.msgs).spam
                     /\ t \in PaysTax /\ ~InMempool(t)
  <1>1. [tx |-> t, height |-> height - 1] \in Entries
    BY DEF Entries
  <1>2. CheckTxFees(t) => t \in PaysTax
    BY DEF CheckTxFees, PaysTax
  <1> QED BY <1>1, <1>2 DEF CheckTx

LEMMA PoolCheck ==
    ASSUME PoolInv, height \in Nat, NEW t \in Txs, CheckTx(t) PROVE PoolInv'
  <1> DEFINE e == [tx |-> t, height |-> height - 1]
  <1>1. PaysTax' = PaysTax
    BY SameTax DEF CheckTx, vars, leverVars
  <1>2. CASE mempool' = mempool
    BY <1>1, <1>2 DEF PoolInv
  <1>3. CASE mempool' = Append(mempool, e) /\ t \in PaysTax /\ ~InMempool(t)
    <2> DEFINE k == Len(mempool)
    <2>1. /\ mempool' \in Seq(Entries) /\ k \in Nat
          /\ DOMAIN mempool = 1..k /\ DOMAIN mempool' = 1..(k + 1)
          /\ mempool'[k + 1] = e /\ \A i \in 1..k : mempool'[i] = mempool[i]
      <3>1. mempool \in Seq(Entries) /\ e \in Entries
        BY Admits DEF PoolInv
      <3> HIDE DEF e
      <3> QED BY <1>3, <3>1, Appended
    <2>2. e.tx = t
      OBVIOUS
    <2> HIDE DEF k, e
    <2>3. \A i \in DOMAIN mempool' : i = k + 1 \/ i \in 1..k
      BY <2>1
    <2>4. \A i \in 1..k : mempool[i].tx # t /\ mempool[i].tx \in PaysTax
      BY <1>3, <2>1 DEF InMempool, PoolInv
    <2>5. \A i, j \in 1..k : i # j => mempool[i].tx # mempool[j].tx
      BY <2>1 DEF PoolInv, DistinctTxs
    <2>6. DistinctTxs(mempool')
      BY <2>1, <2>2, <2>3, <2>4, <2>5 DEF DistinctTxs
    <2>7. \A i \in DOMAIN mempool' : mempool'[i].tx \in PaysTax'
      BY <1>1, <1>3, <2>1, <2>2, <2>3, <2>4
    <2> QED BY <2>1, <2>6, <2>7 DEF PoolInv
  <1> QED BY <1>2, <1>3, Admits

\* The mempool after a commit.
LEMMA CommitLeaves ==
    ASSUME PoolInv, CommitBlock
    PROVE  \/ UNCHANGED <<mempool, taxRate, taxCaps, taxPolicy, height>>
           \/ LeftOf(mempool', mempool, PaysTax')
  <1>1. CASE Halt
    BY <1>1 DEF CommitBlock, Halt, leverVars, anteVars, nodeVars
  <1>2. CASE ~Halt
    <2>1. ~halted'
      BY <1>2 DEF CommitBlock, EndBlock
    <2> DEFINE paying == {t \in Txs : CheckTxFees(t)'}
    <2>2. mempool' = Recheck(paying).pool
      BY <2>1 DEF CommitBlock
    <2>3. paying \subseteq PaysTax'
      BY DEF CheckTxFees, PaysTax
    <2> HIDE DEF paying
    <2>4. LeftOf(mempool', mempool, paying)
      BY <2>2, RecheckLeaves DEF PoolInv
    <2> QED BY <2>3, <2>4 DEF LeftOf
  <1> QED BY <1>1, <1>2

LEMMA PoolStep ==
    ASSUME PoolInv, height \in Nat, [AnteNext]_<<vars, anteVars>> PROVE PoolInv'
  <1>1. ASSUME NEW t \in Txs, CheckTx(t) PROVE PoolInv'
    BY <1>1, PoolCheck
  <1>2. CASE UNCHANGED <<mempool, taxRate, taxCaps, taxPolicy>>
    BY <1>2, SameTax DEF PoolInv
  <1>3. ASSUME NEW t \in Txs, DeliverTx(t) PROVE UNCHANGED <<mempool, taxRate, taxCaps, taxPolicy>>
    BY <1>3 DEF DeliverTx, RecordEpochTaxProceeds, leverVars, nodeVars
  <1>4. CASE CommitBlock
    <2>1. CASE LeftOf(mempool', mempool, PaysTax')
      BY <2>1 DEF LeftOf, PoolInv
    <2> QED BY <1>2, <1>4, <2>1, CommitLeaves
  <1>5. CASE RestartNode
    <2>1. mempool' = <<>>
      BY <1>5 DEF RestartNode
    <2> QED BY <2>1 DEF PoolInv, DistinctTxs
  <1>6. UNCHANGED <<vars, anteVars>> => UNCHANGED <<mempool, taxRate, taxCaps, taxPolicy>>
    BY DEF vars, leverVars, anteVars, nodeVars
  <1> QED BY <1>1, <1>2, <1>3, <1>4, <1>5, <1>6 DEF AnteNext

\* The invariant that the theorems on the mempool share with the one on the proceeds.
LEMMA NodeInvariant == AnteSpec => [](ProceedsInv /\ PoolInv)
  <1>1. AnteInit => ProceedsInv /\ PoolInv
    <2>1. ASSUME AnteInit PROVE PoolInv
      <3>1. mempool = <<>>
        BY <2>1 DEF AnteInit
      <3> QED BY <3>1 DEF PoolInv, DistinctTxs
    <2> QED BY <2>1, ProceedsInitially
  <1>2. ProceedsInv /\ PoolInv /\ [AnteNext]_<<vars, anteVars>> => (ProceedsInv /\ PoolInv)'
    <2> QED BY HeightType, ProceedsStep, PoolStep
  <1> QED BY <1>1, <1>2, PTL DEF AnteSpec

\* For any transactions, whatever the epochs do to the rate and the caps: the fee of every
\* transaction that waits in the mempool covers its tax of now (tax.go:44-62).
THEOREM WaitingPaysTax == AnteSpec => []MempoolPaysTax
  <1>1. PoolInv => MempoolPaysTax
    BY DEF PoolInv, PaysTax, MempoolPaysTax
  <1> QED BY <1>1, NodeInvariant, PTL

-----------------------------------------------------------------------------
(* Free oracle transactions *)

HeightTable == [Validators -> Int \cup {None}]

\* A map of the spamming prevention knows no height from h on.
Until(map, h) == map \in HeightTable /\ \A v \in Validators : map[v] # None => map[v] < h

\* What the maps have for an oracle message.
Recorded(prevotes, votes, m) ==
    IF m.type = "prevote" THEN prevotes[m.validator] ELSE votes[m.validator]

\* A transaction in the mempool that pays no fee left its height in the maps, where only
\* a later one replaces it.
Tracked(e, prevotes, votes, h) ==
    /\ e.height < h
    /\ FeeExempt(e.tx) =>
          \A k \in DOMAIN e.tx.msgs :
              /\ Recorded(prevotes, votes, e.tx.msgs[k]) \in Int
              /\ e.height <= Recorded(prevotes, votes, e.tx.msgs[k])

OneFree(pool) ==
    \A i, j \in DOMAIN pool :
        pool[i].height = pool[j].height /\ FeeExempt(pool[i].tx) /\ FeeExempt(pool[j].tx) =>
            \A k \in DOMAIN pool[i].tx.msgs, l \in DOMAIN pool[j].tx.msgs :
                <<i, k>> # <<j, l>> => ~SameSubmission(pool[i].tx.msgs[k], pool[j].tx.msgs[l])

FreeInv ==
    /\ Until(oraclePrevoteMap, height) /\ Until(oracleVoteMap, height)
    /\ \A i \in DOMAIN mempool : Tracked(mempool[i], oraclePrevoteMap, oracleVoteMap, height)
    /\ OneFree(mempool)

\* What is left of a mempool has the property that the mempool had.
LEMMA FreeLeft ==
    ASSUME NEW pool, NEW old, NEW paying, LeftOf(pool, old, paying), OneFree(old)
    PROVE  OneFree(pool)
  <1> SUFFICES ASSUME NEW i \in DOMAIN pool, NEW j \in DOMAIN pool,
                      pool[i].height = pool[j].height,
                      FeeExempt(pool[i].tx), FeeExempt(pool[j].tx),
                      NEW k \in DOMAIN pool[i].tx.msgs, NEW l \in DOMAIN pool[j].tx.msgs,
                      <<i, k>> # <<j, l>>
               PROVE  ~SameSubmission(pool[i].tx.msgs[k], pool[j].tx.msgs[l])
    BY DEF OneFree
  <1>1. PICK a \in DOMAIN old : pool[i] = old[a]
    BY DEF LeftOf
  <1>2. CASE i = j
    <2>1. k # l /\ l \in DOMAIN old[a].tx.msgs /\ k \in DOMAIN old[a].tx.msgs /\ FeeExempt(old[a].tx)
      BY <1>1, <1>2
    <2>2. ~SameSubmission(old[a].tx.msgs[k], old[a].tx.msgs[l])
      BY <2>1 DEF OneFree
    <2> QED BY <1>1, <1>2, <2>2
  <1>3. CASE i # j
    <2>1. PICK b \in DOMAIN old : pool[j] = old[b]
      BY DEF LeftOf
    <2>2. pool[i].tx # pool[j].tx
      BY <1>3 DEF LeftOf, DistinctTxs
    <2>3. a # b
      BY <1>1, <2>1, <2>2
    <2>4. ~SameSubmission(old[a].tx.msgs[k], old[b].tx.msgs[l])
      BY <1>1, <2>1, <2>3 DEF OneFree
    <2> QED BY <1>1, <2>1, <2>4
  <1> QED BY <1>2, <1>3

\* So has a mempool with one more transaction, of which no message repeats another one.
LEMMA FreeAppend ==
    ASSUME NEW pool \in Seq(Entries), OneFree(pool), NEW e \in Entries,
           FeeExempt(e.tx) =>
               /\ \A k, l \in DOMAIN e.tx.msgs :
                      k # l => ~SameSubmission(e.tx.msgs[k], e.tx.msgs[l])
               /\ \A i \in DOMAIN pool :
                      pool[i].height = e.height /\ FeeExempt(pool[i].tx) =>
                          \A k \in DOMAIN pool[i].tx.msgs, l \in DOMAIN e.tx.msgs :
                              ~SameSubmission(pool[i].tx.msgs[k], e.tx.msgs[l])
    PROVE  OneFree(Append(pool, e))
  <1> DEFINE new == Append(pool, e)
             n == Len(pool)
  <1>1. /\ n \in Nat /\ DOMAIN pool = 1..n /\ DOMAIN new = 1..(n + 1)
        /\ new[n + 1] = e /\ \A i \in 1..n : new[i] = pool[i]
    BY Appended
  <1> HIDE DEF new, n
  <1>2. \A i \in DOMAIN new : i = n + 1 \/ (i \in DOMAIN pool /\ new[i] = pool[i])
    <2>1. \A i \in 1..(n + 1) : i = n + 1 \/ i \in 1..n
      <3>1. n \in Nat
        BY <1>1, Zenon
      <3> QED BY <3>1, Intervals
    <2> QED BY <1>1, <2>1, Zenon
  <1> SUFFICES ASSUME NEW i \in DOMAIN new, NEW j \in DOMAIN new,
                      new[i].height = new[j].height,
                      FeeExempt(new[i].tx), FeeExempt(new[j].tx),
                      NEW k \in DOMAIN new[i].tx.msgs, NEW l \in DOMAIN new[j].tx.msgs,
                      <<i, k>> # <<j, l>>
               PROVE  ~SameSubmission(new[i].tx.msgs[k], new[j].tx.msgs[l])
    BY DEF OneFree, new
  <1>3. CASE i = n + 1 /\ j = n + 1
    BY <1>1, <1>3
  <1>4. CASE i = n + 1 /\ j \in DOMAIN pool /\ new[j] = pool[j]
    <2>1. ~SameSubmission(pool[j].tx.msgs[l], e.tx.msgs[k])
      BY <1>1, <1>4
    <2> QED BY <1>1, <1>4, <2>1, ZenonT(30) DEF SameSubmission
  <1>5. CASE j = n + 1 /\ i \in DOMAIN pool /\ new[i] = pool[i]
    BY <1>1, <1>5
  <1>6. CASE i \in DOMAIN pool /\ new[i] = pool[i] /\ j \in DOMAIN pool /\ new[j] = pool[j]
    BY <1>6 DEF OneFree
  <1> QED BY <1>2, <1>3, <1>4, <1>5, <1>6

\* The messages of an oracle transaction.
LEMMA OracleMsgs ==
    ASSUME NEW t \in Txs
    PROVE  /\ Len(t.msgs) \in Nat /\ DOMAIN t.msgs = 1..Len(t.msgs)
           /\ IsOracleTx(t) => \A k \in DOMAIN t.msgs :
                  t.msgs[k].type \in OracleTypes /\ t.msgs[k].validator \in Validators
  <1>1. t.msgs \in Seq(Messages)
    BY AnteAssumption
  <1>2. Len(t.msgs) \in Nat /\ DOMAIN t.msgs = 1..Len(t.msgs)
    BY <1>1, LenProperties
  <1>3. \A k \in DOMAIN t.msgs : t.msgs[k] \in Messages
    BY <1>1, <1>2, ElementOfSeq
  <1>4. ASSUME NEW m \in Messages, m.type \in OracleTypes PROVE m.validator \in Validators
    BY <1>4 DEF Messages, OracleTypes
  <1> QED BY <1>2, <1>3, <1>4 DEF IsOracleTx

\* CheckOracleSpamming writes the height into the maps and nothing else.
LEMMA SpamMaps ==
    ASSUME height \in Nat, Until(oraclePrevoteMap, height), Until(oracleVoteMap, height), NEW msgs
    PROVE  LET check == CheckOracleSpamming(height - 1, msgs)
           IN  /\ Until(check.prevotes, height) /\ Until(check.votes, height)
               /\ \A v \in Validators :
                     /\ check.prevotes[v] \in {height - 1, oraclePrevoteMap[v]}
                     /\ check.votes[v] \in {height - 1, oracleVoteMap[v]}
  <1> DEFINE check == CheckOracleSpamming(height - 1, msgs)
  <1>1. /\ DOMAIN check.prevotes = Validators /\ DOMAIN check.votes = Validators
        /\ check.prevotes = [v \in Validators |-> check.prevotes[v]]
        /\ check.votes = [v \in Validators |-> check.votes[v]]
        /\ \A v \in Validators :
              /\ check.prevotes[v] \in {height - 1, oraclePrevoteMap[v]}
              /\ check.votes[v] \in {height - 1, oracleVoteMap[v]}
    BY ZenonT(30) DEF CheckOracleSpamming
  <1> HIDE DEF check
  <1>2. height - 1 \in Int /\ height - 1 < height
    OBVIOUS
  <1>3. Until(check.prevotes, height) /\ Until(check.votes, height)
    BY <1>1, <1>2 DEF Until, HeightTable
  <1> QED BY <1>1, <1>3 DEF check

\* It examines an oracle transaction to the end.
LEMMA SpamExamined ==
    ASSUME NEW h, NEW t \in Txs, IsOracleTx(t), ~CheckOracleSpamming(h, t.msgs).spam
    PROVE  LET check == CheckOracleSpamming(h, t.msgs)
           IN  \A k \in DOMAIN t.msgs :
                  /\ Recorded(oraclePrevoteMap, oracleVoteMap, t.msgs[k]) # h
                  /\ Recorded(check.prevotes, check.votes, t.msgs[k]) = h
                  /\ \A l \in 1..(k - 1) : ~SameSubmission(t.msgs[l], t.msgs[k])
  <1> DEFINE msgs == t.msgs
             examined == {i \in DOMAIN msgs : \A j \in 1..i : msgs[j].type \in OracleTypes}
             Refused(i) == \/ ~msgs[i].feederOk
                           \/ Recorded(oraclePrevoteMap, oracleVoteMap, msgs[i]) = h
                           \/ \E j \in 1..(i - 1) : SameSubmission(msgs[j], msgs[i])
             passed == {i \in examined : \A j \in 1..i : ~Refused(j)}
             Submitted(map, type) ==
                 [v \in Validators |->
                     IF \E i \in passed : msgs[i].type = type /\ msgs[i].validator = v
                     THEN h ELSE map[v]]
             check == CheckOracleSpamming(h, msgs)
  <1>1. /\ check.spam = (passed # examined)
        /\ check.prevotes = Submitted(oraclePrevoteMap, "prevote")
        /\ check.votes = Submitted(oracleVoteMap, "vote")
    BY ZenonT(30) DEF CheckOracleSpamming, Recorded
  <1> HIDE DEF check
  <1>2. /\ Len(msgs) \in Nat /\ DOMAIN msgs = 1..Len(msgs)
        /\ \A k \in DOMAIN msgs : msgs[k].type \in OracleTypes /\ msgs[k].validator \in Validators
    BY OracleMsgs, ZenonT(30)
  <1>10. \A i \in 1..Len(msgs) : i \in 1..i /\ \A j \in 1..i : j \in 1..Len(msgs)
    <2>1. Len(msgs) \in Nat
      BY <1>2, Zenon
    <2> HIDE DEF msgs
    <2> QED BY <2>1, Intervals
  <1>3. examined = DOMAIN msgs
    <2>1. \A i \in 1..Len(msgs) : \A j \in 1..i : j \in 1..Len(msgs)
      BY <1>10, Zenon
    <2>2. \A i \in DOMAIN msgs : \A j \in 1..i : msgs[j].type \in OracleTypes
      BY <1>2, <2>1, Zenon
    <2> QED BY <2>2, Zenon
  <1>4. passed = DOMAIN msgs
    BY <1>1, <1>3, ZenonT(30) DEF check
  <1>5. \A k \in DOMAIN msgs : k \in 1..k
    BY <1>2, <1>10, Zenon
  <1> SUFFICES ASSUME NEW k \in DOMAIN msgs
               PROVE  /\ Recorded(oraclePrevoteMap, oracleVoteMap, msgs[k]) # h
                      /\ Recorded(check.prevotes, check.votes, msgs[k]) = h
                      /\ \A l \in 1..(k - 1) : ~SameSubmission(msgs[l], msgs[k])
    BY ZenonT(30) DEF check
  <1>6. k \in passed
    <2> HIDE DEF passed
    <2> QED BY <1>4
  <1>7. ~Refused(k)
    <2> HIDE DEF Refused
    <2> QED BY <1>5, <1>6, Zenon
  <1>8. ASSUME NEW type, NEW map, msgs[k].type = type
        PROVE  Submitted(map, type)[msgs[k].validator] = h
    <2> HIDE DEF passed
    <2> QED BY <1>2, <1>6, <1>8
  <1>9. Recorded(check.prevotes, check.votes, msgs[k]) = h
    <2>1. msgs[k].type = "prevote" \/ msgs[k].type = "vote"
      BY <1>2 DEF OracleTypes
    <2> HIDE DEF Submitted
    <2>2. msgs[k].type = "prevote" => check.prevotes[msgs[k].validator] = h
      BY <1>1, <1>8
    <2>3. msgs[k].type = "vote" => check.votes[msgs[k].validator] = h
      BY <1>1, <1>8
    <2> QED BY <2>1, <2>2, <2>3 DEF Recorded
  <1> QED BY <1>7, <1>9, ZenonT(30)

\* What was recorded stays so, or is replaced by the height of now.
LEMMA StaysTracked ==
    ASSUME NEW h \in Int, NEW p, NEW q, NEW newp, NEW newq,
           NEW e \in Entries, Tracked(e, p, q, h),
           \A v \in Validators : newp[v] \in {h - 1, p[v]} /\ newq[v] \in {h - 1, q[v]}
    PROVE  Tracked(e, newp, newq, h)
  <1>1. e.tx \in Txs /\ e.height \in Int /\ e.height < h
    BY DEF Entries, Tracked
  <1>2. e.height <= h - 1 /\ h - 1 \in Int
    <2> DEFINE f == e.height
    <2>1. f \in Int /\ f < h
      BY <1>1
    <2> HIDE DEF f
    <2>2. f <= h - 1 /\ h - 1 \in Int
      BY <2>1
    <2> QED BY <2>2 DEF f
  <1>3. ASSUME FeeExempt(e.tx), NEW k \in DOMAIN e.tx.msgs
        PROVE  /\ Recorded(newp, newq, e.tx.msgs[k]) \in Int
               /\ e.height <= Recorded(newp, newq, e.tx.msgs[k])
    <2> DEFINE m == e.tx.msgs[k]
    <2>1. m.validator \in Validators
      BY <1>1, <1>3, OracleMsgs DEF FeeExempt
    <2>2. Recorded(p, q, m) \in Int /\ e.height <= Recorded(p, q, m)
      BY <1>3 DEF Tracked
    <2> HIDE DEF m
    <2>3. Recorded(newp, newq, m) \in {h - 1, Recorded(p, q, m)}
      BY <2>1 DEF Recorded
    <2>4. Recorded(newp, newq, m) \in Int /\ e.height <= Recorded(newp, newq, m)
      BY <1>2, <2>2, <2>3
    <2> QED BY <2>4 DEF m
  <1> QED BY <1>1, <1>3 DEF Tracked

LEMMA FreeCheck ==
    ASSUME FreeInv, PoolInv, height \in Nat, NEW t \in Txs, CheckTx(t) PROVE FreeInv'
  <1> DEFINE e == [tx |-> t, height |-> height - 1]
             check == CheckOracleSpamming(height - 1, t.msgs)
             p == oraclePrevoteMap
             q == oracleVoteMap
  <1>1. p' = check.prevotes /\ q' = check.votes /\ height' = height
    BY DEF CheckTx, vars
  <1>2. /\ Until(p, height) /\ Until(q, height)
        /\ \A i \in DOMAIN mempool : Tracked(mempool[i], p, q, height)
        /\ OneFree(mempool) /\ mempool \in Seq(Entries)
    BY DEF FreeInv, PoolInv
  <1>3. /\ Until(p', height) /\ Until(q', height)
        /\ \A v \in Validators : p'[v] \in {height - 1, p[v]} /\ q'[v] \in {height - 1, q[v]}
    BY <1>1, <1>2, SpamMaps, ZenonT(30)
  <1>4. ASSUME NEW i \in DOMAIN mempool PROVE mempool[i] \in Entries /\ Tracked(mempool[i], p', q', height)
    <2>1. mempool[i] \in Entries
      BY <1>2, LenProperties, ElementOfSeq
    <2>2. Tracked(mempool[i], p, q, height)
      BY <1>2
    <2>3. height \in Int
      OBVIOUS
    <2> QED BY <1>3, <2>1, <2>2, <2>3, StaysTracked
  <1>5. CASE mempool' = mempool
    BY <1>1, <1>2, <1>3, <1>4, <1>5, ZenonT(30) DEF FreeInv
  <1>6. CASE mempool' = Append(mempool, e) /\ ~check.spam
    <2>1. e \in Entries /\ e.tx = t /\ e.height = height - 1
      BY Admits
    <2>2. FeeExempt(t) => \A k \in DOMAIN t.msgs :
              /\ Recorded(p, q, t.msgs[k]) # height - 1
              /\ Recorded(p', q', t.msgs[k]) = height - 1
              /\ \A l \in 1..(k - 1) : ~SameSubmission(t.msgs[l], t.msgs[k])
      BY <1>1, <1>6, SpamExamined, ZenonT(30) DEF FeeExempt
    <2> HIDE DEF e, check
    <2>3. Tracked(e, p', q', height)
      <3>1. FeeExempt(t) => \A k \in DOMAIN t.msgs : Recorded(p', q', t.msgs[k]) = height - 1
        BY <2>2, Zenon
      <3>2. height - 1 \in Int /\ height - 1 < height /\ height - 1 <= height - 1
        OBVIOUS
      <3> QED BY <2>1, <3>1, <3>2 DEF Tracked
    <2>4. ASSUME FeeExempt(t), NEW k \in DOMAIN t.msgs, NEW l \in DOMAIN t.msgs, k # l
          PROVE  ~SameSubmission(t.msgs[k], t.msgs[l])
      <3> DEFINE n == Len(t.msgs)
      <3>1. k \in 1..n /\ l \in 1..n /\ n \in Nat
        BY OracleMsgs
      <3> HIDE DEF n
      <3>2. k \in 1..(l - 1) \/ l \in 1..(k - 1)
        <4>1. \A i, j \in 1..n : i # j => i \in 1..(j - 1) \/ j \in 1..(i - 1)
          BY <3>1, Intervals
        <4> QED BY <2>4, <3>1, <4>1, Zenon
      <3> QED BY <2>2, <2>4, <3>2, ZenonT(30) DEF SameSubmission
    <2>5. ASSUME FeeExempt(t), NEW i \in DOMAIN mempool, mempool[i].height = height - 1,
                 FeeExempt(mempool[i].tx), NEW k \in DOMAIN mempool[i].tx.msgs,
                 NEW l \in DOMAIN t.msgs, SameSubmission(mempool[i].tx.msgs[k], t.msgs[l])
          PROVE  FALSE
      <3> DEFINE m == mempool[i].tx.msgs[k]
      <3>1. Recorded(p, q, m) = Recorded(p, q, t.msgs[l])
        BY <2>5, ZenonT(30) DEF Recorded, SameSubmission
      <3>2. Recorded(p, q, m) \in Int /\ height - 1 <= Recorded(p, q, m)
        BY <1>2, <2>5, ZenonT(30) DEF Tracked
      <3>3. m.validator \in Validators
        BY <1>4, <2>5, OracleMsgs DEF FeeExempt, Entries
      <3> HIDE DEF m
      <3>4. Recorded(p, q, m) # None => Recorded(p, q, m) < height
        BY <1>2, <3>3 DEF Recorded, Until
      <3>5. Recorded(p, q, m) = height - 1
        BY <3>2, <3>4, PricesAssumption
      <3> QED BY <2>2, <2>5, <3>1, <3>5, ZenonT(30)
    <2>6. OneFree(Append(mempool, e))
      BY <1>2, <2>1, <2>4, <2>5, FreeAppend, ZenonT(30)
    <2>7. \A i \in DOMAIN mempool' : mempool'[i] = e \/ \E j \in DOMAIN mempool : mempool'[i] = mempool[j]
      <3> DEFINE n == Len(mempool)
      <3>1. /\ n \in Nat /\ DOMAIN mempool = 1..n /\ DOMAIN mempool' = 1..(n + 1)
            /\ mempool'[n + 1] = e /\ \A i \in 1..n : mempool'[i] = mempool[i]
        BY <1>2, <1>6, <2>1, Appended
      <3> HIDE DEF n
      <3>2. \A i \in 1..(n + 1) : i = n + 1 \/ i \in 1..n
        <4>1. n \in Nat
          BY <3>1, Zenon
        <4> QED BY <4>1, Intervals
      <3> QED BY <3>1, <3>2, Zenon
    <2>8. \A i \in DOMAIN mempool' : Tracked(mempool'[i], p', q', height)
      BY <1>4, <2>3, <2>7
    <2> QED BY <1>1, <1>3, <1>6, <2>6, <2>8 DEF FreeInv
  <1> QED BY <1>5, <1>6, Admits

LEMMA FreeCommit ==
    ASSUME FreeInv, PoolInv, height \in Nat, CommitBlock PROVE FreeInv'
  <1> DEFINE p == oraclePrevoteMap
             q == oracleVoteMap
  <1>1. UNCHANGED <<p, q>>
    BY DEF CommitBlock, anteVars, nodeVars
  <1>2. height' = height \/ height' = height + 1
    BY DEF CommitBlock, EndBlock, Halt, NextBlock
  <1>3. height' \in Int /\ height <= height'
    BY <1>2
  <1>4. Until(p, height') /\ Until(q, height')
    <2>1. ASSUME NEW map, Until(map, height) PROVE Until(map, height')
      BY <1>3, <2>1 DEF Until, HeightTable
    <2> QED BY <2>1 DEF FreeInv
  <1>5. ASSUME NEW i \in DOMAIN mempool PROVE Tracked(mempool[i], p, q, height')
    <2>1. mempool[i].height \in Int
      <3>1. mempool \in Seq(Entries)
        BY DEF PoolInv
      <3>2. mempool[i] \in Entries
        BY <3>1, LenProperties, ElementOfSeq
      <3> QED BY <3>2 DEF Entries
    <2>2. Tracked(mempool[i], p, q, height)
      BY DEF FreeInv
    <2>3. mempool[i].height < height'
      <3>1. mempool[i].height < height
        BY <2>2, Zenon DEF Tracked
      <3> QED BY <1>3, <2>1, <3>1
    <2> QED BY <2>2, <2>3, Zenon DEF Tracked
  <1>6. CASE mempool' = mempool
    BY <1>1, <1>4, <1>5, <1>6 DEF FreeInv
  <1>7. CASE LeftOf(mempool', mempool, PaysTax')
    <2>1. OneFree(mempool')
      BY <1>7, FreeLeft DEF FreeInv
    <2>2. \A i \in DOMAIN mempool' : \E a \in DOMAIN mempool : mempool'[i] = mempool[a]
      BY <1>7 DEF LeftOf
    <2>3. \A i \in DOMAIN mempool' : Tracked(mempool'[i], p, q, height')
      BY <1>5, <2>2
    <2> QED BY <1>1, <1>4, <2>1, <2>3 DEF FreeInv
  <1> QED BY <1>6, <1>7, CommitLeaves

LEMMA FreeStep ==
    ASSUME FreeInv, PoolInv, height \in Nat, [AnteNext]_<<vars, anteVars>> PROVE FreeInv'
  <1>1. ASSUME NEW t \in Txs, CheckTx(t) PROVE FreeInv'
    BY <1>1, FreeCheck
  <1>2. CASE CommitBlock
    BY <1>2, FreeCommit
  <1>3. CASE UNCHANGED <<height, nodeVars>>
    BY <1>3 DEF FreeInv, nodeVars
  <1>4. ASSUME NEW t \in Txs, DeliverTx(t) PROVE UNCHANGED <<height, nodeVars>>
    BY <1>4 DEF DeliverTx, RecordEpochTaxProceeds
  <1>5. CASE RestartNode
    <2>1. /\ mempool' = <<>> /\ height' = height
          /\ oraclePrevoteMap' = [v \in Validators |-> None]
          /\ oracleVoteMap' = [v \in Validators |-> None]
      BY <1>5 DEF RestartNode, vars
    <2>2. Until([v \in Validators |-> None], height)
      BY DEF Until, HeightTable
    <2>3. DOMAIN mempool' = {}
      BY <2>1
    <2>4. OneFree(mempool')
      BY <2>3 DEF OneFree
    <2> QED BY <2>1, <2>2, <2>3, <2>4 DEF FreeInv
  <1>6. UNCHANGED <<vars, anteVars>> => UNCHANGED <<height, nodeVars>>
    BY DEF vars, anteVars
  <1> QED BY <1>1, <1>2, <1>3, <1>4, <1>5, <1>6 DEF AnteNext

\* For any validators and any transactions, through restarts of the node: of the transactions
\* in the mempool that pay no fee and were admitted at one height, no two messages are the
\* same validator's prevotes or votes (spamming_prevention.go:49-103, tax.go:48-54).
THEOREM NoFreeRepeats == AnteSpec => []OneFreePerHeight
  <1>1. AnteInit => FreeInv
    <2> SUFFICES ASSUME AnteInit PROVE FreeInv
      OBVIOUS
    <2>1. /\ mempool = <<>> /\ oraclePrevoteMap = [v \in Validators |-> None]
          /\ oracleVoteMap = [v \in Validators |-> None]
      BY DEF AnteInit
    <2>2. Until([v \in Validators |-> None], height)
      BY DEF Until, HeightTable
    <2>3. DOMAIN mempool = {}
      BY <2>1
    <2>4. OneFree(mempool)
      BY <2>3 DEF OneFree
    <2> QED BY <2>1, <2>2, <2>3, <2>4 DEF FreeInv
  <1>2. ProceedsInv /\ PoolInv /\ FreeInv /\ [AnteNext]_<<vars, anteVars>> => FreeInv'
    <2> QED BY HeightType, FreeStep
  <1>3. FreeInv => OneFreePerHeight
    BY DEF FreeInv, OneFree, OneFreePerHeight
  <1> QED BY <1>1, <1>2, <1>3, NodeInvariant, PTL DEF AnteSpec

===========================================================================
