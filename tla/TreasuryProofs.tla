-------------------------- MODULE TreasuryProofs --------------------------
(***************************************************************************)
(* Theorems about Treasury, for any denominations, policies and lengths of *)
(* epochs: the policy levers implement PolicyLever, the taxes and the      *)
(* seigniorage counted are those of the epoch, and an export loses nothing.*)
(***************************************************************************)
EXTENDS Treasury, ArithmeticTheorems, TLAPS

\* The epoch of a height of the run has its place in the indicators.
LEMMA EpochInRange ==
    ASSUME NEW h \in 0..MaxHeight
    PROVE  GetEpoch(h) \in Epochs /\ GetEpoch(h) \in Nat
  <1>1. BlocksPerWeek \in Nat \ {0} /\ MaxHeight \in Nat
    BY TreasuryAssumption
  <1>2. h \in Nat /\ MaxHeight + 1 \in Nat /\ h <= MaxHeight + 1
    BY <1>1
  <1>3. h \div BlocksPerWeek <= (MaxHeight + 1) \div BlocksPerWeek
    BY <1>1, <1>2, DivMonotone
  <1>4. h \div BlocksPerWeek \in Nat /\ (MaxHeight + 1) \div BlocksPerWeek \in Nat
    BY <1>1, <1>2, DivDef
  <1> QED BY <1>3, <1>4 DEF GetEpoch, Epochs

\* The epoch changes after its last block and at no other.
LEMMA NextEpoch ==
    ASSUME NEW h \in Nat
    PROVE  /\ IsPeriodLastBlock(h, BlocksPerWeek) => GetEpoch(h + 1) = GetEpoch(h) + 1
           /\ ~IsPeriodLastBlock(h, BlocksPerWeek) => GetEpoch(h + 1) = GetEpoch(h)
  BY TreasuryAssumption, NextPeriod DEF GetEpoch

-----------------------------------------------------------------------------
(* The levers *)

\* What a policy is.
IsPolicy(pc) ==
    /\ pc.RateMin \in Nat /\ pc.RateMax \in Nat /\ pc.ChangeRateMax \in Nat
    /\ pc.RateMin <= pc.RateMax

\* Clamp (constraint.go) makes a move that the policy allows.
LEMMA ClampAllowed ==
    ASSUME NEW pc, IsPolicy(pc), NEW prevRate \in Nat, NEW newRate \in Int
    PROVE  /\ Clamp(pc, prevRate, newRate) \in Nat
           /\ TaxLever!Allowed(pc, prevRate, Clamp(pc, prevRate, newRate))
           /\ RewardLever!Allowed(pc, prevRate, Clamp(pc, prevRate, newRate))
  BY DEF IsPolicy, Clamp, TaxLever!Allowed, RewardLever!Allowed

LEMMA ClampComputedAllowed ==
    ASSUME NEW pc, IsPolicy(pc), NEW prevRate \in Nat, NEW newRate,
           ClampComputed(pc, prevRate, newRate) # None
    PROVE  /\ ClampComputed(pc, prevRate, newRate) \in Nat
           /\ TaxLever!Allowed(pc, prevRate, ClampComputed(pc, prevRate, newRate))
           /\ RewardLever!Allowed(pc, prevRate, ClampComputed(pc, prevRate, newRate))
  <1>1. newRate \in (-MaxDec)..MaxDec
    BY DEF ClampComputed
  <1>2. newRate \in Int
    BY <1>1, TreasuryAssumption
  <1>3. ClampComputed(pc, prevRate, newRate) = Clamp(pc, prevRate, newRate)
    BY <1>1 DEF ClampComputed
  <1> QED BY <1>2, <1>3, ClampAllowed

\* The policies governance may set are policies.
LEMMA PoliciesValid ==
    ASSUME NEW pc \in TaxPolicies \cup RewardPolicies
    PROVE  IsPolicy(pc)
  BY TreasuryAssumption DEF IsPolicy

LEMMA UpdateTaxPolicyAllowed ==
    ASSUME taxRate \in Nat, NEW pc \in TaxPolicies, NEW tr, NEW tsl,
           UpdateTaxPolicy(pc, tr, tsl) # None
    PROVE  /\ UpdateTaxPolicy(pc, tr, tsl) \in Nat
           /\ TaxLever!Allowed(pc, taxRate, UpdateTaxPolicy(pc, tr, tsl))
  <1>1. IsPolicy(pc) /\ pc.RateMax \in Int
    BY PoliciesValid DEF IsPolicy
  <1> QED BY <1>1, ClampAllowed, ClampComputedAllowed, Zenon DEF UpdateTaxPolicy

LEMMA UpdateRewardPolicyAllowed ==
    ASSUME rewardWeight \in Nat, NEW pc \in RewardPolicies, NEW tr, NEW sr,
           UpdateRewardPolicy(pc, tr, sr) # None
    PROVE  /\ UpdateRewardPolicy(pc, tr, sr) \in Nat
           /\ RewardLever!Allowed(pc, rewardWeight, UpdateRewardPolicy(pc, tr, sr))
  <1>1. IsPolicy(pc) /\ pc.RateMax \in Int
    BY PoliciesValid DEF IsPolicy
  <1> QED BY <1>1, ClampAllowed, ClampComputedAllowed, Zenon DEF UpdateRewardPolicy

\* The levers hold natural numbers, their policies are those governance may set.
LeverInv ==
    /\ taxRate \in Nat /\ rewardWeight \in Nat
    /\ taxPolicy \in TaxPolicies /\ rewardPolicy \in RewardPolicies

LEMMA LeverInitially ==
    ASSUME Init
    PROVE  LeverInv /\ TaxLever!LeverInit /\ RewardLever!LeverInit
  <1>1. IsPolicy(taxPolicy) /\ IsPolicy(rewardPolicy)
    BY PoliciesValid DEF Init
  <1> QED BY <1>1 DEF Init, LeverInv, IsPolicy, TaxLever!LeverInit, RewardLever!LeverInit

\* Every step of the treasury is a step of both levers.
LEMMA LeverStep ==
    ASSUME LeverInv, [Next]_vars
    PROVE  /\ LeverInv'
           /\ [TaxLever!LeverNext]_<<taxRate, taxPolicy>>
           /\ [RewardLever!LeverNext]_<<rewardWeight, rewardPolicy>>
  <1> USE DEF LeverInv
  <1>1. CASE UNCHANGED leverVars
    BY <1>1 DEF leverVars
  <1>2. CASE EndBlock
    <2>1. PICK tp \in TaxPolicies, rp \in RewardPolicies, prices \in RateTables,
              bonded \in BondedTokens :
              IF Panics(tp, rp, prices, bonded, supply - burnAccount) THEN Halt
              ELSE /\ taxPolicy' = tp /\ rewardPolicy' = rp
                   /\ EndBlocker(tp, rp, prices, bonded)
      BY <1>2, Zenon DEF EndBlock
    <2>2. CASE Panics(tp, rp, prices, bonded, supply - burnAccount)
      BY <1>1, <2>1, <2>2 DEF Halt
    <2>3. CASE ~Panics(tp, rp, prices, bonded, supply - burnAccount)
      <3>1. taxPolicy' = tp /\ rewardPolicy' = rp
        BY <2>1, <2>3
      <3>2. CASE UNCHANGED <<taxRate, rewardWeight>>
        BY <3>1, <3>2 DEF TaxLever!LeverNext, RewardLever!LeverNext
      <3>3. CASE /\ IsPeriodLastBlock(height, BlocksPerWeek)
                 /\ height >= BlocksPerWeek * WindowProbation
                 /\ UpdatePolicies(tp, rp, prices, bonded, supply - burnAccount)
        <4> DEFINE rate == UpdateTaxPolicy(tp, UpdateTR(prices), UpdateTSL(bonded))
                   weight == UpdateRewardPolicy(rp, UpdateTR(prices),
                                                UpdateSR(prices, supply - burnAccount))
        <4>1. taxRate' = rate /\ rewardWeight' = weight
          BY <3>3 DEF UpdatePolicies
        <4>2. rate # None /\ weight # None
          BY <2>3, <3>3 DEF Panics
        <4>3. rate \in Nat /\ TaxLever!Allowed(tp, taxRate, rate)
          BY <4>2, UpdateTaxPolicyAllowed
        <4>4. weight \in Nat /\ RewardLever!Allowed(rp, rewardWeight, weight)
          BY <4>2, UpdateRewardPolicyAllowed
        <4> HIDE DEF rate, weight
        <4> QED BY <3>1, <4>1, <4>3, <4>4 DEF TaxLever!LeverNext, RewardLever!LeverNext
      <3> QED BY <2>1, <2>3, <3>2, <3>3 DEF EndBlocker
    <2> QED BY <2>2, <2>3
  <1>3. CASE Next /\ ~EndBlock
    BY <1>1, <1>3, Zenon DEF Next, RecordEpochTaxProceeds, Swap, SendToBurnAccount, Restart
  <1>4. CASE UNCHANGED vars
    BY <1>1, <1>4, Zenon DEF vars
  <1> QED BY <1>2, <1>3, <1>4

\* The tax rate implements PolicyLever, whatever the policies are and whenever
\* governance changes them.
THEOREM TaxRateImplements == Spec => TaxLeverSpec
  <1>1. Init => LeverInv /\ TaxLever!LeverInit
    BY LeverInitially
  <1>2. LeverInv /\ [Next]_vars => LeverInv' /\ [TaxLever!LeverNext]_<<taxRate, taxPolicy>>
    BY LeverStep
  <1> QED BY <1>1, <1>2, PTL DEF Spec, TaxLeverSpec, TaxLever!LeverSpec

\* The reward weight implements PolicyLever.
THEOREM RewardWeightImplements == Spec => RewardLeverSpec
  <1>1. Init => LeverInv /\ RewardLever!LeverInit
    BY LeverInitially
  <1>2. LeverInv /\ [Next]_vars =>
          LeverInv' /\ [RewardLever!LeverNext]_<<rewardWeight, rewardPolicy>>
    BY LeverStep
  <1> QED BY <1>1, <1>2, PTL DEF Spec, RewardLeverSpec, RewardLever!LeverSpec

\* Both rates are levers at once, whatever UpdateTaxPolicy and UpdateRewardPolicy find.
THEOREM LeversImplement == Spec => PolicyLevers
  BY TaxRateImplements, RewardWeightImplements DEF PolicyLevers

-----------------------------------------------------------------------------
(* Epochs *)

\* The taxes, the seigniorage and the indicators belong to their epochs.  Nothing is
\* recorded yet for an epoch to come, and no indicator for the current one; this is
\* what makes the two properties inductive at the end of an epoch.
EpochInv ==
    /\ height \in 0..MaxHeight
    /\ taxProceeds \in Coins /\ taxLog \in [Epochs -> Coins]
    /\ supply \in Nat /\ burnAccount \in Nat /\ supply - burnAccount > 0
    /\ epochInitialIssuance \in Nat \ {0}
    /\ destroyed \in [Epochs -> Int]
    /\ \A I \in {TR, SR, TSL} : DOMAIN I = Epochs /\ I = [e \in Epochs |-> I[e]]
    /\ \A e \in Epochs : e > GetEpoch(height) => taxLog[e] = NoCoins /\ destroyed[e] = 0
    /\ \A e \in Epochs : e >= GetEpoch(height) => TR[e] = 0 /\ SR[e] = 0 /\ TSL[e] = 0
    /\ ProceedsOfEpoch
    /\ SeigniorageOfEpoch

LEMMA EpochInitially ==
    ASSUME Init
    PROVE  EpochInv
  <1>1. height \in 0..MaxHeight /\ GetEpoch(height) \in Epochs
    BY TreasuryAssumption, EpochInRange DEF Init
  <1>2. NoCoins \in Coins
    BY DEF NoCoins, Coins
  <1>3. InitSupply \in Nat \ {0}
    BY TreasuryAssumption
  <1> QED
    BY <1>1, <1>2, <1>3 DEF Init, EpochInv, ProceedsOfEpoch, SeigniorageOfEpoch

\* A sum of coins is coins.
LEMMA AddCoinsType ==
    ASSUME NEW a \in Coins, NEW b \in Coins
    PROVE  AddCoins(a, b) \in Coins
  BY DEF AddCoins, Coins

\* What the settlement leaves to the community pool is an integer.
LEMMA LeftAmountType ==
    ASSUME rewardWeight \in Nat, epochInitialIssuance \in Nat, NEW s \in Nat
    PROVE  LeftAmount(s) \in Int
  <1> DEFINE S == PeekEpochSeigniorage(s)
             product == rewardWeight * S
  <1>1. S \in Nat
    BY DEF PeekEpochSeigniorage
  <1>2. product \in Nat
    BY <1>1
  <1> HIDE DEF product
  <1>3. TruncQuo(product, Unit) = product \div Unit
    BY <1>2, UnitAssumption DEF TruncQuo
  <1>4. product \div Unit \in Nat
    BY <1>2, UnitAssumption, DivDef
  <1>5. BurnAmount(s) \in Nat
    BY <1>3, <1>4 DEF BurnAmount, TruncateInt, product
  <1> QED BY <1>1, <1>5 DEF LeftAmount

\* Taxes recorded keep the invariant.
LEMMA EpochTax ==
    ASSUME EpochInv, NEW delta \in Coins, RecordEpochTaxProceeds(delta)
    PROVE  EpochInv'
  <1> DEFINE e0 == GetEpoch(height)
  <1>1. height \in 0..MaxHeight /\ e0 \in Epochs /\ e0 \in Nat
    BY EpochInRange DEF EpochInv
  <1>2. taxProceeds' = AddCoins(taxProceeds, delta)
        /\ taxLog' = [taxLog EXCEPT ![e0] = AddCoins(@, delta)]
        /\ UNCHANGED <<height, epochInitialIssuance, TR, SR, TSL, supply, burnAccount,
                       destroyed>>
    BY DEF RecordEpochTaxProceeds, indicatorVars
  <1>3. taxProceeds' \in Coins /\ taxLog' \in [Epochs -> Coins]
    BY <1>1, <1>2, AddCoinsType DEF EpochInv
  <1>4. taxProceeds' = taxLog'[e0]
    BY <1>1, <1>2 DEF EpochInv, ProceedsOfEpoch
  <1>5. \A e \in Epochs : e > e0 => taxLog'[e] = taxLog[e]
    BY <1>1, <1>2 DEF EpochInv
  <1> QED BY <1>1, <1>2, <1>3, <1>4, <1>5 DEF EpochInv, ProceedsOfEpoch, SeigniorageOfEpoch, GetEpoch

\* A transaction keeps the invariant.
LEMMA EpochTx ==
    ASSUME EpochInv,
           \/ \E delta \in Taxes : RecordEpochTaxProceeds(delta)
           \/ \E n \in LunaMoves : Swap(n)
           \/ \E n \in Burns : SendToBurnAccount(n)
    PROVE  EpochInv'
  <1> DEFINE e0 == GetEpoch(height)
  <1>1. height \in 0..MaxHeight /\ e0 \in Epochs /\ e0 \in Nat
    BY EpochInRange DEF EpochInv
  <1>2. ASSUME NEW delta \in Taxes, RecordEpochTaxProceeds(delta)
        PROVE  EpochInv'
    BY <1>2, TreasuryAssumption, EpochTax
  <1>3. ASSUME NEW n \in Int, supply + n - burnAccount > 0, supply' = supply + n,
               destroyed' = [destroyed EXCEPT ![e0] = @ - n],
               UNCHANGED <<height, epochInitialIssuance, TR, SR, TSL, burnAccount,
                           taxProceeds, taxLog>>
        PROVE  EpochInv'
    <2>1. supply' \in Nat /\ supply' - burnAccount > 0
      BY <1>3 DEF EpochInv
    <2>2. destroyed' \in [Epochs -> Int] /\ destroyed'[e0] = destroyed[e0] - n
      BY <1>1, <1>3 DEF EpochInv
    <2>3. \A e \in Epochs : e > e0 => destroyed'[e] = destroyed[e]
      BY <1>1, <1>3 DEF EpochInv
    <2>4. destroyed[e0] \in Int
      BY <1>1 DEF EpochInv
    <2> QED BY <1>1, <1>3, <2>1, <2>2, <2>3, <2>4
            DEF EpochInv, ProceedsOfEpoch, SeigniorageOfEpoch, GetEpoch
  <1>4. ASSUME NEW n \in Nat, supply - burnAccount - n > 0, burnAccount' = burnAccount + n,
               destroyed' = [destroyed EXCEPT ![e0] = @ + n],
               UNCHANGED <<height, epochInitialIssuance, TR, SR, TSL, supply,
                           taxProceeds, taxLog>>
        PROVE  EpochInv'
    <2>1. burnAccount' \in Nat /\ supply - burnAccount' > 0
      BY <1>4 DEF EpochInv
    <2>2. destroyed' \in [Epochs -> Int] /\ destroyed'[e0] = destroyed[e0] + n
      BY <1>1, <1>4 DEF EpochInv
    <2>3. \A e \in Epochs : e > e0 => destroyed'[e] = destroyed[e]
      BY <1>1, <1>4 DEF EpochInv
    <2>4. destroyed[e0] \in Int
      BY <1>1 DEF EpochInv
    <2> QED BY <1>1, <1>4, <2>1, <2>2, <2>3, <2>4
            DEF EpochInv, ProceedsOfEpoch, SeigniorageOfEpoch, GetEpoch
  <1>5. ASSUME NEW n \in LunaMoves, Swap(n)
        PROVE  EpochInv'
    BY <1>3, <1>5, TreasuryAssumption, Zenon DEF Swap, indicatorVars
  <1>6. ASSUME NEW n \in Burns, SendToBurnAccount(n)
        PROVE  EpochInv'
    BY <1>4, <1>6, TreasuryAssumption, ZenonT(30) DEF SendToBurnAccount, indicatorVars
  <1> QED BY <1>2, <1>5, <1>6

\* The end of a block keeps the invariant: within an epoch, and from one to the next.
LEMMA EpochEndBlock ==
    ASSUME EpochInv, LeverInv, EndBlock
    PROVE  EpochInv'
  <1> DEFINE e0 == GetEpoch(height)
             s == supply - burnAccount
  <1>1. height \in 0..MaxHeight /\ e0 \in Epochs /\ e0 \in Nat /\ height \in Nat
    BY EpochInRange, TreasuryAssumption DEF EpochInv
  <1>2. s \in Nat \ {0}
    BY DEF EpochInv
  <1>3. PICK tp \in TaxPolicies, rp \in RewardPolicies, prices \in RateTables,
              bonded \in BondedTokens :
              IF Panics(tp, rp, prices, bonded, s) THEN Halt
              ELSE /\ BurnCoinsFromBurnAccount
                   /\ EndBlocker(tp, rp, prices, bonded)
                   /\ NextBlock
    BY Zenon DEF EndBlock
  <1>4. CASE Halt
    BY <1>4 DEF Halt, EpochInv, ProceedsOfEpoch, SeigniorageOfEpoch, GetEpoch, indicatorVars,
               historyVars
  <1>5. CASE /\ ~Panics(tp, rp, prices, bonded, s)
             /\ EndBlocker(tp, rp, prices, bonded)
             /\ BurnCoinsFromBurnAccount /\ NextBlock
    <2>1. /\ burnAccount' = 0 /\ height' = height + 1
          /\ taxLog' = taxLog /\ destroyed' = destroyed
      BY <1>5 DEF BurnCoinsFromBurnAccount, NextBlock, historyVars
    <2>2. height' \in 0..MaxHeight
      BY <1>1, <2>1, TreasuryAssumption DEF EndBlock
    <2>3. GetEpoch(height') \in Epochs
      BY <2>2, EpochInRange
    <2>4. CASE ~IsPeriodLastBlock(height, BlocksPerWeek)
      <3>1. GetEpoch(height') = e0
        BY <1>1, <2>1, <2>4, NextEpoch
      <3>2. supply' = s /\ UNCHANGED <<taxProceeds, epochInitialIssuance, TR, SR, TSL>>
        BY <1>5, <2>4 DEF EndBlocker, indicatorVars
      <3> HIDE DEF e0
      <3>3. ProceedsOfEpoch' /\ SeigniorageOfEpoch'
        <4>1. (GetEpoch(height))' = e0
          BY <3>1 DEF GetEpoch
        <4>2. ProceedsOfEpoch'
          BY <2>1, <3>2, <4>1 DEF EpochInv, ProceedsOfEpoch, e0
        <4>3. destroyed[e0] \in Int
          BY <1>1 DEF EpochInv
        <4>4. SeigniorageOfEpoch'
          BY <1>2, <2>1, <3>2, <4>1, <4>3 DEF EpochInv, SeigniorageOfEpoch, e0
        <4> QED BY <4>2, <4>4
      <3> QED BY <1>1, <1>2, <2>1, <2>2, <3>1, <3>2, <3>3 DEF EpochInv, GetEpoch, e0
    <2>5. CASE IsPeriodLastBlock(height, BlocksPerWeek)
      <3>1. GetEpoch(height') = e0 + 1
        BY <1>1, <2>1, <2>5, NextEpoch
      <3>2. taxProceeds' = NoCoins /\ TSL' = UpdateTSL(bonded) /\ TR' = UpdateTR(prices)
            /\ SR' = UpdateSR(prices, s)
        BY <1>5, <2>5 DEF EndBlocker, UpdateIndicators
      <3>3. supply' \in Nat \ {0} /\ epochInitialIssuance' = supply'
        <4>1. CASE height < BlocksPerWeek * WindowProbation
          <5>1. supply' = s /\ epochInitialIssuance' = s
            <6>1. ~(height >= BlocksPerWeek * WindowProbation)
              BY <1>1, <4>1, TreasuryAssumption
            <6> QED BY <1>5, <2>5, <4>1, <6>1 DEF EndBlocker
          <5> QED BY <1>2, <5>1
        <4>2. CASE height >= BlocksPerWeek * WindowProbation
          <5>1. ~(height < BlocksPerWeek * WindowProbation)
            BY <1>1, <4>2, TreasuryAssumption
          <5>2. supply' = s + LeftAmount(s) /\ epochInitialIssuance' = supply'
            BY <1>5, <2>5, <4>2, <5>1 DEF EndBlocker, UpdatePolicies
          <5>3. LeftAmount(s) \in Int /\ ~(LeftAmount(s) < 0)
            <6>1. LeftAmount(s) \in Int
              BY <1>2, LeftAmountType DEF EpochInv, LeverInv
            <6>2. ~(LeftAmount(s) < 0)
              BY <1>5, <2>5, <4>2 DEF Panics
            <6> QED BY <6>1, <6>2
          <5> HIDE DEF s
          <5> QED BY <1>2, <5>2, <5>3
        <4>3. height < BlocksPerWeek * WindowProbation
              \/ height >= BlocksPerWeek * WindowProbation
          BY <1>1, TreasuryAssumption
        <4> QED BY <4>1, <4>2, <4>3
      <3> HIDE DEF e0, s
      <3>4. (GetEpoch(height))' = e0 + 1
        BY <3>1 DEF GetEpoch
      <3>5. e0 + 1 \in Epochs /\ taxLog[e0 + 1] = NoCoins /\ destroyed[e0 + 1] = 0
        BY <1>1, <2>3, <3>1 DEF EpochInv, e0
      <3>6. ProceedsOfEpoch' /\ SeigniorageOfEpoch'
        BY <2>1, <3>2, <3>3, <3>4, <3>5 DEF ProceedsOfEpoch, SeigniorageOfEpoch
      <3>7. NoCoins \in Coins
        BY DEF NoCoins, Coins
      <3>8. \A I \in {TR', SR', TSL'} : DOMAIN I = Epochs /\ I = [e \in Epochs |-> I[e]]
        BY <3>2 DEF EpochInv, UpdateTR, UpdateSR, UpdateTSL
      <3>9. \A e \in Epochs : e >= e0 + 1 => TR'[e] = 0 /\ SR'[e] = 0 /\ TSL'[e] = 0
        <4> SUFFICES ASSUME NEW e \in Epochs, e >= e0 + 1
                     PROVE  TR'[e] = 0 /\ SR'[e] = 0 /\ TSL'[e] = 0
          OBVIOUS
        <4>1. e # e0 /\ e >= e0
          BY <1>1 DEF Epochs
        <4>2. TR[e] = 0 /\ SR[e] = 0 /\ TSL[e] = 0
          BY <4>1 DEF EpochInv, e0
        <4>3. TR'[e] = TR[e] /\ SR'[e] = SR[e] /\ TSL'[e] = TSL[e]
          BY <3>2, <4>1 DEF EpochInv, UpdateTR, UpdateSR, UpdateTSL, e0
        <4> QED BY <4>2, <4>3
      <3>10. \A e \in Epochs : e > e0 + 1 => taxLog[e] = NoCoins /\ destroyed[e] = 0
        <4> SUFFICES ASSUME NEW e \in Epochs, e > e0 + 1
                     PROVE  taxLog[e] = NoCoins /\ destroyed[e] = 0
          OBVIOUS
        <4>1. e > e0
          BY <1>1 DEF Epochs
        <4> QED BY <4>1 DEF EpochInv, e0
      <3> QED BY <2>1, <2>2, <3>2, <3>3, <3>4, <3>6, <3>7, <3>8, <3>9, <3>10 DEF EpochInv
    <2> QED BY <2>4, <2>5
  <1> QED BY <1>3, <1>4, <1>5

\* The epochs exported between two blocks are those before the next block's.
LEMMA ExportedEpochsAll ==
    ASSUME NEW h \in Nat, h > 0
    PROVE  \A e \in Epochs : e \in ExportedEpochs(h - 1) <=> e < GetEpoch(h)
  <1>1. h - 1 \in Nat /\ (h - 1) + 1 = h
    OBVIOUS
  <1>2. GetEpoch(h - 1) \in Nat
    BY <1>1, TreasuryAssumption, DivDef, ZenonT(30) DEF GetEpoch
  <1>3. /\ IsPeriodLastBlock(h - 1, BlocksPerWeek) => GetEpoch(h) = GetEpoch(h - 1) + 1
        /\ ~IsPeriodLastBlock(h - 1, BlocksPerWeek) => GetEpoch(h) = GetEpoch(h - 1)
    BY <1>1, NextEpoch
  <1>4. Epochs \subseteq Int
    BY DEF Epochs
  <1> DEFINE last == IsPeriodLastBlock(h - 1, BlocksPerWeek)
             a == GetEpoch(h - 1)
             b == GetEpoch(h)
  <1>5. ASSUME NEW e \in Epochs
        PROVE  e \in ExportedEpochs(h - 1) <=> (e < a \/ (e = a /\ last))
    BY DEF ExportedEpochs
  <1> HIDE DEF last, a, b
  <1>6. ASSUME NEW e \in Epochs
        PROVE  (e < a \/ (e = a /\ last)) <=> e < b
    <2>1. e \in Int /\ a \in Int
      BY <1>2, <1>4 DEF a
    <2>2. CASE last
      <3>1. b = a + 1
        BY <1>3, <2>2 DEF last, a, b
      <3> QED BY <2>1, <2>2, <3>1
    <2>3. CASE ~last
      <3>1. b = a
        BY <1>3, <2>3 DEF last, a, b
      <3> QED BY <2>1, <2>3, <3>1
    <2> QED BY <2>2, <2>3
  <1> QED BY <1>5, <1>6 DEF b

\* A restart changes nothing the treasury keeps.
LEMMA RestartKeeps ==
    ASSUME EpochInv, Restart
    PROVE  UNCHANGED <<epochInitialIssuance, indicatorVars>>
  <1>1. height \in Nat /\ height > 0 /\ GetEpoch(height) \in Nat
    BY TreasuryAssumption, EpochInRange DEF EpochInv, Restart
  <1> DEFINE Imported(f) == [e \in Epochs |-> IF e \in ExportedEpochs(height - 1)
                                              THEN f[e] ELSE 0]
  <1>2. TR' = Imported(TR) /\ SR' = Imported(SR) /\ TSL' = Imported(TSL)
    BY DEF Restart
  <1>3. \A e \in Epochs : e \in ExportedEpochs(height - 1) \/ e >= GetEpoch(height)
    BY <1>1, ExportedEpochsAll DEF Epochs
  <1>4. Imported(TR) = TR /\ Imported(SR) = SR /\ Imported(TSL) = TSL
    BY <1>3 DEF EpochInv
  <1>5. epochInitialIssuance' = epochInitialIssuance
    BY DEF EpochInv, Restart
  <1> QED BY <1>2, <1>4, <1>5 DEF indicatorVars

LEMMA EpochStep ==
    ASSUME EpochInv, LeverInv, [Next]_vars
    PROVE  EpochInv'
  <1>1. CASE Restart
    <2>1. UNCHANGED <<epochInitialIssuance, TR, SR, TSL, height, taxProceeds, taxLog, supply,
                      burnAccount, destroyed>>
      BY <1>1, RestartKeeps DEF Restart, indicatorVars
    <2> QED BY <2>1 DEF EpochInv, ProceedsOfEpoch, SeigniorageOfEpoch, GetEpoch
  <1>2. CASE UNCHANGED vars
    BY <1>2 DEF vars, indicatorVars, historyVars, EpochInv, ProceedsOfEpoch,
               SeigniorageOfEpoch, GetEpoch
  <1> QED BY <1>1, <1>2, EpochTx, EpochEndBlock, Zenon DEF Next

\* The taxes counted at the end of an epoch are the taxes of that epoch.
THEOREM ProceedsAreTheEpochs == Spec => []ProceedsOfEpoch
  <1>1. Init => EpochInv /\ LeverInv
    BY EpochInitially, LeverInitially
  <1>2. EpochInv /\ LeverInv /\ [Next]_vars => EpochInv' /\ LeverInv'
    BY EpochStep, LeverStep
  <1>3. EpochInv => ProceedsOfEpoch
    BY DEF EpochInv
  <1> QED BY <1>1, <1>2, <1>3, PTL DEF Spec

\* The seigniorage settled at the end of an epoch is the Luna destroyed in that epoch.
THEOREM SeigniorageIsTheEpochs == Spec => []SeigniorageOfEpoch
  <1>1. Init => EpochInv /\ LeverInv
    BY EpochInitially, LeverInitially
  <1>2. EpochInv /\ LeverInv /\ [Next]_vars => EpochInv' /\ LeverInv'
    BY EpochStep, LeverStep
  <1>3. EpochInv => SeigniorageOfEpoch
    BY DEF EpochInv
  <1> QED BY <1>1, <1>2, <1>3, PTL DEF Spec

\* A genesis exported between any two blocks, imported again, is the same treasury.
THEOREM ExportLosesNothing == Spec => GenesisRoundTrip
  <1>1. Init => EpochInv /\ LeverInv
    BY EpochInitially, LeverInitially
  <1>2. EpochInv /\ LeverInv /\ [Next]_vars => EpochInv' /\ LeverInv'
    BY EpochStep, LeverStep
  <1> DEFINE Kept == restarts' # restarts => UNCHANGED <<epochInitialIssuance, indicatorVars>>
  <1>3. EpochInv /\ [Next]_vars => [Kept]_vars
    <2> SUFFICES ASSUME EpochInv, Next, restarts' # restarts
                 PROVE  UNCHANGED <<epochInitialIssuance, indicatorVars>>
      OBVIOUS
    <2>1. CASE Restart
      BY <2>1, RestartKeeps
    <2>2. CASE EndBlock
      <3>1. restarts' = restarts
        BY <2>2 DEF EndBlock, Halt, NextBlock, historyVars
      <3> QED BY <3>1
    <2>3. CASE Next /\ ~Restart /\ ~EndBlock
      BY <2>3, Zenon DEF Next, RecordEpochTaxProceeds, Swap, SendToBurnAccount
    <2> QED BY <2>1, <2>2, <2>3
  <1> QED BY <1>1, <1>2, <1>3, PTL DEF Spec, GenesisRoundTrip

-----------------------------------------------------------------------------
(* The Luna of the settlements *)

\* What the epochs have shrunk the supply by, and the epochs that have ended.
Shrunk(lost) == [e \in Epochs |-> IF lost[e] > 0 THEN lost[e] ELSE 0]

Ended(k) == {e \in Epochs : e < k}

LunaInv == LunaAccounted /\ communityPool \in Int

LEMMA EpochsFinite ==
    /\ IsFiniteSet(Epochs) /\ Epochs \subseteq Int
    /\ \A k : IsFiniteSet(Ended(k)) /\ Ended(k) \subseteq Epochs
  <1>1. (MaxHeight + 1) \div BlocksPerWeek \in Nat
    <2>1. MaxHeight + 1 \in Nat /\ BlocksPerWeek \in Nat \ {0}
      BY TreasuryAssumption
    <2> QED BY <2>1, DivDef
  <1>2. IsFiniteSet(Epochs) /\ Epochs \subseteq Int
    BY <1>1, FS_Interval DEF Epochs
  <1>3. \A k : Ended(k) \subseteq Epochs
    BY DEF Ended
  <1>4. \A k : IsFiniteSet(Ended(k))
    BY <1>2, <1>3, FS_Subset
  <1> QED BY <1>2, <1>3, <1>4

\* The sums of LunaAccounted are integers.
LEMMA LunaSums ==
    ASSUME NEW lost \in [Epochs -> Int], NEW k
    PROVE  /\ \A e \in Epochs : lost[e] \in Int /\ Shrunk(lost)[e] \in Int
           /\ \A e \in Ended(k) : Shrunk(lost)[e] \in Int
           /\ SumFunctionOnSet(lost, Epochs) \in Int
           /\ SumFunctionOnSet(Shrunk(lost), Ended(k)) \in Int
  <1>1. \A e \in Epochs : lost[e] \in Int /\ Shrunk(lost)[e] \in Int
    BY DEF Shrunk
  <1>2. \A e \in Ended(k) : Shrunk(lost)[e] \in Int
    BY <1>1, EpochsFinite, ZenonT(30)
  <1> QED BY <1>1, <1>2, EpochsFinite, SumType, Zenon

LEMMA LunaMoreLost ==
    ASSUME NEW lost \in [Epochs -> Int], NEW e \in Epochs, NEW n \in Int
    PROVE  SumFunctionOnSet([lost EXCEPT ![e] = @ + n], Epochs)
           = SumFunctionOnSet(lost, Epochs) + n
  <1> DEFINE more == [lost EXCEPT ![e] = @ + n]
  <1>1. /\ IsFiniteSet(Epochs) /\ \A x \in Epochs : lost[x] \in Int
        /\ more[e] = lost[e] + n /\ \A x \in Epochs \ {e} : more[x] = lost[x]
    BY EpochsFinite
  <1>2. more[e] \in Int /\ more[e] - lost[e] = n
    BY <1>1
  <1> HIDE DEF more
  <1>3. SumFunctionOnSet(more, Epochs) = SumFunctionOnSet(lost, Epochs) + (more[e] - lost[e])
    BY <1>1, <1>2, SumUpdate
  <1> QED BY <1>2, <1>3 DEF more

\* Luna taken out of circulation in an epoch, or put into it, changes the sum, and what the
\* epochs before have shrunk stays.
LEMMA LunaMoved ==
    ASSUME EpochInv, LunaInv, NEW n \in Int,
           destroyed' = [destroyed EXCEPT ![GetEpoch(height)] = @ + n],
           supply' - burnAccount' = supply - burnAccount - n,
           UNCHANGED <<height, communityPool>>
    PROVE  LunaInv'
  <1> DEFINE e0 == GetEpoch(height)
             lost == destroyed'
  <1>1. e0 \in Epochs /\ destroyed \in [Epochs -> Int] /\ supply - burnAccount \in Int
    BY EpochInRange DEF EpochInv
  <1>2. /\ lost \in [Epochs -> Int] /\ lost[e0] = destroyed[e0] + n
        /\ \A e \in Epochs \ {e0} : lost[e] = destroyed[e]
    BY <1>1
  <1>3. destroyed[e0] \in Int /\ lost[e0] \in Int /\ lost[e0] - destroyed[e0] = n
    BY <1>1, <1>2
  <1> HIDE DEF lost, e0
  <1>4. SumFunctionOnSet(lost, Epochs) = SumFunctionOnSet(destroyed, Epochs) + n
    BY <1>1, LunaMoreLost, ZenonT(30) DEF lost, e0
  <1>5. SumFunctionOnSet(Shrunk(lost), Ended(e0)) = SumFunctionOnSet(Shrunk(destroyed), Ended(e0))
    <2>1. \A e \in Ended(e0) : e \in Epochs \ {e0}
      BY <1>1, EpochsFinite DEF Ended
    <2>2. \A e \in Ended(e0) : Shrunk(lost)[e] = Shrunk(destroyed)[e]
      BY <1>2, <2>1 DEF Shrunk
    <2> QED BY <1>1, <2>2, EpochsFinite, LunaSums, SumSame
  <1>6. /\ supply - burnAccount = InitSupply - SumFunctionOnSet(destroyed, Epochs) + communityPool
        /\ communityPool <= SumFunctionOnSet(Shrunk(destroyed), Ended(e0))
        /\ communityPool \in Int
    BY DEF LunaInv, LunaAccounted, Shrunk, Ended, e0
  <1>7. SumFunctionOnSet(destroyed, Epochs) \in Int /\ InitSupply \in Int
    BY <1>1, LunaSums, TreasuryAssumption
  <1>8. supply' - burnAccount' = InitSupply - SumFunctionOnSet(lost, Epochs) + communityPool
    BY <1>1, <1>4, <1>6, <1>7
  <1>9. GetEpoch(height') = e0 /\ communityPool' = communityPool
    BY DEF e0
  <1> QED BY <1>5, <1>6, <1>8, <1>9 DEF LunaInv, LunaAccounted, Shrunk, Ended, GetEpoch, lost

\* What a settlement leaves to the community pool is no more than the epoch has destroyed.
LEMMA SettlementWithin ==
    ASSUME EpochInv, LeverInv
    PROVE  LET left == LeftAmount(supply - burnAccount)
               lost == destroyed[GetEpoch(height)]
           IN  left \in Int /\ left <= (IF lost > 0 THEN lost ELSE 0)
  <1> DEFINE s == supply - burnAccount
             lost == destroyed[GetEpoch(height)]
             S == PeekEpochSeigniorage(s)
             product == rewardWeight * S
  <1>1. s \in Nat /\ epochInitialIssuance \in Nat /\ lost \in Int
    BY EpochInRange DEF EpochInv
  <1>2. epochInitialIssuance = s + lost
    BY DEF EpochInv, SeigniorageOfEpoch
  <1> HIDE DEF s, lost
  <1>3. S \in Nat /\ S = IF lost > 0 THEN lost ELSE 0
    BY <1>1, <1>2 DEF PeekEpochSeigniorage
  <1>4. product \in Nat
    BY <1>3 DEF LeverInv
  <1>5. BurnAmount(s) = TruncQuo(product, Unit)
    BY DEF BurnAmount, TruncateInt
  <1>6. LeftAmount(s) = S - BurnAmount(s)
    BY DEF LeftAmount
  <1> HIDE DEF product, S
  <1>7. BurnAmount(s) \in Nat
    <2>1. TruncQuo(product, Unit) = product \div Unit
      BY <1>4, UnitAssumption DEF TruncQuo
    <2> QED BY <1>4, <1>5, <2>1, UnitAssumption, DivDef
  <1> QED BY <1>3, <1>6, <1>7 DEF s, lost

\* The end of a block burns what was taken out of circulation already; the end of an epoch
\* settles what the epoch has destroyed.
LEMMA LunaEndBlock ==
    ASSUME EpochInv, LeverInv, LunaInv, EndBlock
    PROVE  LunaInv'
  <1> DEFINE e0 == GetEpoch(height)
             s == supply - burnAccount
             left == LeftAmount(s)
  <1>1. /\ height \in Nat /\ e0 \in Epochs /\ e0 \in Nat
        /\ destroyed \in [Epochs -> Int] /\ s \in Nat
    BY EpochInRange, TreasuryAssumption DEF EpochInv
  <1>2. /\ s = InitSupply - SumFunctionOnSet(destroyed, Epochs) + communityPool
        /\ communityPool <= SumFunctionOnSet(Shrunk(destroyed), Ended(e0))
        /\ communityPool \in Int /\ InitSupply \in Int
    BY TreasuryAssumption DEF LunaInv, LunaAccounted, Shrunk, Ended
  <1>3. /\ SumFunctionOnSet(destroyed, Epochs) \in Int
        /\ SumFunctionOnSet(Shrunk(destroyed), Ended(e0)) \in Int
    BY <1>1, LunaSums
  <1>4. CASE Halt
    BY <1>4 DEF Halt, LunaInv, LunaAccounted, GetEpoch, historyVars
  <1>5. ASSUME NEW more \in Int, supply' = s + more, communityPool' = communityPool + more,
               burnAccount' = 0, destroyed' = destroyed,
               communityPool + more <= SumFunctionOnSet(Shrunk(destroyed), Ended(GetEpoch(height')))
        PROVE  LunaInv'
    <2>1. supply' - burnAccount'
          = InitSupply - SumFunctionOnSet(destroyed, Epochs) + communityPool'
      <3> HIDE DEF s
      <3> QED BY <1>1, <1>2, <1>3, <1>5
    <2> QED BY <1>2, <1>5, <2>1 DEF LunaInv, LunaAccounted, Shrunk, Ended, GetEpoch
  <1>6. PICK tp \in TaxPolicies, rp \in RewardPolicies, prices \in RateTables,
              bonded \in BondedTokens :
              IF Panics(tp, rp, prices, bonded, s) THEN Halt
              ELSE /\ BurnCoinsFromBurnAccount
                   /\ EndBlocker(tp, rp, prices, bonded)
                   /\ NextBlock
    BY Zenon DEF EndBlock
  <1>7. CASE EndBlocker(tp, rp, prices, bonded) /\ BurnCoinsFromBurnAccount /\ NextBlock
    <2>1. burnAccount' = 0 /\ height' = height + 1 /\ destroyed' = destroyed
      BY <1>7 DEF BurnCoinsFromBurnAccount, NextBlock, historyVars
    <2>2. CASE ~IsPeriodLastBlock(height, BlocksPerWeek)
      <3>1. GetEpoch(height') = e0
        BY <1>1, <2>1, <2>2, NextEpoch
      <3>2. supply' = s /\ communityPool' = communityPool
        BY <1>7, <2>2 DEF EndBlocker
      <3>3. s = s + 0 /\ communityPool = communityPool + 0
        BY <1>1, <1>2
      <3> QED BY <1>2, <1>5, <2>1, <3>1, <3>2, <3>3
    <2>3. CASE IsPeriodLastBlock(height, BlocksPerWeek)
      <3> DEFINE before == SumFunctionOnSet(Shrunk(destroyed), Ended(e0))
                 shrunk == Shrunk(destroyed)[e0]
      <3>1. GetEpoch(height') = e0 + 1
        BY <1>1, <2>1, <2>3, NextEpoch
      <3>2. SumFunctionOnSet(Shrunk(destroyed), Ended(e0 + 1)) = shrunk + before
        <4>1. e0 \in Ended(e0 + 1) /\ Ended(e0 + 1) \ {e0} = Ended(e0)
          <5>1. \A e \in Epochs : e \in Int
            BY EpochsFinite
          <5>2. \A e \in Epochs : (e < e0 + 1 /\ e # e0) <=> e < e0
            BY <1>1, <5>1
          <5>3. e0 < e0 + 1
            BY <1>1
          <5> HIDE DEF e0
          <5> QED BY <1>1, <5>2, <5>3, ZenonT(30) DEF Ended
        <4>2. /\ IsFiniteSet(Ended(e0 + 1))
              /\ \A e \in Ended(e0 + 1) : Shrunk(destroyed)[e] \in Int
          BY <1>1, EpochsFinite, LunaSums
        <4>3. SumFunctionOnSet(Shrunk(destroyed), Ended(e0 + 1))
              = shrunk + SumFunctionOnSet(Shrunk(destroyed), Ended(e0 + 1) \ {e0})
          BY <4>1, <4>2, SumRemove
        <4> QED BY <4>1, <4>3
      <3>3. shrunk = (IF destroyed[e0] > 0 THEN destroyed[e0] ELSE 0) /\ shrunk \in Int
            /\ shrunk >= 0
        BY <1>1 DEF Shrunk
      <3>4. left \in Int /\ left <= shrunk
        BY <3>3, SettlementWithin
      <3>5. \/ supply' = s /\ communityPool' = communityPool
            \/ supply' = s + left /\ communityPool' = communityPool + left
        BY <1>7, <2>3 DEF EndBlocker, UpdatePolicies
      <3> HIDE DEF before, shrunk, left, s
      <3>6. before \in Int /\ communityPool <= before
        BY <1>2, <1>3 DEF before
      <3>7. CASE supply' = s /\ communityPool' = communityPool
        <4>1. s = s + 0 /\ communityPool = communityPool + 0
              /\ communityPool + 0 <= shrunk + before
          BY <1>1, <1>2, <3>3, <3>6
        <4> QED BY <1>5, <2>1, <3>1, <3>2, <3>7, <4>1
      <3>8. CASE supply' = s + left /\ communityPool' = communityPool + left
        <4>1. communityPool + left <= shrunk + before
          BY <1>2, <3>3, <3>4, <3>6
        <4> QED BY <1>5, <2>1, <3>1, <3>2, <3>4, <3>8, <4>1
      <3> QED BY <3>5, <3>7, <3>8
    <2> QED BY <2>2, <2>3
  <1> QED BY <1>4, <1>6, <1>7

\* Whatever is swapped, burned and settled, in whichever blocks, no Luna is lost and none is
\* invented: what settlements mint and do not burn is in the community pool, and it is no
\* more than the ended epochs have destroyed (SettleSeigniorage, BurnCoinsFromBurnAccount).
THEOREM SettlementsAccountForLuna == Spec => []LunaAccounted
  <1>1. Init => EpochInv /\ LeverInv /\ LunaInv
    <2> SUFFICES ASSUME Init PROVE EpochInv /\ LeverInv /\ LunaInv
      OBVIOUS
    <2>1. /\ supply = InitSupply /\ burnAccount = 0 /\ communityPool = 0
          /\ destroyed = [e \in Epochs |-> 0] /\ InitSupply \in Nat
      BY TreasuryAssumption DEF Init
    <2>2. \A e \in Epochs : destroyed[e] = 0 /\ Shrunk(destroyed)[e] = 0
      BY <2>1 DEF Shrunk
    <2>3. SumFunctionOnSet(destroyed, Epochs) = 0
      BY <2>2, EpochsFinite, SumZero, Zenon
    <2>4. SumFunctionOnSet(Shrunk(destroyed), Ended(GetEpoch(height))) = 0
      <3>1. \A e \in Ended(GetEpoch(height)) : Shrunk(destroyed)[e] = 0
        BY <2>2, EpochsFinite, ZenonT(30)
      <3> QED BY <3>1, EpochsFinite, SumZero
    <2>5. LunaInv
      BY <2>1, <2>3, <2>4 DEF LunaInv, LunaAccounted, Shrunk, Ended
    <2> QED BY <2>5, EpochInitially, LeverInitially
  <1>2. EpochInv /\ LeverInv /\ LunaInv /\ [Next]_vars => EpochInv' /\ LeverInv' /\ LunaInv'
    <2> SUFFICES ASSUME EpochInv, LeverInv, LunaInv, [Next]_vars
                 PROVE  LunaInv'
      BY EpochStep, LeverStep
    <2>1. supply \in Nat /\ burnAccount \in Nat /\ destroyed[GetEpoch(height)] \in Int
      BY EpochInRange DEF EpochInv
    <2>2. ASSUME NEW n \in LunaMoves, Swap(n)
          PROVE  LunaInv'
      <3>1. n \in Int
        BY TreasuryAssumption
      <3>2. /\ supply' = supply + n /\ UNCHANGED <<height, communityPool, burnAccount>>
            /\ destroyed' = [destroyed EXCEPT ![GetEpoch(height)] = @ - n]
        BY <2>2 DEF Swap
      <3>3. destroyed[GetEpoch(height)] - n = destroyed[GetEpoch(height)] + (-n)
        BY <2>1, <3>1
      <3>4. destroyed' = [destroyed EXCEPT ![GetEpoch(height)] = @ + (-n)]
        BY <3>2, <3>3, Zenon
      <3>5. -n \in Int /\ supply' - burnAccount' = supply - burnAccount - (-n)
        BY <2>1, <3>1, <3>2
      <3> QED BY <3>2, <3>4, <3>5, LunaMoved, Zenon
    <2>3. ASSUME NEW n \in Burns, SendToBurnAccount(n)
          PROVE  LunaInv'
      <3>1. n \in Int
        BY TreasuryAssumption
      <3>2. /\ burnAccount' = burnAccount + n /\ UNCHANGED <<height, communityPool, supply>>
            /\ destroyed' = [destroyed EXCEPT ![GetEpoch(height)] = @ + n]
        BY <2>3 DEF SendToBurnAccount
      <3>3. supply' - burnAccount' = supply - burnAccount - n
        BY <2>1, <3>1, <3>2
      <3> QED BY <3>1, <3>2, <3>3, LunaMoved, ZenonT(30)
    <2>4. CASE UNCHANGED <<height, supply, burnAccount, communityPool, destroyed>>
      BY <2>4 DEF LunaInv, LunaAccounted, GetEpoch
    <2>5. CASE Restart \/ (\E delta \in Taxes : RecordEpochTaxProceeds(delta)) \/ UNCHANGED vars
      BY <2>4, <2>5, Zenon DEF Restart, RecordEpochTaxProceeds, vars, historyVars
    <2> QED BY <2>2, <2>3, <2>5, LunaEndBlock, Zenon DEF Next
  <1>3. LunaInv => LunaAccounted
    BY DEF LunaInv
  <1> QED BY <1>1, <1>2, <1>3, PTL DEF Spec
-----------------------------------------------------------------------------
(* The end of a block does not panic *)

\* A conversion at prices of the oracle yields an amount or nothing.
LEMMA InternalSwapType ==
    ASSUME NEW prices \in RateTables, NEW amount \in Nat, NEW offer \in Denoms, NEW ask \in Denoms
    PROVE  InternalSwap(prices, amount, offer, ask) \in Nat \cup {None}
  <1> DEFINE o == LunaRate(prices, offer)
             a == LunaRate(prices, ask)
  <1>1. prices \in PriceTable
    BY TreasuryAssumption
  <1>2. \A d \in Denoms : LunaRate(prices, d) \in (Nat \ {0}) \cup {None}
    BY <1>1, UnitAssumption DEF LunaRate, PriceTable, Denoms, OneDec
  <1>3. o \in (Nat \ {0}) \cup {None} /\ a \in (Nat \ {0}) \cup {None}
    BY <1>2, Zenon
  <1>4. CASE offer = ask \/ None \in {o, a}
    BY <1>4 DEF InternalSwap
  <1>5. CASE offer # ask /\ None \notin {o, a}
    <2> DEFINE m == Mul(amount, a)
    <2>1. o \in Nat \ {0} /\ a \in Nat
      BY <1>3, <1>5
    <2> HIDE DEF o, a
    <2>2. m \in Nat
      BY <2>1, DecTypes
    <2> HIDE DEF m
    <2>3. Quo(m, o) \in Nat
      BY <2>1, <2>2, DecTypes
    <2> QED BY <1>5, <2>3 DEF InternalSwap, o, a, m
  <1> QED BY <1>4, <1>5

\* The indicators are natural numbers: those recorded, and those of the current epoch.
LEMMA AlignCoinsType ==
    ASSUME NEW prices \in RateTables, NEW coins \in Coins
    PROVE  AlignCoins(prices, coins) \in Nat
  <1> DEFINE aligned == [d \in Terra |-> InternalSwap(prices, NewDec(coins[d]), d, SDR)]
             D == {d \in Terra : coins[d] > 0 /\ aligned[d] # None}
  <1>1. IsFiniteSet(D)
    BY TreasuryAssumption, FS_Subset, Zenon
  <1>2. \A d \in D : aligned[d] \in Nat
    <2> TAKE d \in D
    <2>1. NewDec(coins[d]) \in Nat
      BY DecTypes DEF Coins
    <2>2. d \in Denoms /\ SDR \in Denoms
      BY PricesAssumption DEF Denoms
    <2>3. InternalSwap(prices, NewDec(coins[d]), d, SDR) \in Nat \cup {None}
      BY <2>1, <2>2, InternalSwapType
    <2> QED BY <2>3
  <1>3. AlignCoins(prices, coins) = SumFunctionOnSet(aligned, D)
    BY DEF AlignCoins
  <1> HIDE DEF aligned, D
  <1> QED BY <1>1, <1>2, <1>3, SumNat

LEMMA AlignLunaType ==
    ASSUME NEW prices \in RateTables, NEW amount \in Nat
    PROVE  AlignLuna(prices, amount) \in Nat
  <1>1. Luna \in Denoms /\ SDR \in Denoms
    BY PricesAssumption DEF Denoms
  <1>2. InternalSwap(prices, amount, Luna, SDR) \in Nat \cup {None}
    BY <1>1, InternalSwapType
  <1> QED BY <1>2 DEF AlignLuna

IndicatorInv ==
    /\ TR \in [Epochs -> Nat] /\ SR \in [Epochs -> Nat] /\ TSL \in [Epochs -> Nat]
    /\ taxRate <= Unit /\ rewardWeight <= Unit

LEMMA UpdateTypes ==
    ASSUME EpochInv, LeverInv, IndicatorInv, NEW prices \in RateTables, NEW bonded \in BondedTokens
    PROVE  /\ UpdateTR(prices) \in [Epochs -> Nat]
           /\ UpdateSR(prices, supply - burnAccount) \in [Epochs -> Nat]
           /\ UpdateTSL(bonded) \in [Epochs -> Nat]
  <1> DEFINE s == supply - burnAccount
             S == PeekEpochSeigniorage(s)
  <1>1. AlignCoins(prices, taxProceeds) \in Nat
    BY AlignCoinsType DEF EpochInv
  <1>2. S \in Nat /\ rewardWeight \in Nat
    BY DEF EpochInv, LeverInv, PeekEpochSeigniorage
  <1> HIDE DEF S
  <1>3. rewardWeight * S \in Nat
    BY <1>2, Z3
  <1>4. AlignLuna(prices, rewardWeight * S) \in Nat
    BY <1>3, AlignLunaType
  <1>5. bonded \in Nat
    BY TreasuryAssumption
  <1> QED BY <1>1, <1>4, <1>5, ZenonT(30) DEF UpdateTR, UpdateSR, UpdateTSL, IndicatorInv, S

\* Governance keeps both rates within one.  validateTaxPolicy and validateRewardPolicy
\* (params.go:136-180) do not see to it.
RatesWithinOne == \A pc \in TaxPolicies \cup RewardPolicies : pc.RateMax <= Unit

LEMMA IndicatorStep ==
    ASSUME RatesWithinOne, EpochInv, LeverInv, IndicatorInv, [Next]_vars
    PROVE  IndicatorInv'
  <1>1. CASE UNCHANGED <<TR, SR, TSL, taxRate, rewardWeight>>
    BY <1>1 DEF IndicatorInv
  <1>2. CASE EndBlock
    <2>1. PICK tp \in TaxPolicies, rp \in RewardPolicies, prices \in RateTables,
              bonded \in BondedTokens :
              IF Panics(tp, rp, prices, bonded, supply - burnAccount) THEN Halt
              ELSE EndBlocker(tp, rp, prices, bonded)
      BY <1>2, Zenon DEF EndBlock
    <2>2. CASE UNCHANGED <<TR, SR, TSL, taxRate, rewardWeight>>
      BY <1>1, <2>2
    <2> DEFINE rate == UpdateTaxPolicy(tp, UpdateTR(prices), UpdateTSL(bonded))
               weight == UpdateRewardPolicy(rp, UpdateTR(prices),
                                            UpdateSR(prices, supply - burnAccount))
    <2>3. CASE /\ UpdateIndicators(prices, bonded, supply - burnAccount)
               /\ UNCHANGED <<taxRate, rewardWeight>>
      BY <2>3, UpdateTypes DEF UpdateIndicators, IndicatorInv
    <2>4. CASE /\ UpdateIndicators(prices, bonded, supply - burnAccount)
               /\ UpdatePolicies(tp, rp, prices, bonded, supply - burnAccount)
               /\ rate # None /\ weight # None
      <3>1. TR' \in [Epochs -> Nat] /\ SR' \in [Epochs -> Nat] /\ TSL' \in [Epochs -> Nat]
        BY <2>4, UpdateTypes DEF UpdateIndicators
      <3>2. taxRate' = rate /\ rewardWeight' = weight
        BY <2>4 DEF UpdatePolicies
      <3>3. rate \in Nat /\ rate <= tp.RateMax
        BY <2>4, UpdateTaxPolicyAllowed DEF LeverInv, TaxLever!Allowed
      <3>4. weight \in Nat /\ weight <= rp.RateMax
        BY <2>4, UpdateRewardPolicyAllowed DEF LeverInv, RewardLever!Allowed
      <3>5. tp.RateMax \in Nat /\ tp.RateMax <= Unit /\ rp.RateMax \in Nat /\ rp.RateMax <= Unit
        BY PoliciesValid DEF RatesWithinOne, IsPolicy
      <3> HIDE DEF rate, weight
      <3> QED BY <3>1, <3>2, <3>3, <3>4, <3>5, UnitAssumption DEF IndicatorInv
    <2>5. CASE Panics(tp, rp, prices, bonded, supply - burnAccount)
      BY <2>1, <2>2, <2>5 DEF Halt, indicatorVars, leverVars
    <2>6. CASE ~Panics(tp, rp, prices, bonded, supply - burnAccount)
      <3>1. IsPeriodLastBlock(height, BlocksPerWeek) /\ height >= BlocksPerWeek * WindowProbation
              => rate # None /\ weight # None
        BY <2>6, Zenon DEF Panics
      <3> QED BY <2>1, <2>2, <2>3, <2>4, <2>6, <3>1, Zenon DEF EndBlocker, indicatorVars
    <2> QED BY <2>5, <2>6
  <1>3. CASE Restart
    BY <1>1, <1>3, RestartKeeps DEF Restart, leverVars, indicatorVars
  <1>4. CASE Next /\ ~EndBlock /\ ~Restart
    BY <1>1, <1>4, Zenon DEF Next, RecordEpochTaxProceeds, Swap, SendToBurnAccount, leverVars,
                             indicatorVars
  <1>5. CASE UNCHANGED vars
    BY <1>1, <1>5 DEF vars, leverVars, indicatorVars
  <1> QED BY <1>2, <1>3, <1>4, <1>5

\* A quotient is no larger than the number it divides, a product with a rate within one
\* no larger than the other factor.
LEMMA QuoBelow ==
    ASSUME NEW x \in Nat, NEW p \in Nat \ {0}
    PROVE  Quo(x, p) \in Nat /\ x * Unit \in Nat /\ Quo(x, p) <= x * Unit
  <1> DEFINE y == x * Unit
             a == y * Unit
             w == a \div p
  <1>1. Unit \in Nat \ {0}
    BY UnitAssumption
  <1>2. y \in Nat
    BY <1>1, Z3
  <1> HIDE DEF y
  <1>3. a \in Nat
    BY <1>1, <1>2, Z3
  <1>4. Quo(x, p) = ChopRound(TruncQuo(a, p))
    BY DEF Quo, y
  <1>5. ChopRound(a) = y
    BY <1>2, ChopExact
  <1> HIDE DEF a
  <1>6. TruncQuo(a, p) = w /\ w \in Nat
    BY <1>3, TruncQuoType
  <1>7. w <= a
    <2>1. a < (a + 1) * p
      BY <1>3, Z3
    <2>2. a + 1 \in Int
      BY <1>3
    <2>3. w < a + 1
      BY <1>3, <2>1, <2>2, DivBelow
    <2> HIDE DEF w
    <2> QED BY <1>3, <1>6, <2>3
  <1> HIDE DEF w
  <1>8. ChopRound(w) \in Nat /\ ChopRound(w) <= ChopRound(a)
    BY <1>3, <1>6, <1>7, ChopMonotone, ChopNear
  <1> QED BY <1>2, <1>4, <1>5, <1>6, <1>8 DEF y

LEMMA MulBelow ==
    ASSUME NEW x \in Nat, NEW y \in Nat, NEW z \in Nat, x <= y
    PROVE  /\ Mul(x, z) \in Nat /\ Mul(y, z) \in Nat /\ Mul(x, z) <= Mul(y, z)
           /\ Mul(Unit, z) = z
  <1> DEFINE a == x * z
             b == y * z
  <1>1. a \in Nat /\ b \in Nat
    BY Z3
  <1>2. a <= b
    BY TimesMonotone
  <1> HIDE DEF a, b
  <1>3. ChopRound(a) \in Nat /\ ChopRound(b) \in Nat /\ ChopRound(a) <= ChopRound(b)
    BY <1>1, <1>2, ChopMonotone, ChopNear
  <1>4. Mul(Unit, z) = ChopRound(z * Unit)
    <2>1. Unit * z = z * Unit
      BY UnitAssumption, Z3
    <2> QED BY <2>1 DEF Mul
  <1> QED BY <1>3, <1>4, ChopExact DEF Mul, a, b

\* A burden does not round to zero when it is more than a half of the smallest decimal.
LEMMA BurdenShows ==
    ASSUME NEW s \in Nat \ {0}, NEW total \in Nat \ {0}, 2 * total <= s * (Unit + 2)
    PROVE  Quo(s, total) \in Nat \ {0}
  <1>1. PICK h \in Nat \ {0} : Unit = 2 * h
    <2> DEFINE h == Unit \div 2
    <2>1. Unit \in Nat \ {0} /\ Unit % 2 = 0
      BY UnitAssumption
    <2>2. h \in Nat /\ Unit = 2 * h
      BY <2>1
    <2> HIDE DEF h
    <2> QED BY <2>1, <2>2
  <1> DEFINE a == s * Unit * Unit
             w == a \div total
             n == ChopRound(w)
  <1>2. a \in Nat
    BY UnitAssumption, Z3
  <1>3. (h + 1) * total <= a
    <2> DEFINE k == h + 1
    <2>1. k \in Nat /\ k <= 2 * h
      OBVIOUS
    <2>2. total <= s * k
      <3>1. s * (Unit + 2) = 2 * (s * k) /\ s * k \in Nat
        BY <1>1, Z3
      <3> DEFINE z == s * k
      <3> HIDE DEF z
      <3>2. z \in Nat /\ 2 * total <= 2 * z
        BY <3>1 DEF z
      <3>3. total <= z
        BY <3>2
      <3> QED BY <3>3 DEF z
    <2> HIDE DEF k
    <2>3. s * k \in Nat /\ s * (2 * h) \in Nat
      BY <2>1, Z3
    <2>4. total * k <= (s * k) * k
      BY <2>1, <2>2, <2>3, TimesMonotone
    <2>5. (s * k) * k <= (s * (2 * h)) * (2 * h)
      <3>1. k * s <= (2 * h) * s
        BY <2>1, TimesMonotone
      <3>2. k * s = s * k /\ (2 * h) * s = s * (2 * h)
        BY <2>1, Z3
      <3>3. s * k <= s * (2 * h)
        BY <3>1, <3>2
      <3>4. (s * k) * k <= (s * (2 * h)) * k
        BY <2>1, <2>3, <3>3, TimesMonotone
      <3> DEFINE y == s * (2 * h)
      <3>5. y \in Nat /\ 2 * h \in Nat
        BY <2>3
      <3> HIDE DEF y
      <3>6. y * k <= y * (2 * h)
        <4>1. k * y <= (2 * h) * y
          BY <2>1, <3>5, TimesMonotone
        <4>2. k * y = y * k /\ (2 * h) * y = y * (2 * h)
          BY <2>1, <3>5, Z3
        <4> QED BY <4>1, <4>2
      <3>7. (s * k) * k \in Int /\ y * k \in Int /\ y * (2 * h) \in Int
        BY <2>1, <2>3, <3>5, Z3
      <3> DEFINE A == (s * k) * k
                 B == y * k
                 C == y * (2 * h)
      <3>8. A \in Int /\ B \in Int /\ C \in Int /\ A <= B /\ B <= C
        BY <3>4, <3>6, <3>7 DEF y
      <3> HIDE DEF A, B, C
      <3>9. A <= C
        BY <3>8
      <3> QED BY <3>9 DEF A, C, y
    <2>6. (s * (2 * h)) * (2 * h) = a
      BY <1>1
    <2>7. total * k = k * total /\ total * k \in Int /\ (s * k) * k \in Int
      BY <2>1, <2>3, Z3
    <2> DEFINE A == total * k
               B == (s * k) * k
    <2>8. A \in Int /\ B \in Int /\ A <= B /\ B <= a
      BY <2>4, <2>5, <2>6, <2>7
    <2> HIDE DEF A, B, a
    <2>9. A <= a
      BY <1>2, <2>8
    <2> QED BY <2>7, <2>9 DEF A, k
  <1>4. Quo(s, total) = ChopRound(TruncQuo(a, total))
    BY DEF Quo
  <1> HIDE DEF a
  <1>5. TruncQuo(a, total) = w /\ w \in Nat
    BY <1>2, TruncQuoType, Zenon
  <1>6. w >= h + 1
    <2>1. h + 1 \in Int /\ (h + 1) * total \in Int
      BY Z3
    <2>2. w < h + 1 <=> a < (h + 1) * total
      BY <1>2, <2>1, DivBelow, ZenonT(30)
    <2> DEFINE b == (h + 1) * total
    <2>3. ~(a < b)
      <3>1. b \in Int /\ b <= a
        BY <1>3, <2>1
      <3> HIDE DEF b
      <3> QED BY <1>2, <3>1
    <2>4. ~(w < h + 1)
      BY <2>2, <2>3
    <2> HIDE DEF w
    <2> QED BY <1>5, <2>4
  <1> HIDE DEF w
  <1>7. n \in Nat /\ n * Unit \in Nat /\ 2 * w <= 2 * (n * Unit) + Unit
    BY <1>5, ChopNear
  <1>8. n # 0
    <2> SUFFICES ASSUME n = 0 PROVE FALSE
      OBVIOUS
    <2>1. n * Unit = 0
      BY UnitAssumption
    <2> HIDE DEF n
    <2>2. 2 * w <= 2 * h
      BY <1>1, <1>7, <2>1
    <2> QED BY <1>5, <1>6, <2>2
  <1> QED BY <1>4, <1>5, <1>7, <1>8

\* A window has no more epochs than its length.
LEMMA WindowSize ==
    ASSUME height \in Nat, NEW n \in Nat
    PROVE  /\ IsFiniteSet(Window(n)) /\ Window(n) \subseteq Epochs
           /\ Cardinality(Window(n)) \in 0..n
           /\ Window(n) # {} => Cardinality(Window(n)) # 0
  <1> DEFINE g == GetEpoch(height)
             I == (g - n + 1)..g
             W == Window(n)
  <1>1. g \in Nat
    BY TreasuryAssumption, DivDef, Zenon DEF GetEpoch
  <1> HIDE DEF g
  <1>2. W \subseteq Epochs /\ W \subseteq I
    <2>1. \A e \in W : e \in Epochs /\ e <= g /\ e > g - n
      BY DEF Window, g
    <2>2. \A e \in W : e \in Int
      BY <2>1, EpochsFinite, ZenonT(30)
    <2> QED BY <1>1, <2>1, <2>2
  <1>3. IsFiniteSet(I) /\ Cardinality(I) = n
    <2>1. g - n + 1 \in Int /\ g \in Int
      BY <1>1
    <2>2. Cardinality(I) = IF g - n + 1 > g THEN 0 ELSE g - (g - n + 1) + 1
      BY <2>1, FS_Interval, Zenon
    <2> QED BY <1>1, <2>1, <2>2, FS_Interval
  <1> HIDE DEF I, W
  <1>4. IsFiniteSet(W) /\ Cardinality(W) <= n /\ Cardinality(W) \in Nat
    BY <1>2, <1>3, FS_Subset, FS_CardinalityType
  <1>5. W # {} => Cardinality(W) # 0
    BY <1>4, FS_EmptySet
  <1> QED BY <1>2, <1>4, <1>5 DEF W

\* An average is no larger than a bound of what is averaged.
LEMMA AverageWithin ==
    ASSUME height \in Nat, NEW n \in Nat, NEW high \in Nat, NEW indicator,
           \A e \in Epochs : indicator[e] \in Nat /\ indicator[e] <= high
    PROVE  LET average == RollingAverageIndicator(indicator, n)
           IN  average \in Nat /\ average <= high
  <1> DEFINE W == Window(n)
             c == Cardinality(W)
             sum == SumFunctionOnSet(indicator, W)
             all == [e \in W |-> high]
  <1>1. CASE W = {}
    BY <1>1 DEF RollingAverageIndicator
  <1>2. CASE W # {}
    <2>1. IsFiniteSet(W) /\ W \subseteq Epochs /\ c \in Nat \ {0}
      BY <1>2, WindowSize
    <2>2. RollingAverageIndicator(indicator, n) = TruncQuo(sum, c)
      BY <1>2 DEF RollingAverageIndicator, SumIndicator, QuoInt
    <2>3. \A e \in W : all[e] = 0 * indicator[e] + high /\ all[e] = high
      <3>1. \A e \in W : indicator[e] \in Nat
        BY <2>1
      <3> QED BY <3>1
    <2> HIDE DEF W, all
    <2>4. sum \in Nat
      BY <2>1, SumNat
    <2>5. \A e \in W : indicator[e] \in Int /\ all[e] \in Int /\ indicator[e] <= all[e]
      BY <2>1, <2>3
    <2>6. sum <= SumFunctionOnSet(all, W)
      BY <2>1, <2>5, SumMonotone
    <2>7. SumFunctionOnSet(all, W) = 0 * sum + high * c
      <3>1. \A e \in W : indicator[e] \in Int
        BY <2>5
      <3>2. \A e \in W : all[e] = 0 * indicator[e] + high
        BY <2>3
      <3>3. 0 \in Int /\ high \in Int
        OBVIOUS
      <3> QED BY <2>1, <3>1, <3>2, <3>3, SumLinear, Zenon
    <2> HIDE DEF c, sum
    <2>8. sum < (high + 1) * c
      <3>1. 0 * sum + high * c = high * c /\ high * c \in Nat /\ (high + 1) * c = high * c + c
        BY <2>1, <2>4, Z3
      <3> DEFINE z == high * c
      <3>2. z \in Nat /\ sum <= z /\ (high + 1) * c = z + c
        BY <2>6, <2>7, <3>1
      <3> HIDE DEF z
      <3> QED BY <2>1, <2>4, <3>2
    <2>9. sum \div c < high + 1
      <3>1. high + 1 \in Int
        OBVIOUS
      <3> QED BY <2>1, <2>4, <2>8, <3>1, DivBelow
    <2>10. TruncQuo(sum, c) = sum \div c /\ TruncQuo(sum, c) \in Nat
      BY <2>1, <2>4, TruncQuoType
    <2> DEFINE q == TruncQuo(sum, c)
    <2>11. q \in Nat /\ q < high + 1
      BY <2>9, <2>10
    <2> HIDE DEF q
    <2>12. q <= high
      BY <2>11
    <2> QED BY <2>2, <2>11, <2>12 DEF q
  <1> QED BY <1>1, <1>2

\* The tax rate can be computed while the taxes of an epoch stay below a bound.
LEMMA TaxPolicyComputes ==
    ASSUME EpochInv, LeverInv, IndicatorInv, NEW pc \in TaxPolicies,
           NEW tr \in [Epochs -> Nat], NEW tsl \in [Epochs -> Nat], NEW high \in Nat,
           \A e \in Epochs : tr[e] <= high, Mul(high, MiningIncrement) * Unit <= MaxDec
    PROVE  UpdateTaxPolicy(pc, tr, tsl) # None
  <1> DEFINE trl == [e \in Epochs |-> TRL(tr, tsl, e)]
             tlYear == RollingAverageIndicator(trl, WindowLong)
             tlMonth == RollingAverageIndicator(trl, WindowShort)
             M == Mul(tlYear, MiningIncrement)
             new == Quo(Mul(taxRate, M), tlMonth)
  <1>1. \A e \in Epochs : trl[e] \in Nat /\ trl[e] <= high
    <2> TAKE e \in Epochs
    <2>1. CASE tr[e] = 0 \/ tsl[e] = 0
      BY <2>1 DEF TRL
    <2>2. CASE tr[e] # 0 /\ tsl[e] # 0
      <3> DEFINE a == tr[e]
                 p == tsl[e]
      <3>1. a \in Nat /\ p \in Nat \ {0} /\ a <= high
        BY <2>2
      <3>2. trl[e] = TruncQuo(a, p)
        BY <2>2 DEF TRL, QuoInt
      <3> HIDE DEF a, p
      <3>3. TruncQuo(a, p) = a \div p /\ a \div p \in Nat
        BY <3>1, TruncQuoType, ZenonT(30)
      <3>4. a \div p < a + 1
        <4>1. a < (a + 1) * p
          BY <3>1, Z3
        <4>2. a + 1 \in Int
          BY <3>1
        <4> QED BY <3>1, <4>1, <4>2, DivBelow
      <3> DEFINE q == a \div p
      <3> HIDE DEF q
      <3>5. q \in Nat /\ q < a + 1
        BY <3>3, <3>4 DEF q
      <3>6. q <= high
        BY <3>1, <3>5
      <3> QED BY <3>2, <3>3, <3>5, <3>6 DEF q
    <2> QED BY <2>1, <2>2
  <1>2. height \in Nat /\ WindowLong \in Nat /\ WindowShort \in Nat /\ MiningIncrement \in Nat
    BY TreasuryAssumption DEF EpochInv
  <1> HIDE DEF trl
  <1>3. tlYear \in Nat /\ tlYear <= high /\ tlMonth \in Nat
    BY <1>1, <1>2, AverageWithin
  <1>4. IsPolicy(pc) /\ pc.RateMax \in Int /\ taxRate \in Nat /\ taxRate <= Unit
    BY PoliciesValid DEF IsPolicy, LeverInv, IndicatorInv
  <1>5. UpdateTaxPolicy(pc, tr, tsl) = IF tlMonth = 0 THEN Clamp(pc, taxRate, pc.RateMax)
                                       ELSE ClampComputed(pc, taxRate, new)
    BY DEF UpdateTaxPolicy, trl
  <1>6. None \notin Int
    BY PricesAssumption
  <1>7. CASE tlMonth = 0
    <2>1. Clamp(pc, taxRate, pc.RateMax) \in Nat
      BY <1>4, ClampAllowed, Zenon
    <2> QED BY <1>5, <1>6, <1>7, <2>1
  <1>8. CASE tlMonth # 0
    <2> HIDE DEF tlYear, tlMonth
    <2> DEFINE H == Mul(high, MiningIncrement)
               R == Mul(taxRate, M)
    <2>1. M \in Nat /\ H \in Nat /\ M <= H
      BY <1>2, <1>3, MulBelow, Zenon
    <2> HIDE DEF M
    <2>2. R \in Nat /\ R <= M
      <3>1. Unit \in Nat
        BY UnitAssumption
      <3>2. R \in Nat /\ Mul(Unit, M) = M /\ R <= Mul(Unit, M)
        BY <1>4, <2>1, <3>1, MulBelow, ZenonT(30)
      <3> QED BY <3>2
    <2> HIDE DEF R
    <2>3. Quo(R, tlMonth) \in Nat /\ R * Unit \in Nat /\ Quo(R, tlMonth) <= R * Unit
      BY <1>3, <1>8, <2>2, QuoBelow
    <2>4. R * Unit <= H * Unit /\ H * Unit \in Int
      <3> HIDE DEF H
      <3>1. R \in Int /\ H \in Int /\ R <= H /\ Unit \in Nat
        BY <2>1, <2>2, UnitAssumption
      <3> QED BY <3>1, TimesMonotone
    <2> DEFINE x == Quo(R, tlMonth)
               y == R * Unit
               z == H * Unit
    <2>5. x \in Nat /\ y \in Nat /\ z \in Int /\ x <= y /\ y <= z /\ z <= MaxDec
      BY <2>3, <2>4
    <2> HIDE DEF x, y, z
    <2>6. x \in (-MaxDec)..MaxDec
      BY <2>5, TreasuryAssumption
    <2>7. new = x
      BY DEF x, R
    <2> HIDE DEF new
    <2>8. ClampComputed(pc, taxRate, new) = Clamp(pc, taxRate, x)
      BY <2>6, <2>7 DEF ClampComputed
    <2>9. Clamp(pc, taxRate, x) \in Nat
      <3>1. x \in Int
        BY <2>5
      <3> QED BY <1>4, <3>1, ClampAllowed, ZenonT(30)
    <2>10. Clamp(pc, taxRate, x) # None
      BY <1>6, <2>9
    <2> QED BY <1>5, <1>8, <2>8, <2>10, Zenon
  <1> QED BY <1>7, <1>8

\* The reward weight can be computed while seigniorage, where there is any, is not out of
\* all proportion to the taxes.
LEMMA RewardPolicyComputes ==
    ASSUME EpochInv, LeverInv, IndicatorInv, NEW pc \in RewardPolicies,
           NEW tr \in [Epochs -> Nat], NEW sr \in [Epochs -> Nat],
           NEW low \in Nat \ {0}, NEW high \in Nat,
           \A e \in Epochs : tr[e] <= high /\ (sr[e] = 0 \/ sr[e] >= low),
           2 * (WindowShort * high) <= low * Unit, SeigniorageBurdenTarget * Unit <= MaxDec
    PROVE  UpdateRewardPolicy(pc, tr, sr) # None
  <1> DEFINE mr == [e \in Epochs |-> tr[e] + sr[e]]
             W == Window(WindowShort)
             c == Cardinality(W)
             S == SumFunctionOnSet(sr, W)
             T == SumFunctionOnSet(mr, W)
             sb == Quo(S, T)
             new == Mul(rewardWeight, Quo(SeigniorageBurdenTarget, sb))
             more == [e \in W |-> 1 * sr[e] + high]
  <1>1. /\ height \in Nat /\ WindowShort \in Nat /\ SeigniorageBurdenTarget \in Nat
        /\ Unit \in Nat \ {0} /\ None \notin Int
    BY TreasuryAssumption, UnitAssumption, PricesAssumption DEF EpochInv
  <1>2. IsPolicy(pc) /\ pc.RateMax \in Int /\ rewardWeight \in Nat /\ rewardWeight <= Unit
    BY PoliciesValid DEF IsPolicy, LeverInv, IndicatorInv
  <1>3. UpdateRewardPolicy(pc, tr, sr) =
            IF T = 0 \/ S = 0 THEN Clamp(pc, rewardWeight, pc.RateMax)
            ELSE IF sb = 0 THEN None
            ELSE ClampComputed(pc, rewardWeight, new)
    BY DEF UpdateRewardPolicy, SumIndicator
  <1>4. IsFiniteSet(W) /\ W \subseteq Epochs /\ c \in Nat /\ c <= WindowShort
    <2>1. IsFiniteSet(W) /\ W \subseteq Epochs /\ c \in 0..WindowShort
      BY <1>1, WindowSize
    <2> QED BY <1>1, <2>1
  <1>5. \A e \in W : /\ sr[e] \in Nat /\ sr[e] \in Int /\ mr[e] \in Nat /\ mr[e] \in Int
                     /\ more[e] = 1 * sr[e] + high /\ more[e] \in Int /\ mr[e] <= more[e]
                     /\ (sr[e] = 0 \/ sr[e] >= low)
    <2> TAKE e \in W
    <2>1. e \in Epochs
      BY <1>4
    <2>2. tr[e] \in Nat /\ sr[e] \in Nat /\ tr[e] <= high /\ (sr[e] = 0 \/ sr[e] >= low)
      BY <2>1
    <2>3. mr[e] = tr[e] + sr[e] /\ more[e] = 1 * sr[e] + high
      BY <2>1
    <2> HIDE DEF mr, more
    <2> QED BY <2>2, <2>3
  <1>6. CASE T = 0 \/ S = 0
    <2>1. Clamp(pc, rewardWeight, pc.RateMax) \in Nat
      BY <1>2, ClampAllowed, ZenonT(30)
    <2> HIDE DEF T, S
    <2> QED BY <1>1, <1>3, <1>6, <2>1
  <1>7. CASE T # 0 /\ S # 0
    <2> HIDE DEF mr, more, W
    <2>1. S \in Nat \ {0} /\ T \in Nat \ {0}
      <3>1. S \in Nat /\ T \in Nat
        BY <1>4, <1>5, SumNat
      <3> HIDE DEF S, T
      <3> QED BY <1>7, <3>1
    <2>2. S >= low
      <3>1. PICK e \in W : sr[e] # 0
        <4> SUFFICES ASSUME \A e \in W : sr[e] = 0 PROVE FALSE
          OBVIOUS
        <4>1. S = 0
          BY <1>4, SumZero
        <4> QED BY <1>7, <4>1
      <3>2. sr[e] >= low /\ sr[e] \in Nat
        BY <1>5, <3>1
      <3> DEFINE rest == SumFunctionOnSet(sr, W \ {e})
      <3>3. S = sr[e] + rest
        BY <1>4, <1>5, SumRemove
      <3>4. rest \in Nat
        <4>1. IsFiniteSet(W \ {e}) /\ \A x \in W \ {e} : sr[x] \in Nat
          BY <1>4, <1>5, FS_RemoveElement
        <4> QED BY <4>1, SumNat
      <3> HIDE DEF rest, S
      <3> QED BY <3>2, <3>3, <3>4
    <2>3. T <= SumFunctionOnSet(more, W)
      BY <1>4, <1>5, SumMonotone
    <2>4. SumFunctionOnSet(more, W) = 1 * S + high * c
      <3>1. \A e \in W : sr[e] \in Int
        BY <1>5
      <3>2. \A e \in W : more[e] = 1 * sr[e] + high
        BY <1>5
      <3>3. 1 \in Int /\ high \in Int
        OBVIOUS
      <3> QED BY <1>4, <3>1, <3>2, <3>3, SumLinear, Zenon
    <2> HIDE DEF S, T, c
    <2>5. 2 * T <= S * (Unit + 2)
      <3>1. c * high <= WindowShort * high /\ c * high \in Int /\ WindowShort * high \in Int
        BY <1>1, <1>4, TimesMonotone
      <3>2. low * Unit <= S * Unit /\ low * Unit \in Int /\ S * Unit \in Int
        BY <1>1, <2>1, <2>2, TimesMonotone
      <3>3. high * c = c * high /\ S * (Unit + 2) = S * Unit + 2 * S /\ 1 * S = S
        BY <1>1, <1>4, <2>1, Z3
      <3> DEFINE a == c * high
                 b == WindowShort * high
                 l == low * Unit
                 u == S * Unit
      <3>4. /\ a \in Int /\ b \in Int /\ l \in Int /\ u \in Int /\ a <= b /\ 2 * b <= l /\ l <= u
            /\ T <= S + a /\ S * (Unit + 2) = u + 2 * S
        BY <2>3, <2>4, <3>1, <3>2, <3>3
      <3> HIDE DEF a, b, l, u
      <3>5. 2 * T <= u + 2 * S
        BY <2>1, <3>4
      <3> QED BY <3>4, <3>5
    <2>6. sb \in Nat \ {0}
      BY <2>1, <2>5, BurdenShows
    <2> HIDE DEF sb
    <2> DEFINE B == SeigniorageBurdenTarget
               q == Quo(B, sb)
    <2>7. q \in Nat /\ B * Unit \in Nat /\ q <= B * Unit
      BY <1>1, <2>6, QuoBelow
    <2>8. new = Mul(rewardWeight, q)
      OBVIOUS
    <2> HIDE DEF q, new
    <2>9. new \in Nat /\ new <= q
      <3>1. new \in Nat /\ Mul(Unit, q) = q /\ new <= Mul(Unit, q)
        BY <1>1, <1>2, <2>7, <2>8, MulBelow
      <3> QED BY <3>1
    <2> DEFINE z == B * Unit
    <2>10. z \in Nat /\ q <= z /\ z <= MaxDec
      BY <2>7
    <2> HIDE DEF z
    <2>11. new \in (-MaxDec)..MaxDec
      BY <2>7, <2>9, <2>10, TreasuryAssumption
    <2>12. ClampComputed(pc, rewardWeight, new) = Clamp(pc, rewardWeight, new)
      BY <2>11 DEF ClampComputed
    <2>13. Clamp(pc, rewardWeight, new) \in Nat
      <3>1. new \in Int
        BY <2>9
      <3> QED BY <1>2, <3>1, ClampAllowed, ZenonT(30)
    <2>14. Clamp(pc, rewardWeight, new) # None
      BY <1>1, <2>13
    <2> QED BY <1>3, <1>7, <2>6, <2>12, <2>14
  <1> QED BY <1>6, <1>7

\* With a weight within one the oracle's share is a part of the seigniorage.
LEMMA BurnsAPart ==
    ASSUME EpochInv, LeverInv, IndicatorInv
    PROVE  LeftAmount(supply - burnAccount) >= 0
  <1> DEFINE s == supply - burnAccount
             S == PeekEpochSeigniorage(s)
             product == rewardWeight * S
             most == S * Unit
  <1>1. S \in Nat /\ rewardWeight \in Nat /\ rewardWeight <= Unit /\ Unit \in Nat \ {0}
    BY UnitAssumption DEF EpochInv, LeverInv, IndicatorInv, PeekEpochSeigniorage
  <1>2. BurnAmount(s) = TruncQuo(product, Unit) /\ LeftAmount(s) = S - BurnAmount(s)
    BY DEF BurnAmount, TruncateInt, LeftAmount
  <1> HIDE DEF S
  <1>3. product \in Nat /\ most \in Nat
    BY <1>1, Z3
  <1>4. product <= most
    <2>1. rewardWeight * S <= Unit * S
      BY <1>1, TimesMonotone
    <2>2. Unit * S = most
      BY <1>1, Z3
    <2> QED BY <2>1, <2>2
  <1>5. most \div Unit = S
    BY <1>1, DivMultiple
  <1> HIDE DEF product, most
  <1>6. product \div Unit <= most \div Unit
    BY <1>1, <1>3, <1>4, DivMonotone
  <1>7. TruncQuo(product, Unit) = product \div Unit /\ product \div Unit \in Nat
    BY <1>1, <1>3, TruncQuoType
  <1> DEFINE q == product \div Unit
  <1>8. q \in Nat /\ q <= S /\ LeftAmount(s) = S - q
    BY <1>2, <1>5, <1>6, <1>7
  <1> HIDE DEF q, s
  <1>9. LeftAmount(s) >= 0
    BY <1>1, <1>8
  <1> QED BY <1>9 DEF s

\* The taxes and the seigniorage that the indicators show, those of the current epoch
\* included, at whatever prices it may end: the taxes stay below a bound that a decimal can
\* hold, and the seigniorage of an epoch, where there is any, above one that is not smaller
\* by more than the precision of decimals.
InProportion ==
    \A prices \in RateTables : \E low \in Nat \ {0}, high \in Nat :
        LET tr == UpdateTR(prices)
            sr == UpdateSR(prices, supply - burnAccount)
        IN  /\ 2 * (WindowShort * high) <= low * Unit
            /\ Mul(high, MiningIncrement) * Unit <= MaxDec
            /\ \A e \in Epochs : tr[e] <= high /\ (sr[e] = 0 \/ sr[e] >= low)

\* The EndBlocker does not panic as long as both rates are kept within one and the taxes and
\* the seigniorage of the epochs are in proportion (policy.go:12-90, seigniorage.go:12-43):
\* the settlement burns no more than it has minted, the seigniorage burden is not rounded to
\* zero, and the computed rates fit into a decimal.
THEOREM TreasuryNeverHalts ==
    ASSUME RatesWithinOne, SeigniorageBurdenTarget * Unit <= MaxDec
    PROVE  Spec /\ []InProportion => []NeverHalts
  <1> DEFINE Inv == EpochInv /\ LeverInv /\ IndicatorInv /\ NeverHalts
  <1>1. Init => Inv
    <2> SUFFICES ASSUME Init PROVE Inv
      OBVIOUS
    <2>1. EpochInv /\ LeverInv
      BY EpochInitially, LeverInitially
    <2>2. taxRate <= Unit /\ rewardWeight <= Unit
      <3>1. /\ taxPolicy \in TaxPolicies /\ rewardPolicy \in RewardPolicies
            /\ taxRate = taxPolicy.RateMin /\ rewardWeight = rewardPolicy.RateMin
        BY DEF Init
      <3>2. \A pc \in TaxPolicies \cup RewardPolicies :
                pc.RateMin \in Nat /\ pc.RateMax \in Nat /\ pc.RateMin <= pc.RateMax
        BY PoliciesValid DEF IsPolicy
      <3> QED BY <3>1, <3>2, UnitAssumption DEF RatesWithinOne
    <2>3. TR \in [Epochs -> Nat] /\ SR \in [Epochs -> Nat] /\ TSL \in [Epochs -> Nat]
      BY DEF Init
    <2> QED BY <2>1, <2>2, <2>3 DEF Init, IndicatorInv, NeverHalts
  <1>2. ASSUME Inv, InProportion, [Next]_vars
        PROVE  NeverHalts'
    <2>1. CASE EndBlock
      <3>1. PICK tp \in TaxPolicies, rp \in RewardPolicies, prices \in RateTables,
                bonded \in BondedTokens :
                IF Panics(tp, rp, prices, bonded, supply - burnAccount) THEN Halt
                ELSE UNCHANGED halted
        BY <2>1, Zenon DEF EndBlock
      <3> DEFINE tr == UpdateTR(prices)
                 sr == UpdateSR(prices, supply - burnAccount)
                 tsl == UpdateTSL(bonded)
      <3>2. tr \in [Epochs -> Nat] /\ sr \in [Epochs -> Nat] /\ tsl \in [Epochs -> Nat]
        BY <1>2, UpdateTypes
      <3>3. PICK low \in Nat \ {0}, high \in Nat :
                /\ 2 * (WindowShort * high) <= low * Unit
                /\ Mul(high, MiningIncrement) * Unit <= MaxDec
                /\ \A e \in Epochs : tr[e] <= high /\ (sr[e] = 0 \/ sr[e] >= low)
        BY <1>2, Zenon DEF InProportion
      <3>4. LeftAmount(supply - burnAccount) \in Int /\ LeftAmount(supply - burnAccount) >= 0
        BY <1>2, BurnsAPart, SettlementWithin
      <3> HIDE DEF tr, sr, tsl
      <3>5. UpdateTaxPolicy(tp, tr, tsl) # None
        <4>1. \A e \in Epochs : tr[e] <= high
          BY <3>3
        <4> QED BY <1>2, <3>2, <3>3, <4>1, TaxPolicyComputes
      <3>6. UpdateRewardPolicy(rp, tr, sr) # None
        BY <1>2, <3>2, <3>3, RewardPolicyComputes
      <3>7. ~(LeftAmount(supply - burnAccount) < 0)
        BY <3>4
      <3>8. ~Panics(tp, rp, prices, bonded, supply - burnAccount)
        BY <3>5, <3>6, <3>7, Zenon DEF Panics, tr, sr, tsl
      <3> QED BY <1>2, <3>1, <3>8 DEF NeverHalts
    <2>2. CASE Next /\ ~EndBlock
      BY <1>2, <2>2, Zenon DEF Next, RecordEpochTaxProceeds, Swap, SendToBurnAccount, Restart,
                               NeverHalts
    <2>3. CASE UNCHANGED vars
      BY <1>2, <2>3 DEF vars, NeverHalts
    <2> QED BY <1>2, <2>1, <2>2, <2>3
  <1>3. Inv /\ InProportion /\ [Next]_vars => Inv'
    BY <1>2, EpochStep, LeverStep, IndicatorStep
  <1>4. Inv => NeverHalts
    OBVIOUS
  <1> HIDE DEF Inv
  <1> QED BY <1>1, <1>3, <1>4, PTL DEF Spec

===========================================================================
