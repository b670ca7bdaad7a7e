---------------------------- MODULE Treasury ----------------------------
(***************************************************************************)
(* x/treasury: taxes and seigniorage are counted over an epoch, a week of  *)
(* blocks.  The last block of an epoch records the indicators and, after a *)
(* probation, settles the seigniorage and adjusts the tax rate, the reward *)
(* weight and the tax caps.                                                *)
(*                                                                         *)
(* A block ends with governance, which may change a policy; the oracle,    *)
(* which may set new rates; the treasury.  A panic there stops every node  *)
(* of the chain: halted.  Of supply, issuance and the burn account only    *)
(* the Luna is kept, the treasury reads no other.                          *)
(***************************************************************************)
EXTENDS Prices, Periods, FiniteSetsExt, Functions

CONSTANTS Whitelist,          \* denominations of the oracle's Whitelist parameter
          RateTables,         \* exchange rates the oracle may set
          BondedTokens,       \* what staking may report as TotalBondedTokens
          BlocksPerWeek, WindowShort, WindowLong, WindowProbation,
          MiningIncrement, SeigniorageBurdenTarget,
          TaxPolicies, RewardPolicies,      \* values governance may give them
          InitSupply,
          Taxes,              \* taxes a transaction may record
          LunaMoves,          \* Luna that swaps may mint, or burn if negative
          Burns,              \* Luna that may be sent to the burn account
          MaxDec,             \* bound of sdk.Dec: what exceeds it panics
          MaxHeight, MaxTxs, MaxRestarts

\* validateTaxPolicy, validateRewardPolicy.
PolicyConstraints ==
    {pc \in [RateMin : Nat, RateMax : Nat, ChangeRateMax : Nat,
             CapDenom : Terra, CapAmount : Nat] : pc.RateMin <= pc.RateMax}

Coins == [Terra -> Nat]

ASSUME TreasuryAssumption ==
    /\ IsFiniteSet(Terra) /\ Whitelist \subseteq Terra
    /\ RateTables \subseteq PriceTable
    /\ BondedTokens \subseteq Nat
    /\ BlocksPerWeek \in Nat \ {0}
    /\ {WindowShort, WindowLong, WindowProbation} \subseteq Nat
    /\ WindowShort < WindowLong
    /\ MiningIncrement \in Nat /\ SeigniorageBurdenTarget \in Nat
    /\ \A pc \in TaxPolicies \cup RewardPolicies : 
          /\ {pc.RateMin, pc.RateMax, pc.ChangeRateMax, pc.CapAmount} \subseteq Nat
          /\ pc.CapDenom \in Terra
          /\ pc.RateMin <= pc.RateMax
    /\ InitSupply \in Nat \ {0}
    /\ \A delta \in Taxes : delta \in Coins
    /\ LunaMoves \subseteq Int /\ Burns \subseteq Nat
    /\ MaxDec \in Nat /\ MaxHeight \in Nat /\ MaxTxs \in Nat /\ MaxRestarts \in Nat

Epochs == 0..((MaxHeight + 1) \div BlocksPerWeek)

VARIABLES height,               \* height of the block being executed
          taxRate, rewardWeight,
          taxCaps,              \* TaxCap, None where none is registered
          taxProceeds,          \* EpochTaxProceeds
          epochInitialIssuance,
          TR, SR, TSL,          \* the indicators, by epoch
          taxPolicy, rewardPolicy,          \* parameters
          rates,                \* of the oracle
          supply,               \* of the bank
          burnAccount,          \* balance of the burn module account
          communityPool,        \* what the settlements put in the community pool
          halted,
          txs,                  \* transactions of this block so far, and of all
          restarts,             \* exports and imports so far (history)
          taxLog,               \* taxes recorded in the blocks of each epoch (history)
          destroyed             \* Luna taken out of circulation, less the Luna swaps
                                \* minted, in the blocks of each epoch (history)

leverVars == <<taxRate, rewardWeight, taxCaps, taxPolicy, rewardPolicy>>
indicatorVars == <<TR, SR, TSL>>
historyVars == <<restarts, taxLog, destroyed>>
vars == <<height, leverVars, taxProceeds, epochInitialIssuance, indicatorVars, rates,
          supply, burnAccount, communityPool, halted, txs, historyVars>>

NoCoins == [d \in Terra |-> 0]

\* InitGenesis with a state that ValidateGenesis accepts: rates within their policies.
Init ==
    /\ height = 0
    /\ taxPolicy \in TaxPolicies /\ rewardPolicy \in RewardPolicies
    /\ taxRate = taxPolicy.RateMin /\ rewardWeight = rewardPolicy.RateMin
    /\ taxCaps = [d \in Terra |-> None]
    /\ taxProceeds = NoCoins
    /\ epochInitialIssuance = InitSupply
    /\ TR = [e \in Epochs |-> 0] /\ SR = [e \in Epochs |-> 0] /\ TSL = [e \in Epochs |-> 0]
    /\ rates \in RateTables
    /\ supply = InitSupply
    /\ burnAccount = 0 /\ communityPool = 0
    /\ halted = FALSE
    /\ txs = [block |-> 0, all |-> 0]
    /\ restarts = 0
    /\ taxLog = [e \in Epochs |-> NoCoins] /\ destroyed = [e \in Epochs |-> 0]

GetEpoch(h) == h \div BlocksPerWeek

AddCoins(a, b) == [d \in Terra |-> a[d] + b[d]]

(* Transactions *)

Tx ==
    /\ ~halted /\ txs.all < MaxTxs
    /\ txs' = [block |-> txs.block + 1, all |-> txs.all + 1]

\* RecordEpochTaxProceeds, called by the ante handler.
RecordEpochTaxProceeds(delta) ==
    /\ taxProceeds' = AddCoins(taxProceeds, delta)
    /\ taxLog' = [taxLog EXCEPT ![GetEpoch(height)] = AddCoins(@, delta)]
    /\ UNCHANGED <<height, leverVars, epochInitialIssuance, indicatorVars, rates, supply,
                   burnAccount, communityPool, halted, restarts, destroyed>>

\* Swaps of x/market mint and burn Luna.  The staked Luna cannot be burned, some remains.
Swap(n) ==
    /\ supply + n - burnAccount > 0
    /\ supply' = supply + n
    /\ destroyed' = [destroyed EXCEPT ![GetEpoch(height)] = @ - n]
    /\ UNCHANGED <<height, leverVars, taxProceeds, epochInitialIssuance, indicatorVars, rates,
                   burnAccount, communityPool, halted, restarts, taxLog>>

\* A bank transfer to the burn module account.
SendToBurnAccount(n) ==
    /\ supply - burnAccount - n > 0
    /\ burnAccount' = burnAccount + n
    /\ destroyed' = [destroyed EXCEPT ![GetEpoch(height)] = @ + n]
    /\ UNCHANGED <<height, leverVars, taxProceeds, epochInitialIssuance, indicatorVars, rates,
                   supply, communityPool, halted, restarts, taxLog>>

(* Indicators *)

\* alignCoins: coins without a price are left out.
AlignCoins(prices, coins) ==
    LET aligned == [d \in Terra |-> InternalSwap(prices, NewDec(coins[d]), d, SDR)]
    IN  SumFunctionOnSet(aligned, {d \in Terra : coins[d] > 0 /\ aligned[d] # None})

AlignLuna(prices, amount) ==
    LET aligned == InternalSwap(prices, amount, Luna, SDR)
    IN  IF aligned = None THEN 0 ELSE aligned

\* PeekEpochSeigniorage, for a supply s.
PeekEpochSeigniorage(s) == IF epochInitialIssuance > s THEN epochInitialIssuance - s ELSE 0

\* The indicators that UpdateIndicators records for the epoch, with a supply of s.
UpdateTSL(bonded) == [TSL EXCEPT ![GetEpoch(height)] = bonded]
UpdateTR(prices) == [TR EXCEPT ![GetEpoch(height)] = AlignCoins(prices, taxProceeds)]
UpdateSR(prices, s) ==
    [SR EXCEPT ![GetEpoch(height)] = AlignLuna(prices, rewardWeight * PeekEpochSeigniorage(s))]

\* TRL
TRL(tr, tsl, e) == IF tr[e] = 0 \/ tsl[e] = 0 THEN 0 ELSE QuoInt(tr[e], tsl[e])

\* The epochs of the loops of sumIndicator and rollingAverageIndicator.
Window(n) == {e \in Epochs : e <= GetEpoch(height) /\ e > GetEpoch(height) - n}

\* An indicator is a function on the epochs.
SumIndicator(indicator, n) == SumFunctionOnSet(indicator, Window(n))

RollingAverageIndicator(indicator, n) ==
    IF Window(n) = {} THEN 0
    ELSE QuoInt(SumIndicator(indicator, n), Cardinality(Window(n)))

(* Policies *)

\* Mutant: the bounds are enforced first and the step is limited last, as in
\* spec/03_end_block.md:113-135.
ClampBoundsFirst(pc, prevRate, newRate) ==
    LET bounded ==
            IF newRate < pc.RateMin THEN pc.RateMin
            ELSE IF newRate > pc.RateMax THEN pc.RateMax
            ELSE newRate
    IN  IF bounded > prevRate + pc.ChangeRateMax THEN prevRate + pc.ChangeRateMax
        ELSE IF bounded < prevRate - pc.ChangeRateMax THEN prevRate - pc.ChangeRateMax
        ELSE bounded

\* PolicyConstraints.Clamp: the step is limited first, the bounds are enforced last.
Clamp(pc, prevRate, newRate) ==
    LET limited ==
            IF newRate > prevRate + pc.ChangeRateMax THEN prevRate + pc.ChangeRateMax
            ELSE IF newRate < prevRate - pc.ChangeRateMax THEN prevRate - pc.ChangeRateMax
            ELSE newRate
    IN  IF limited < pc.RateMin THEN pc.RateMin
        ELSE IF limited > pc.RateMax THEN pc.RateMax
        ELSE limited

\* Clamp of a computed rate; None is a panic, of an overflow or of a division by zero.
ClampComputed(pc, prevRate, newRate) ==
    IF newRate \in (-MaxDec)..MaxDec THEN Clamp(pc, prevRate, newRate) ELSE None

UpdateTaxPolicy(pc, tr, tsl) ==
    LET trl == [e \in Epochs |-> TRL(tr, tsl, e)]
        tlYear == RollingAverageIndicator(trl, WindowLong)
        tlMonth == RollingAverageIndicator(trl, WindowShort)
    IN  IF tlMonth = 0 THEN Clamp(pc, taxRate, pc.RateMax)
        ELSE ClampComputed(pc, taxRate,
                           Quo(Mul(taxRate, Mul(tlYear, MiningIncrement)), tlMonth))

\* Mutant: no test for an epoch without seigniorage.
UpdateRewardPolicyUnguarded(pc, tr, sr) ==
    LET mr == [e \in Epochs |-> tr[e] + sr[e]]
        totalSum == SumIndicator(mr, WindowShort)
        sb == Quo(SumIndicator(sr, WindowShort), totalSum)
    IN  IF totalSum = 0 THEN Clamp(pc, rewardWeight, pc.RateMax)
        ELSE IF sb = 0 THEN None
        ELSE ClampComputed(pc, rewardWeight,
                           Mul(rewardWeight, Quo(SeigniorageBurdenTarget, sb)))

\* The burden may have been rounded to zero.
UpdateRewardPolicy(pc, tr, sr) ==
    LET mr == [e \in Epochs |-> tr[e] + sr[e]]
        seigniorageSum == SumIndicator(sr, WindowShort)
        totalSum == SumIndicator(mr, WindowShort)
        sb == Quo(seigniorageSum, totalSum)
    IN  IF totalSum = 0 \/ seigniorageSum = 0 THEN Clamp(pc, rewardWeight, pc.RateMax)
        ELSE IF sb = 0 THEN None
        ELSE ClampComputed(pc, rewardWeight,
                           Mul(rewardWeight, Quo(SeigniorageBurdenTarget, sb)))

\* The denomination of the cap itself keeps what it has, and so do those without a price.
UpdateTaxCap(pc, prices) ==
    [d \in Terra |->
        LET newCap == InternalSwap(prices, NewDec(pc.CapAmount), pc.CapDenom, d)
        IN  IF d \in Whitelist \ {pc.CapDenom} /\ newCap # None
            THEN TruncateInt(newCap) ELSE taxCaps[d]]

GetTaxCap(d) ==
    IF d = Luna THEN 0
    ELSE IF taxCaps[d] = None THEN taxPolicy.CapAmount
    ELSE taxCaps[d]

\* SettleSeigniorage mints the seigniorage, burns the oracle's share of it, which it
\* must not exceed, and leaves the rest to the community pool.
BurnAmount(s) == TruncateInt(rewardWeight * PeekEpochSeigniorage(s))
LeftAmount(s) == PeekEpochSeigniorage(s) - BurnAmount(s)

(* The end of a block *)

\* BurnCoinsFromBurnAccount; the supply is reduced in EndBlocker.
BurnCoinsFromBurnAccount == burnAccount' = 0

NextBlock ==
    /\ height' = height + 1
    /\ txs' = [txs EXCEPT !.block = 0]
    /\ UNCHANGED historyVars

Halt ==
    /\ halted' = TRUE
    /\ UNCHANGED <<height, leverVars, taxProceeds, epochInitialIssuance, indicatorVars, rates,
                   supply, burnAccount, communityPool, txs, historyVars>>

\* Mutant: the proceeds are not reset.
UpdateIndicatorsOnly(prices, bonded, s) ==
    /\ TSL' = UpdateTSL(bonded) /\ TR' = UpdateTR(prices) /\ SR' = UpdateSR(prices, s)
    /\ taxProceeds' = taxProceeds

\* UpdateIndicators, with a supply of s.
UpdateIndicators(prices, bonded, s) ==
    /\ TSL' = UpdateTSL(bonded) /\ TR' = UpdateTR(prices) /\ SR' = UpdateSR(prices, s)
    /\ taxProceeds' = NoCoins

\* Mutant: the issuance is recorded at once, not deferred.
RecordBeforeSettlement(tp, rp, prices, bonded, s) ==
    /\ supply' = s + LeftAmount(s)
    /\ communityPool' = communityPool + LeftAmount(s)
    /\ taxRate' = UpdateTaxPolicy(tp, UpdateTR(prices), UpdateTSL(bonded))
    /\ rewardWeight' = UpdateRewardPolicy(rp, UpdateTR(prices), UpdateSR(prices, s))
    /\ taxCaps' = UpdateTaxCap(tp, prices)
    /\ epochInitialIssuance' = s

\* Mutant: the oracle's share is minted and not burned.
SettleWithoutBurn(tp, rp, prices, bonded, s) ==
    /\ supply' = s + PeekEpochSeigniorage(s)
    /\ communityPool' = communityPool + LeftAmount(s)
    /\ taxRate' = UpdateTaxPolicy(tp, UpdateTR(prices), UpdateTSL(bonded))
    /\ rewardWeight' = UpdateRewardPolicy(rp, UpdateTR(prices), UpdateSR(prices, s))
    /\ taxCaps' = UpdateTaxCap(tp, prices)
    /\ epochInitialIssuance' = supply'

\* The settlement and the policies; then the deferred RecordEpochInitialIssuance.
UpdatePolicies(tp, rp, prices, bonded, s) ==
    /\ supply' = s + LeftAmount(s)
    /\ communityPool' = communityPool + LeftAmount(s)
    /\ taxRate' = UpdateTaxPolicy(tp, UpdateTR(prices), UpdateTSL(bonded))
    /\ rewardWeight' = UpdateRewardPolicy(rp, UpdateTR(prices), UpdateSR(prices, s))
    /\ taxCaps' = UpdateTaxCap(tp, prices)
    /\ epochInitialIssuance' = supply'

\* EndBlocker
EndBlocker(tp, rp, prices, bonded) ==
    LET s == supply - burnAccount       \* after BurnCoinsFromBurnAccount
    IN  \/ /\ ~IsPeriodLastBlock(height, BlocksPerWeek)
           /\ supply' = s
           /\ UNCHANGED <<taxProceeds, epochInitialIssuance, indicatorVars, communityPool,
                          taxRate, rewardWeight, taxCaps>>
        \/ /\ IsPeriodLastBlock(height, BlocksPerWeek)
           /\ UpdateIndicators(prices, bonded, s)
           /\ \/ /\ height < BlocksPerWeek * WindowProbation
                 /\ supply' = s
                 /\ epochInitialIssuance' = s
                 /\ UNCHANGED <<communityPool, taxRate, rewardWeight, taxCaps>>
              \/ /\ height >= BlocksPerWeek * WindowProbation
                 /\ UpdatePolicies(tp, rp, prices, bonded, s)

\* A panic of the EndBlocker: more to burn than was minted, or a policy update fails.
Panics(tp, rp, prices, bonded, s) ==
    /\ IsPeriodLastBlock(height, BlocksPerWeek) /\ height >= BlocksPerWeek * WindowProbation
    /\ \/ LeftAmount(s) < 0
       \/ UpdateTaxPolicy(tp, UpdateTR(prices), UpdateTSL(bonded)) = None
       \/ UpdateRewardPolicy(rp, UpdateTR(prices), UpdateSR(prices, s)) = None

EndBlock ==
    /\ ~halted /\ height < MaxHeight
    /\ \E tp \in TaxPolicies, rp \in RewardPolicies, prices \in RateTables,
          bonded \in BondedTokens :
          IF Panics(tp, rp, prices, bonded, supply - burnAccount) THEN Halt
          ELSE /\ taxPolicy' = tp /\ rewardPolicy' = rp /\ rates' = prices
               /\ BurnCoinsFromBurnAccount
               /\ EndBlocker(tp, rp, prices, bonded)
               /\ NextBlock
               /\ UNCHANGED halted

(* Genesis *)

\* Mutant: an epoch that has just ended is not exported.
ExportedBefore(h) == {e \in Epochs : e < GetEpoch(h)}

\* ExportGenesis after block h: the epochs that have ended.
ExportedEpochs(h) ==
    {e \in Epochs : e < GetEpoch(h) \/ (e = GetEpoch(h) /\ IsPeriodLastBlock(h, BlocksPerWeek))}

\* ExportGenesis between two blocks, and InitGenesis of a chain that goes on from there.
Restart ==
    LET epochStates == ExportedEpochs(height - 1)
        Imported(f) == [e \in Epochs |-> IF e \in epochStates THEN f[e] ELSE 0]
    IN  /\ ~halted /\ height > 0 /\ txs.block = 0 /\ restarts < MaxRestarts
        /\ TR' = Imported(TR) /\ SR' = Imported(SR) /\ TSL' = Imported(TSL)
        /\ epochInitialIssuance' = IF epochInitialIssuance = 0 THEN supply
                                   ELSE epochInitialIssuance
        /\ restarts' = restarts + 1
        /\ UNCHANGED <<height, leverVars, taxProceeds, rates, supply, burnAccount,
                       communityPool, halted, txs, taxLog, destroyed>>

Next ==
    \/ \E delta \in Taxes : Tx /\ RecordEpochTaxProceeds(delta)
    \/ \E n \in LunaMoves : Tx /\ Swap(n)
    \/ \E n \in Burns : Tx /\ SendToBurnAccount(n)
    \/ EndBlock
    \/ Restart

Spec == Init /\ [][Next]_vars

(* Properties *)

\* The taxes waiting to be counted are those of the current epoch, all of them and no
\* others: the EndBlocker (abci.go) resets them with the epoch, in the probation too,
\* and a restart keeps them.
ProceedsOfEpoch == taxProceeds = taxLog[GetEpoch(height)]

\* What PeekEpochSeigniorage will compare is the Luna destroyed since the epoch began:
\* the issuance is recorded after the settlement of every epoch, in the probation too,
\* and Luna sent to the burn account in an epoch counts for that epoch.
SeigniorageOfEpoch ==
    epochInitialIssuance = supply - burnAccount + destroyed[GetEpoch(height)]

\* Settlements (seigniorage.go) neither lose nor invent Luna: what they mint and do not
\* burn is in the community pool, and they mint no more than the epochs that ended have
\* destroyed.
LunaAccounted ==
    LET shrunk == [e \in Epochs |-> IF destroyed[e] > 0 THEN destroyed[e] ELSE 0]
    IN  /\ supply - burnAccount = InitSupply - SumFunctionOnSet(destroyed, Epochs) + communityPool
        /\ communityPool <= SumFunctionOnSet(shrunk, {e \in Epochs : e < GetEpoch(height)})

\* The EndBlocker does not panic, in particular not on the quotients of policy.go.
NeverHalts == ~halted

\* An export taken between any two blocks and imported again leaves the treasury as it
\* was (genesis.go), also right after an epoch has ended.
GenesisRoundTrip ==
    [][restarts' # restarts => UNCHANGED <<epochInitialIssuance, indicatorVars>>]_vars

TaxLever == INSTANCE PolicyLever
              WITH rate <- taxRate, policy <- taxPolicy, Policies <- TaxPolicies
RewardLever == INSTANCE PolicyLever
              WITH rate <- rewardWeight, policy <- rewardPolicy, Policies <- RewardPolicies

TaxLeverSpec == TaxLever!LeverSpec

RewardLeverSpec == RewardLever!LeverSpec

\* The tax rate and the reward weight move as PolicyLever allows, whatever governance
\* does to the policies between two epochs (UpdateTaxPolicy, UpdateRewardPolicy, Clamp).
PolicyLevers == TaxLeverSpec /\ RewardLeverSpec

\* spec/03_end_block.md:101 calls ChangeRateMax "the max periodic changes for each variable",
\* and the Clamp printed there limits the step last: an epoch moves neither the tax rate
\* nor the reward weight by more than the policy's ChangeRateMax. The Clamp of
\* types/constraint.go enforces the bounds last and may move further, to a new bound.
StepsAsDocumented ==
    [][/\ taxRate' - taxRate \in (-taxPolicy'.ChangeRateMax)..taxPolicy'.ChangeRateMax
       /\ rewardWeight' - rewardWeight
             \in (-rewardPolicy'.ChangeRateMax)..rewardPolicy'.ChangeRateMax]_vars

===========================================================================
