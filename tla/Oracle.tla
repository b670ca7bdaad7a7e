----------------------------- MODULE Oracle -----------------------------
(***************************************************************************)
(* x/oracle: validators commit to exchange rates in one vote period and    *)
(* reveal them in the next; the last block of a period tallies the votes,  *)
(* counts misses, pays the winners, clears the ballots and applies the     *)
(* whitelist; the last block of a slash window slashes and jails.          *)
(*                                                                         *)
(* One step is one message handler or one end of a block.  A panic in the  *)
(* EndBlocker stops every node of the chain: halted.                       *)
(***************************************************************************)
EXTENDS OracleBallot, Staking, Periods

CONSTANTS Denoms,           \* Terra denominations a vote may name
          Luna,             \* uluna, the first reward denomination
          Rank,             \* alphabetical order of Denoms
          Rates,            \* decimals >= 0 a vote may name; 0 abstains
          Taxes,            \* tobin taxes a whitelist item may carry
          Accounts,         \* accounts that may feed, the operators' own included
          Delegates,        \* accounts an operator may name as its feeder
          None,             \* nothing stored under a key
          InitWhitelist,
          Whitelists,       \* whitelists a parameter change may set
          VotePeriod, VoteThreshold, RewardBand, RewardDistributionWindow,
          SlashWindow, SlashFraction, MinValidPerWindow,
          Fees,             \* amounts the market may add to the reward pool
          MaxPool,          \* bound on what the pool holds of one denomination
          MaxHeight         \* bound on the height of a run

RewardDenoms == Denoms \cup {Luna}

\* A set of denominations, each with its tobin tax (None: not in the set).
TaxTable == [Denoms -> Taxes \cup {None}]

Listed(table) == {d \in Denoms : table[d] # None}

\* What a vote message names: some denominations, none twice, with a rate each.
Tuples == UNION {[D -> Rates] : D \in SUBSET Denoms \ {{}}}

ASSUME OracleAssumption ==
    /\ VotePeriod \in Nat \ {0}
    /\ SlashWindow \in Nat \ {0}
    /\ RewardDistributionWindow \in Nat \ {0}
    /\ SlashFraction \in 0..OneDec
    /\ MinValidPerWindow \in 0..OneDec
    /\ Validators \cup Delegates \subseteq Accounts
    /\ VoteThreshold \in 0..OneDec
    /\ IsFiniteSet(Validators) /\ IsFiniteSet(Denoms)
    /\ Luna \notin Denoms
    /\ Rank \in [Denoms -> Nat] /\ \A d, e \in Denoms : Rank[d] = Rank[e] => d = e
    /\ Rates \subseteq Nat
    /\ Fees \subseteq Nat
    /\ None \notin Nat
    /\ None \notin Taxes
    /\ Whitelists \cup {InitWhitelist} \subseteq TaxTable

\* validateWhitelist.
ASSUME TaxAssumption == Taxes \subseteq 0..OneDec

\* Params.Validate; a proposal that changes one parameter alone is not held to it.
ASSUME ParamsAssumption ==
    VotePeriod <= RewardDistributionWindow /\ VotePeriod <= SlashWindow

\* Unbonding lasts longer than a slash window (three weeks and one, by default):
\* no parameter check of the code demands it.
ASSUME UnbondingAssumption == UnbondingBlocks + 1 >= SlashWindow

VARIABLES height,       \* height of the block being executed
          feeder,       \* FeederDelegation
          prevotes,     \* AggregateExchangeRatePrevote: hash and submitBlock
          votes,        \* AggregateExchangeRateVote, with the heights of its
                        \* prevote and of its reveal (history)
          rates,        \* ExchangeRate
          tobinTaxes,   \* TobinTax: the vote targets
          whitelist,    \* the Whitelist parameter
          missCounters, \* MissCounter
          pool,         \* the oracle module account
          allocated,    \* rewards allocated to each validator
          halted

oracleVars == <<height, feeder, prevotes, votes, rates, tobinTaxes, whitelist,
                missCounters, pool, allocated, halted>>

vars == <<oracleVars, stakingVars>>

Hashes == [rates : Tuples, val : Validators]

Prevote == [hash : Hashes, submitBlock : Nat]

Vote == [rates : Tuples, submitBlock : Nat, revealBlock : Nat]

Init ==
    /\ StakingInit
    /\ height = 1
    /\ feeder = [v \in Validators |-> v]
    /\ prevotes = [v \in Validators |-> None]
    /\ votes = [v \in Validators |-> None]
    /\ rates = [d \in Denoms |-> None]
    /\ tobinTaxes = InitWhitelist
    /\ whitelist = InitWhitelist
    /\ missCounters = [v \in Validators |-> None]
    /\ pool = [d \in RewardDenoms |-> 0]
    /\ allocated = [v \in Validators |-> [d \in RewardDenoms |-> 0]]
    /\ halted = FALSE

-----------------------------------------------------------------------------
(* Messages *)

PeriodOf(h) == h \div VotePeriod

ValidateFeeder(f, v) ==
    /\ f = v \/ feeder[v] = f
    /\ ValidatorExists(v) /\ IsBonded(v)

AggregateExchangeRatePrevote(f, v, hash) ==
    /\ ~halted
    /\ ValidateFeeder(f, v)
    /\ prevotes' = [prevotes EXCEPT ![v] = [hash |-> hash, submitBlock |-> height]]
    /\ UNCHANGED <<height, feeder, votes, rates, tobinTaxes, whitelist, missCounters,
                   pool, allocated, halted, stakingVars>>

\* The hash of the salt, the rates and the operator is taken to be injective;
\* the salt is left out.
AggregateVoteHash(tuples, v) == [rates |-> tuples, val |-> v]

\* Mutant: a vote may be revealed in the period of its prevote.
RevealPeriodTooEarly(submitBlock) == PeriodOf(height) - PeriodOf(submitBlock) <= 1

\* The period after the prevote's is the only one in which it can be revealed.
RevealPeriod(submitBlock) == PeriodOf(height) - PeriodOf(submitBlock) = 1

\* Mutant: the whitelist is consulted, which may have changed since the period began.
NamesWhitelist(tuples) == DOMAIN tuples \subseteq Listed(whitelist)

\* IsVoteTarget, for every denomination of the vote.
NamesTargets(tuples) == DOMAIN tuples \subseteq Listed(tobinTaxes)

AggregateExchangeRateVote(f, v, tuples) ==
    /\ ~halted
    /\ ValidateFeeder(f, v)
    /\ prevotes[v] # None
    /\ RevealPeriod(prevotes[v].submitBlock)
    /\ NamesTargets(tuples)
    /\ prevotes[v].hash = AggregateVoteHash(tuples, v)
    /\ votes' = [votes EXCEPT ![v] = [rates |-> tuples,
                                      submitBlock |-> prevotes[v].submitBlock,
                                      revealBlock |-> height]]
    /\ prevotes' = [prevotes EXCEPT ![v] = None]
    /\ UNCHANGED <<height, feeder, rates, tobinTaxes, whitelist, missCounters,
                   pool, allocated, halted, stakingVars>>

DelegateFeedConsent(v, f) ==
    /\ ~halted
    /\ ValidatorExists(v)
    /\ feeder' = [feeder EXCEPT ![v] = f]
    /\ UNCHANGED <<height, prevotes, votes, rates, tobinTaxes, whitelist, missCounters,
                   pool, allocated, halted, stakingVars>>

-----------------------------------------------------------------------------
(* The EndBlocker, on the last block of a vote period *)

\* The claims: the active set, every bonded validator of the power index
\* (which leaves out the jailed ones).
Claimed == {v \in Validators : IsBonded(v) /\ ~jailed[v]}

OrganizeBallotByDenom(d) ==
    LET voters == {v \in Claimed : votes[v] # None /\ d \in DOMAIN votes[v].rates}
        ForTally(v) == [voter |-> v, rate |-> votes[v].rates[d],
                        power |-> IF votes[v].rates[d] > 0 THEN power[v] ELSE 0]
    IN  SortBallot(SetToSeq({ForTally(v) : v \in voters}))

ThresholdVotes ==
    RoundInt(VoteThreshold * SumFunctionOnSet(power, {v \in Validators : IsBonded(v)}))

\* voteMap after PickReferenceTerra: the vote targets whose ballot passes.
PassingBallots(ballots) ==
    {d \in Listed(tobinTaxes) : BallotIsPassing(ballots[d], ThresholdVotes)}

\* voteTargets after PickReferenceTerra: a target whose ballot does not pass is
\* dropped; one that got no vote at all has no ballot and stays.
RemainingTargets(ballots) ==
    {d \in Listed(tobinTaxes) : ballots[d] # <<>> => d \in PassingBallots(ballots)}

\* The greatest power, and the first in alphabetical order among equals; None
\* (the empty string) if no ballot passes.
PickReferenceTerra(ballots) ==
    LET passing == PassingBallots(ballots)
    IN  IF passing = {} THEN None
        ELSE CHOOSE d \in passing : \A e \in passing \ {d} :
                \/ BallotPower(ballots[d]) > BallotPower(ballots[e])
                \/ BallotPower(ballots[d]) = BallotPower(ballots[e]) /\ Rank[d] < Rank[e]

\* The ballots as Tally sees them: cross rates, but for the Reference Terra.
CrossBallots(ballots, reference) ==
    LET bases == ToMap(ballots[reference])
    IN  [d \in PassingBallots(ballots) |->
            IF d = reference THEN ballots[d] ELSE ToCrossRateWithSort(ballots[d], bases)]

\* The exchange rates stored: a cross median is turned back into a rate of Luna.
NewRates(cross, reference) ==
    [d \in Denoms |->
        IF d \notin DOMAIN cross THEN None
        ELSE IF d = reference THEN WeightedMedian(cross[d])
        ELSE Quo(WeightedMedian(cross[reference]), WeightedMedian(cross[d]))]

\* Everything the tally computes before it writes.
Tallied ==
    LET ballots == [d \in Denoms |-> OrganizeBallotByDenom(d)]
        reference == PickReferenceTerra(ballots)
        cross == CrossBallots(ballots, reference)
    IN  [targets |-> RemainingTargets(ballots), reference |-> reference, cross |-> cross,
         winners |-> [d \in DOMAIN cross |-> TallyWinners(cross[d], RewardBand)]]

\* The assertion of WeightedMedianWithAssertion, and Dec.Quo by a zero median.
TallyPanics(t) ==
    \E d \in DOMAIN t.cross : \/ ~SortedBallot(t.cross[d])
                              \/ d # t.reference /\ WeightedMedian(t.cross[d]) = 0

WinCount(t, v) ==
    Cardinality({d \in DOMAIN t.winners : \E vote \in t.winners[d] : vote.voter = v})

Weight(t, v) ==
    LET won == {vote \in UNION {{<<d, w>> : w \in t.winners[d]} : d \in DOMAIN t.winners} :
                    vote[2].voter = v}
    IN  SumFunction([vote \in won |-> vote[2].power])

\* Mutant: every validator of the store is counted, not the active set.
CountUnbonded(t) ==
    [v \in Validators |->
        IF ValidatorExists(v) /\ WinCount(t, v) # Cardinality(t.targets)
        THEN 1 + (IF missCounters[v] = None THEN 0 ELSE missCounters[v])
        ELSE missCounters[v]]

\* A validator of the active set that did not win every remaining target.
CountMisses(t) ==
    [v \in Validators |->
        IF v \in Claimed /\ WinCount(t, v) # Cardinality(t.targets)
        THEN 1 + (IF missCounters[v] = None THEN 0 ELSE missCounters[v])
        ELSE missCounters[v]]

\* Mutant: the whole pool is one period's reward.
RewardWholePool(t) ==
    LET sum == SumFunction([v \in Claimed |-> Weight(t, v)])
    IN  [v \in Validators |-> [d \in RewardDenoms |->
            IF sum = 0 \/ v \notin Claimed \/ d \notin t.targets \cup {Luna} THEN 0
            ELSE TruncateInt(Mul(NewDec(pool[d]), QuoInt(NewDec(Weight(t, v)), sum)))]]

\* The coins each winner gets.
RewardBallotWinners(t) ==
    LET sum == SumFunction([v \in Claimed |-> Weight(t, v)])
        ratio == QuoInt(NewDec(VotePeriod), RewardDistributionWindow)
        PeriodReward(d) == Mul(NewDec(pool[d]), ratio)
    IN  [v \in Validators |-> [d \in RewardDenoms |->
            IF sum = 0 \/ v \notin Claimed \/ d \notin t.targets \cup {Luna} THEN 0
            ELSE TruncateInt(Mul(PeriodReward(d), QuoInt(NewDec(Weight(t, v)), sum)))]]

Distributed(rewards, d) == SumFunction([v \in Validators |-> rewards[v][d]])

\* SendCoinsFromModuleToModule fails, and the EndBlocker panics.
RewardsPanic(rewards) == \E d \in RewardDenoms : Distributed(rewards, d) > pool[d]

\* Mutant: prevotes are never cleared.
KeepPrevotes == prevotes

\* Mutant: every prevote of an earlier block is cleared.
ClearAllPrevotes ==
    [v \in Validators |->
        IF prevotes[v] # None /\ height > prevotes[v].submitBlock THEN None ELSE prevotes[v]]

ClearPrevotes ==
    [v \in Validators |->
        IF prevotes[v] # None /\ height > prevotes[v].submitBlock + VotePeriod
        THEN None ELSE prevotes[v]]

\* The vote targets of the next period.  The code compares the whitelist with
\* the remaining targets and rewrites the store only if they differ.
ApplyWhitelist(targets) ==
    LET updateRequired == \/ Cardinality(targets) # Cardinality(Listed(whitelist))
                          \/ \E d \in Listed(whitelist) :
                                d \notin targets \/ tobinTaxes[d] # whitelist[d]
    IN  IF updateRequired THEN whitelist ELSE tobinTaxes

-----------------------------------------------------------------------------
(* The EndBlocker, on the last block of a slash window *)

VotePeriodsPerWindow == SlashWindow \div VotePeriod

\* uint64 subtraction wraps and int64 unwraps it: a negative rate when a
\* validator missed more periods than the quotient counts.
ValidVoteRate(misses) == QuoInt(NewDec(VotePeriodsPerWindow - misses), VotePeriodsPerWindow)

\* Mutant: a validator exactly at the minimum is slashed.
AtMostMinimum(misses, v) ==
    misses[v] # None /\ ValidVoteRate(misses[v]) <= MinValidPerWindow

BelowMinimum(misses, v) ==
    misses[v] # None /\ ValidVoteRate(misses[v]) < MinValidPerWindow

\* A division by zero, or a method call on the nil validator.
SlashPanics(misses) ==
    \E v \in Validators : /\ misses[v] # None
                          /\ \/ VotePeriodsPerWindow = 0
                             \/ BelowMinimum(misses, v) /\ ~ValidatorExists(v)

Slashed(misses) ==
    {v \in Validators : BelowMinimum(misses, v) /\ IsBonded(v) /\ ~jailed[v]}

\* Mutant: only the counters of the slashed are reset.
ResetSlashedOnly(misses) ==
    /\ missCounters' = [v \in Validators |-> IF v \in Slashed(misses) THEN None ELSE misses[v]]
    /\ jailed' = [v \in Validators |-> jailed[v] \/ v \in Slashed(misses)]
    /\ power' = power

\* SlashAndResetMissCounters, and the staking module's Slash and Jail.
SlashAndResetMissCounters(misses) ==
    /\ missCounters' = [v \in Validators |-> None]
    /\ jailed' = [v \in Validators |-> jailed[v] \/ v \in Slashed(misses)]
    /\ power' = [v \in Validators |->
                    IF v \in Slashed(misses)
                    THEN TruncateInt(power[v] * (OneDec - SlashFraction)) ELSE power[v]]

-----------------------------------------------------------------------------

EndOfPeriod == IsPeriodLastBlock(height, VotePeriod)

EndOfWindow == IsPeriodLastBlock(height, SlashWindow)

MissesAfterTally(t) == IF EndOfPeriod THEN CountMisses(t) ELSE missCounters

EndBlockerPanics(t) ==
    \/ EndOfPeriod /\ (TallyPanics(t) \/ RewardsPanic(RewardBallotWinners(t)))
    \/ EndOfWindow /\ SlashPanics(MissesAfterTally(t))

WriteTally(t) ==
    LET rewards == RewardBallotWinners(t)
    IN  /\ rates' = NewRates(t.cross, t.reference)
        /\ pool' = [d \in RewardDenoms |-> pool[d] - Distributed(rewards, d)]
        /\ allocated' = [v \in Validators |-> [d \in RewardDenoms |->
                            allocated[v][d] + rewards[v][d]]]
        /\ prevotes' = ClearPrevotes
        /\ votes' = [v \in Validators |-> None]
        /\ tobinTaxes' = ApplyWhitelist(t.targets)

EndBlocker(t) ==
    /\ IF EndOfPeriod THEN WriteTally(t)
       ELSE UNCHANGED <<rates, pool, allocated, prevotes, votes, tobinTaxes>>
    /\ IF EndOfWindow THEN SlashAndResetMissCounters(MissesAfterTally(t))
       ELSE missCounters' = MissesAfterTally(t) /\ UNCHANGED <<jailed, power>>

\* The end of a block: the oracle's EndBlocker, then the staking module's.
EndBlock ==
    /\ ~halted /\ height < MaxHeight
    /\ LET t == Tallied
       IN  IF EndBlockerPanics(t)
           THEN halted' = TRUE /\ UNCHANGED <<height, feeder, prevotes, votes, rates,
                    tobinTaxes, whitelist, missCounters, pool, allocated, stakingVars>>
           ELSE /\ EndBlocker(t)
                /\ StakingEndBlock(jailed', height)
                /\ height' = height + 1
                /\ UNCHANGED <<feeder, whitelist, halted>>

\* A parameter change proposal.
ChangeWhitelist(table) ==
    /\ ~halted
    /\ whitelist' = table
    /\ UNCHANGED <<height, feeder, prevotes, votes, rates, tobinTaxes, missCounters,
                   pool, allocated, halted, stakingVars>>

\* The market pays the spread fee of a swap into the reward pool.
ReceiveFee(d, amount) ==
    /\ ~halted
    /\ pool[d] + amount <= MaxPool
    /\ pool' = [pool EXCEPT ![d] = @ + amount]
    /\ UNCHANGED <<height, feeder, prevotes, votes, rates, tobinTaxes, whitelist,
                   missCounters, allocated, halted, stakingVars>>

StakingTx ==
    /\ ~halted
    /\ \E v \in Validators : Jail(v) \/ Unjail(v) \/ CreateValidator(v)
    /\ UNCHANGED oracleVars

Messages ==
    \/ \E f \in Accounts, v \in Validators, hash \in Hashes :
            AggregateExchangeRatePrevote(f, v, hash)
    \/ \E f \in Accounts, v \in Validators, tuples \in Tuples :
            AggregateExchangeRateVote(f, v, tuples)
    \/ \E v \in Validators, f \in Delegates : DelegateFeedConsent(v, f)

Next ==
    \/ Messages
    \/ EndBlock
    \/ \E table \in Whitelists : ChangeWhitelist(table)
    \/ \E d \in RewardDenoms, amount \in Fees : ReceiveFee(d, amount)
    \/ StakingTx

Spec == Init /\ [][Next]_vars

-----------------------------------------------------------------------------
(* Properties *)

\* The types of the stores and of the amounts.
StoreTypeOK ==
    /\ StakingTypeOK
    /\ height \in Nat
    /\ feeder \in [Validators -> Accounts]
    /\ prevotes \in [Validators -> Prevote \cup {None}]
    /\ votes \in [Validators -> Vote \cup {None}]
    /\ tobinTaxes \in TaxTable
    /\ whitelist \in TaxTable
    /\ missCounters \in [Validators -> Nat \cup {None}]
    /\ pool \in [RewardDenoms -> Nat]
    /\ allocated \in [Validators -> [RewardDenoms -> Nat]]
    /\ halted \in BOOLEAN

\* A voter commits before knowing the votes of others (the reveal check of
\* AggregateExchangeRateVote, the clearing of votes in ClearBallots): every
\* standing vote was committed in a period before the one in which any
\* standing vote was revealed.
CommittedBeforeReveals ==
    \A v, w \in Validators : votes[v] # None /\ votes[w] # None =>
        PeriodOf(votes[v].submitBlock) < PeriodOf(votes[w].revealBlock)

\* ClearBallots never removes a prevote that a later block could still reveal.
RevealablePrevotesKept ==
    [][\A v \in Validators :
        height' # height /\ prevotes[v] # None /\ prevotes'[v] = None =>
            PeriodOf(height') - PeriodOf(prevotes[v].submitBlock) > 1]_vars

\* ClearBallots removes what can no longer be revealed: no prevote outlives the
\* second period after its own.
PrevotesExpire ==
    \A v \in Validators : prevotes[v] # None =>
        PeriodOf(height) - PeriodOf(prevotes[v].submitBlock) <= 2

\* A miss counter counts vote periods of the current slash window only: it is
\* at most the number of periods that ended since the window began.
WindowStart(h) == (h \div SlashWindow) * SlashWindow

MissesBounded ==
    \A v \in Validators : missCounters[v] # None =>
        missCounters[v] <= PeriodOf(height) - PeriodOf(WindowStart(height))

\* SlashAndResetMissCounters calls methods on StakingKeeper.Validator(operator)
\* without testing for nil: a validator with a miss counter has not been
\* removed from the staking store.
MissCounterOwnerExists ==
    \A v \in Validators : missCounters[v] # None => ValidatorExists(v)

\* At the end of a slash window, a validator of the active set that missed a
\* period is jailed exactly when the share of the window's periods in which it
\* voted validly is below MinValidPerWindow.
SlashedIffBelowMinimum ==
    [][LET misses == MissesAfterTally(Tallied)
           ended == PeriodOf(height + 1) - PeriodOf(WindowStart(height))
       IN  EndOfWindow /\ height' # height =>
            \A v \in Claimed : misses[v] # None =>
                (jailed'[v] <=> (ended - misses[v]) * Unit < MinValidPerWindow * ended)]_vars

\* A standing vote names vote targets only, although a parameter change may drop
\* a denomination while votes for it stand (ApplyWhitelist runs after ClearBallots).
VotesNameTargets ==
    \A v \in Validators : votes[v] # None => DOMAIN votes[v].rates \subseteq Listed(tobinTaxes)

\* RewardBallotWinners pays out at most one period's share of the pool.
RewardsWithinBudget ==
    [][height' # height => \A d \in RewardDenoms :
        (pool[d] - pool'[d]) * RewardDistributionWindow <= pool[d] * VotePeriod]_vars

\* The EndBlocker never panics: no unsorted ballot, no division by a zero
\* median, no reward beyond the pool, no nil validator.
NeverHalts == ~halted

\* WeightedMedian splits a ballot: less than half of the power voted below it, and
\* no more than half, rounded up, above it.
Splits(pb) ==
    LET median == WeightedMedian(pb)
        total == BallotPower(pb)
        below == {i \in DOMAIN pb : pb[i].rate < median}
        above == {i \in DOMAIN pb : pb[i].rate > median}
    IN  total > 1 => /\ 2 * SumFunctionOnSet(Powers(pb), below) < total
                     /\ 2 * SumFunctionOnSet(Powers(pb), above) <= total + 1

\* It splits every ballot that Tally counts, the cross rates too, in the order that
\* ToCrossRateWithSort leaves them.
MedianSplits == EndOfPeriod => \A d \in DOMAIN Tallied.cross : Splits(Tallied.cross[d])

\* A validator that abstains on every vote target is not charged a miss and
\* gets no reward, whatever the others vote.
Abstains(v) ==
    votes[v] # None /\ votes[v].rates = [d \in Listed(tobinTaxes) |-> 0]

AbstainerAbsolved ==
    [][\A v \in Validators : height' # height /\ Abstains(v) =>
        /\ missCounters'[v] \in {missCounters[v], None}
        /\ EndOfPeriod => allocated'[v] = allocated[v]]_vars

-----------------------------------------------------------------------------
(* What the documents and comments of the repository say, and the code does not do *)

\* x/oracle/spec/03_end_block.md: the Luna exchange rate is set for each remaining
\* denomination with a passing ballot.
PassingBallotsPriced ==
    [][EndOfPeriod /\ (halted' \/ height' # height) =>
        \A d \in DOMAIN Tallied.cross : rates'[d] # None]_vars

===========================================================================
