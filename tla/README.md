# Verification of Terra Core

TLA+ specifications of the chain in this repository (`x/`, `custom/`), of its
generated message codecs and of the genesis exporter (`app/export`), the TLC runs
that check them on small instances, and TLAPS proofs of what holds for every value
of the parameters. All paths below are relative to `src/`.

## 1. Inventory

| Component | State it keeps | Operations | Interacts with |
|---|---|---|---|
| `x/oracle` | feeder delegations, prevotes, votes, exchange rates, tobin taxes (the vote targets), miss counters; its module account is the reward pool | three messages; the EndBlocker (tally, misses, rewards, clearing, whitelist, slashing) | reads and slashes validators (staking), pays distribution, receives swap fees |
| `x/market` | `TerraPoolDelta` | `MsgSwap`, `MsgSwapSend`; replenishing every block | oracle rates and tobin taxes; mints and burns through bank |
| `x/treasury` | tax rate and caps, reward weight, tax proceeds, epoch issuance, indicators | EndBlocker: burn account, indicators, seigniorage, policy updates; genesis export and import | oracle prices, staking totals, ante handler |
| `custom/auth/ante` | per-validator heights of oracle messages seen by CheckTx | taxes, spam prevention, over CheckTx, ReCheckTx and DeliverTx | treasury, oracle |
| `x/wasm` | codes, contracts, instance counter, contract stores | store, instantiate, execute, migrate, admin; dispatch of sub-messages with replies | bank, treasury taxes, every module a contract may call |
| `x/vesting` | lazy graded vesting accounts | vested, vesting and locked coins; delegation tracking | bank, staking |
| `*.pb.go` | none: Marshal, Size and Unmarshal of 115 messages | writing into a buffer, reading from one | every store, transaction and query |
| `app/export` | snapshots per protocol, blacklist, a directory of files | a long pipeline of exports, audits, merges | contract stores, bank, staking |
| `app/export.go`, `custom/*`, `cmd`, clients, `legacy`, `simulation` | none of their own | zero-height export, wiring, input and output | |

What makes them correct, and what is hard:

* **oracle** – votes are committed before any is revealed; clearing drops exactly
  what is dead; a counter belongs to an existing validator and to one window; the
  EndBlocker never panics; a rate splits the power of its voters; payouts stay within budget. Hard:
  messages of several validators across period boundaries, validators that
  unbond, parameter changes in mid-period, rounding.
* **market** – the virtual pool is never emptied; a swap creates no value; the
  pool recovers. Hard: rounding.
* **treasury** – proceeds and seigniorage are those of one epoch, whatever the order
  of steps at its end; no Luna appears or vanishes; the policies move by bounded
  steps; an exported state can go on. Hard: the deferred call at the end of an
  epoch, the probation's early return, division by epochs without activity.
* **ante** – what is recorded as tax was paid; what waits in the mempool pays the
  tax of now; an oracle message is free once a height. Hard: three modes over two
  states, maps outside the state, epochs that end between check and delivery.
* **wasm** – a failed sub-message leaves nothing behind, at any depth; instance ids
  are unique; a contract without an administrator stays; gas fits its meters; a
  transaction ends. Hard: calls that call back, caches over caches, meters inside
  meters, panics that unwind through them.
* **vesting** – never more vested than granted, monotone and linear in time;
  locked coins cannot be spent through delegations.
* **codecs** – Size agrees with Marshal; Unmarshal returns what was written, skips
  what it does not know, notices what is missing, stays in its slice and ends.
* **exporter** – every holding counted once, also after a restart from the files.

`PROJECT.json` lists each hazard at its line, and for each definition the code it
stands for.

## 2. Modules

| Module | Models |
|---|---|
| `Dec` | `sdk.Dec` (external): fixed point with the library's rounding; `Unit` is 10^18 there and small in the runs |
| `Periods` | blocks, vote periods and epochs (`types/util/blocks.go` and its users) |
| `Staking` | what the oracle sees of the validator set (external): bonded, unbonding, unbonded, removed; jailed |
| `OracleBallot` | `types/ballot.go`, `tally.go`: sorting, median, deviation, cross rates, winners |
| `Oracle` | `x/oracle`: messages and the EndBlocker; composes `OracleBallot` and `Staking` |
| `Prices` | the oracle's rates as market and treasury read them, and internal swaps |
| `Market` | `x/market`: swaps and the virtual pool |
| `PolicyLever` | abstract: a rate that moves by bounded steps within changing bounds |
| `Treasury` | `x/treasury`; implements `PolicyLever` twice |
| `Ante` | the ante handler and the mempool of one node; extends `Treasury` |
| `Savepoints` | abstract: nested calls as savepoints of one log of writes |
| `WasmDispatch` | `x/wasm`; implements `Savepoints` |
| `Vesting` | `x/vesting` accounts in a bank with delegations and slashes |
| `Fields` | the kinds of field a codec treats |
| `MarketTypes`, `OracleTypes`, `TreasuryTypes`, `WasmTypes`, `VestingTypes`, `TxServiceTypes` | three tables for each message: what its Marshal writes, what its Size counts, what its Unmarshal looks for |
| `Wire`, `WireWriter`, `WireReader` | what the functions of all messages have in common: numbers of seven bits a byte, filling a buffer from its end, reading a slice with its inner calls, skipping |
| `Codec` | a writer, a delivery and a reader |
| `Snapshots` | `app/export/util`: balances, merging, removal |
| `ExportProtocols`, `ExportVaults` | what each protocol's exporter attributes, as operators |
| `Export` | the pipeline, its files, its blacklist, kills and restarts |
| `Stacks` | a sequence as a stack, for `Savepoints` and `WasmDispatch` |
| `ArithmeticTheorems` | lemmas: division, periods, induction, sums, rounding, shares of an amount, halves of a sum |
| `OracleProofs`, `MarketProofs`, `TreasuryProofs`, `AnteProofs`, `DispatchProofs`, `VestingProofs`, `WireProofs` | theorems |
| `MC*` | instances for TLC |

**Oracle.** Each store is a function from its key to a record or `None`. A step is
one message handler, one parameter change, one staking transaction, one fee
received, or the end of a block: `EndBlock` is the oracle's whole EndBlocker
followed by the staking module's, in the order of `app/app.go`. A panic there
stops the chain (`halted`). `votes` also carries the heights of prevote and
reveal, history that only properties read. The hash of a vote is injective and
its salt left out.

**Market.** A message that fails leaves no trace, so it is no step. A panic in a
handler, a division by an empty pool included, is recovered and fails the message: `None`. `EndBlock` lets the oracle
choose new rates, then replenishes.

**Treasury.** A block is a few transactions (a tax, a swap, a transfer to the burn
account), then `EndBlock`: governance may replace a policy, the oracle may set
rates, the treasury settles. `Restart` exports the module's state and imports it.
`taxLog` and `destroyed` are history for the properties.

**Ante.** CheckTx runs on a copy of the last committed state, DeliverTx on the
block's. A block may hold transactions this node never checked. After a block the
mempool is checked again; a restart of the node empties it, and the maps. The messages
of a transaction are one list, those inside a `MsgExec` behind it: taxes are taken of
all of them, and both the exemption and the spam prevention stop at the `MsgExec`.

**WasmDispatch.** `stack` is the keeper's call stack, `caches` the cached stores
over `chain`, `meters` those of the gas. A step is the handling of a message, one
return of the virtual machine, one dispatch, one reply, one return or one failure.
The machine may do anything it may do: return messages, fail, run out of gas,
panic.

**Codecs.** A message is a function of the fields that are set. The tables were
taken from the text of the generated functions, each from its own: nothing says
beforehand that the three of a message agree. `WireWriter` and `WireReader` make
one step a field or a call. Messages and numbers of cosmos-sdk inside a message
are bytes their own codecs accept.

**Export.** A chain is a record of what its contracts hold. The process makes one
step a protocol, with a file each; it can be killed between steps and while it
writes. What a protocol attributes is computed by an operator, audit included.

Operators whose comment begins with "Mutant" are deliberate faults, used to show
that the properties can fail; no specification uses them.

## 3. Runs

`tlc -workers 2 -config <run>.cfg <module>`; the module of each run is in
`PROJECT.json`, with a fault that each property detects.

| Run | Instance | States | Shows |
|---|---|---|---|
| `OracleVotes` | 2 validators, one restless (jailed, unbonding, removed, back), VotePeriod 2, SlashWindow 4, unbonding 3, 8 blocks; whitelist and feeder changes | 811,352 | `CommittedBeforeReveals`, `VotesNameTargets`, `PrevotesExpire`, `RevealablePrevotesKept`, `MissesBounded`, `MissCounterOwnerExists`, `SlashedIffBelowMinimum` |
| `OracleTally` | 3 validators, 2 denominations, rates 0 (abstain), 1, 2, 4, threshold 60%, one may be jailed, a fee | 67,506 | `NeverHalts`, `MedianSplits`, `AbstainerAbsolved`, `RewardsWithinBudget` |
| `Market` | Unit 100, BasePool 1000, recovery 2 blocks, offers 3 and 20, 3 swaps, 2 accounts | 435,410 | `TerraPoolPositive`, `MintedWorthNoMore`, `PoolsReplenish` |
| `Treasury` | epochs of 2 blocks, windows 1 and 2, probation 1, 6 blocks, 2 transactions, 1 restart | 243,672 | `ProceedsOfEpoch`, `SeigniorageOfEpoch`, `LunaAccounted`, `NeverHalts`, `GenesisRoundTrip`, `PolicyLevers` |
| `Ante` | the treasury with a mempool of 2, 3 blocks, 1 restart of the node | 208,594 | `ProceedsCovered`, `MempoolPaysTax`, `OneFreePerHeight` |
| `WasmDispatch` | instance ids of 1 bit, gas 3 for a contract and for a transaction, limit 1, 2 sub-messages, 2 transactions | 949,520 | `InstanceIdsUnique`, `GasFits`, `ContractsKept`, `NoAdminNoChange`, `CallsSpec`, `TxEnds` |
| `Vesting` | Unit 100, nine decimals scaled to one, 7 seconds, several schedules, some of whose ratios only round to one: of these one vests more than it has | 103,327 | `VestedNearOriginal`, `LockedHeld`, `VestedIsLinear`, `VestedMonotone` |
| `Export` | three chains (before and after the attack, and one with what the exporters misread), a position of 2 users in every protocol, 2 kills, a rerun | 76,935 | `HoldingsCountedOnce`, `RerunSame`, `ExportEnds` |
| `Codec` | all 115 messages with none, each and all fields set; numbers of 15 bits, field keys of 8 | 219,059 | `ReadWithin`, `RoundTrip`, `CutOffShows`, `ReadEnds` |

**Why the bounds are enough.** OracleVotes holds four periods, so that a prevote can
be too early, right and too late, two windows, and an unbonding that ends in the
second. OracleTally
is exhaustive in its votes; three voters are the fewest with a median that is not an
extreme and a passing ballot one of them did not vote in. Treasury holds three epochs:
the probation, the first update, the second. WasmDispatch's ids wrap, its gas runs
out at every depth, and a call can call back. Codec's numbers take up to three bytes
of which the last is partly lost, as 64 bits are nine times seven and one; every
error of the generated code is reached. Export keeps one position per protocol, and
enough users for shares to round.

**What depends on the instance.** `NeverHalts` of OracleTally needs a threshold above
one half (see OracleZeroMedian) and rates whose quotients do not round to zero.
`MedianSplits` is claimed for a total power above one. `MintedWorthNoMore` and
`TerraPoolPositive` need offers that no rounding lifts to the next coin and a pool that is
deep beside them. Section 4 says exactly what each of these takes. `MissCounterOwnerExists` needs
`UnbondingAssumption`: unbonding lasts as long as a slash window, which is so by
default and which no parameter check enforces. `VestedNearOriginal` takes any account
that `Validate` accepts: an account with exact ratios, or fewer coins than the precision of
the check on them, vests what it was granted and no more; any other may miss that by what the
check lets pass, one coin in every two times `FixedPoint`. Export takes chains on which every other
registered address is a contract, and whose sums differ from the supply (see 5,
`AssertNativeSupply`). `HoldingsCountedOnce` excepts by name what the exporters do not
reach (`Unreached`) and whose nLUNA they misread (`Miscounted`); both happen in the run,
and the other accounts are not affected by either. `NoAdminNoChange` meets nested clearing of
an admin in its run; nested migrations are left to the theorem.

**Deadlock** is checked, except where a model stops at its bound (the last block, the
last transaction) or where the code is done.

**Fairness.** Market: weak fairness of `EndBlock`, as blocks keep being made.
WasmDispatch: of `Step`, as a node goes on with a transaction it has begun. Codec: of
`Reads`, as an `Unmarshal` goes on. Export: no process runs for ever, and the operator
starts it again when it stopped short. Nothing else is assumed: no message, no swap and
no call has to happen.

**Refinement.** `PolicyLevers` says that Treasury implements `PolicyLever` for the tax
rate and for the reward weight; `CallsSpec` that WasmDispatch implements `Savepoints`,
its stores being the log of writes. Both are also proved (section 4).

**Disagreements with the code's own documents**, each a run that must fail:

* `OracleZeroMedian`: at the default threshold of one half two passing ballots may
  have no voter in common. The cross ballot has no power, its median is zero and
  `abci.go:95` divides by it; `x/oracle/spec/03_end_block.md:20-24` says that every
  passing ballot sets its rate.
* `TreasuryStep`: `constraint.go:29` limits the step first and the bounds last, so that
  after a change of policy the rate may jump by more than ChangeRateMax;
  `x/treasury/spec/03_end_block.md:113-135` prints Clamp the other way round.
  `PolicyLevers` says what the code does.
* `ExportRerun`: a snapshot read from its file skips the exporter that registers the
  addresses to leave out. The wallet of `contract_export_angel_vaults.go:16`, no
  contract, then keeps what was attributed to the owners of the endowments.

**Smaller ones**, met while reading and modelled as the code has them:

* oracle: a target nobody votes for charges everybody a miss (`tally.go:64`), the
  whitelist is compared with targets the tally has thinned (`keeper/ballot.go:81`),
  `slash.go:13` cuts a window that VotePeriod does not divide (spec/01_concepts.md:52),
  a prevote of a period's last block outlives the period it could be revealed in
  (`keeper/ballot.go:62`, spec/03_end_block.md:33), half of an odd power is rounded
  down (`types/ballot.go:107`); a change of VotePeriod renumbers
  periods between prevote and reveal.
* market: the spread is paid to the oracle, where spec/01_concepts.md:77 has it
  burned; with a recovery period of one block the delta does become zero, against
  the comment at `keeper.go:90`.
* treasury: a cap is stale while its denomination has no rate (`policy.go:15-20`,
  spec/02_state.md:21) and so are proceeds (`indicator.go:30`);
  what is not for the community pool is burned, not given to the oracle
  (`seigniorage.go:34-41`); the weight is scaled by b·R/S, where the document has
  b·S/R.
* ante: the height is recorded before the rest of the transaction is checked
  (`spamming_prevention.go:77`), so that a refused one keeps a good one out.
* wasm: taxes on messages a contract dispatches are deducted and not recorded
  (`connector.go:133`); "make sure we charge the parent what was spent" (`connector.go:114`) does
  not reach the gas of a nested contract that failed, whose meter the message server
  drops (`msg_server.go:115`).
* vesting: ratios need only round to one at nine decimals (`schedule.go:112`), so a
  large account may end with less than `vesting_account_test.go:46` expects, or vest more
  than it has, at which `vesting_account.go:99` panics.
* exporter: see section 5.

## 4. Proofs

`tlapm <module>.tla`. A theorem holds for all values of the constants that satisfy the
named assumptions; where the last column is empty they are those of the row above.

| Theorem | Statement | Assumes |
|---|---|---|
| `OracleProofs!StoreTypes` | the stores keep their types | `OracleAssumption`, `StakingAssumption` |
| `CommitReveal` | `CommittedBeforeReveals` | |
| `PrevotesAreCleared`, `NoLostPrevote` | `PrevotesExpire`, `RevealablePrevotesKept` | |
| `VotesAreForTargets` | `VotesNameTargets` | |
| `MissesAreBounded` | `MissesBounded` | |
| `SlashingIsExact` | `SlashedIffBelowMinimum` | and that VotePeriod divides SlashWindow |
| `MissCounterOwners` | `MissCounterOwnerExists` | and `UnbondingAssumption` |
| `MediansSplit` | `MedianSplits` | `OracleAssumption`, `StakingAssumption` |
| `AbstainersAreAbsolved` | `AbstainerAbsolved` | |
| `RewardsAreWithinBudget` | `RewardsWithinBudget` | and `ParamsAssumption`, `RoundingsVanish` |
| `HaltsOnlyOnZeroMedian` | `NeverHalts` while no cross ballot has the median zero | and `UnbondingAssumption` |
| `NoHalt` | `NeverHalts` while `MajoritiesOverlap` | and `CrossRatesPositive` |
| `MarketProofs!SupplyIsHeld` | types, and that the supply of a coin is what the accounts and the oracle hold of it | `MarketAssumption`, `PricesAssumption` |
| `MintsWhatItBurns` | a swap mints no more than what it burns is worth and the roundings of its conversions | |
| `ClearOffersMintNoMore` | `MintedWorthNoMore` | and `OffersClear` |
| `ReplenishApproaches` | a block's end brings the pool nearer to its base, never past it, down to what truncation leaves | `MarketAssumption`, `PricesAssumption` |
| `DeepPoolStaysPositive` | `TerraPoolPositive` while `DeepPool` | and a positive base and a positive pool at first |
| `TreasuryProofs!TaxRateImplements`, `RewardWeightImplements`, `LeversImplement` | `PolicyLevers` | `TreasuryAssumption` |
| `ProceedsAreTheEpochs`, `SeigniorageIsTheEpochs` | `ProceedsOfEpoch`, `SeigniorageOfEpoch` | |
| `SettlementsAccountForLuna` | `LunaAccounted` | |
| `ExportLosesNothing` | `GenesisRoundTrip` | |
| `TreasuryNeverHalts` | `NeverHalts` while `InProportion` | and `RatesWithinOne`, a burden target a decimal can hold |
| `AnteProofs!ProceedsArePaid` | `ProceedsCovered` | and `AnteAssumption` |
| `EpochsOfTheComposition` | `ProceedsOfEpoch`, `SeigniorageOfEpoch`, of the composition | |
| `WaitingPaysTax`, `NoFreeRepeats` | `MempoolPaysTax`, `OneFreePerHeight` | |
| `DispatchProofs!DispatchInvariant` | `DispatchInv` | `DispatchAssumption`, `GenesisAssumption` |
| `InstanceIds`, `ContractsAreKept`, `UnadministeredStay` | `InstanceIdsUnique`, `ContractsKept`, `NoAdminNoChange` | |
| `CallsAreSavepoints` | `CallsSpec` | |
| `NestedGasFits` | `GasFits` | |
| `VestingProofs!VestingCoinsHeld`, `VestedStaysVested`, `VestingIsLinear` | `LockedHeld`, `VestedMonotone`, `VestedIsLinear` | `VestingAssumption` |
| `AllOfItVests` | `VestedNearOriginal` | |
| `WireProofs!ReaderStaysWithin` | `ReadWithin`, for a reader that is given any bytes | `WireAssumption` |

*Oracle.* `CommittedBeforeReveals` speaks of standing votes; `RevealInv` says
that each was revealed in the current period and committed in the one before, which
orders any two of them. `MissOwnerInv` says why the owner of a counter exists: it is
bonded, or it began to unbond in this window, which unbonding outlasts.
`SlashedIffBelowMinimum` compares whole numbers where the code rounds a quotient: the
two agree because the minimum is itself a decimal, and because `MissesBounded` keeps the
unsigned subtraction from wrapping around.

`MediansSplit` follows a ballot through the sort and the conversion to cross rates: the
sorted sequence holds each voter once, so the power before a place is a sum over voters,
and the median is the first place where that sum reaches half. `RewardsAreWithinBudget`
sums the shares of the winners, each the product of two rounded quotients, truncated.
`HaltsOnlyOnZeroMedian` leaves a single way for the EndBlocker to panic, the division of
`OracleZeroMedian`: no ballot is tallied unsorted, no reward exceeds the pool, no miss
counter has lost its validator. `NoHalt` closes it: with more than half of the power behind each,
two ballots share a voter, its cross rate is not zero, and with more than one unit of
power the rounded-down half is not zero either.

*Market.* `MarketInv` is the types with `SupplyHeld`, so that what an account spends is
there to be burned. A swap converts twice over the SDR, rounding each time and truncating
at the end: `WithinRounding` bounds what that adds, for every rate and amount.
`DeepPoolStaysPositive` compares what the constant product leaves in the pool with what
the roundings can still take; the hypothesis is asked only of states whose pool is
positive, so that it does not assume what is shown.

*Treasury.* `LeverInv` keeps the rates natural and the policies among those that
governance may set; that Clamp then moves a lever as allowed is a lemma. `EpochInv`
adds that nothing is recorded yet for epochs to come and no indicator for the current
one, which is what makes the two properties inductive at an epoch's end. `LunaInv` is
`LunaAccounted`, two sums over the epochs: a transaction changes one term of them, and a
settlement, at the end of an epoch, moves that epoch into the sum of the ended ones.
`IndicatorInv` keeps the indicators natural and both rates within one; the quotients of
the policy updates then fit into a decimal, and the settlement burns no more than it minted.

*Ante.* Three invariants, one on top of the other. `ProceedsInv` is the treasury's, with
the caps and the coins collected: a transaction adds its tax to one epoch and its fee,
which covers the tax, to the collector. `PoolInv` says that the transactions of the mempool
are distinct and pay; what ReCheckTx leaves is a part of it whose members still do, by
induction along the mempool. `FreeInv` says why the maps know enough: a free transaction in
the mempool left its height in them, and only a later height replaces it (`Tracked`).

*Wasm.* No property of a store is inductive by itself, since a failed call brings an
older store back. `DispatchInv` therefore says of **every** store on the way, the
chain's and each cache's, that it is well formed and that each grew out of the one
below it (`Nested`), and that the call stack accounts for the caches (`Stacked`). A
commit then replaces a store by one that grew out of it, a roll back drops one.
The first part of the module holds what a single write does to a store. `GasInv` says which meters
belong to which call (`Floored`) and that each meter's limit is within what the meter below
has left (`Fit`), so that what a call has used can be charged below it when it ends.

*Vesting.* `Held` is the types and `LockedHeld` itself. It rests on lemmas about decimals:
rounding to the nearest, half to even, is monotone, exact on whole numbers and never off by more
than a half; so a schedule's share grows with time and the sum of the shares with them.
`VestingIsLinear` adds the errors up: each schedule's share is off by what its quotient and
its product round, and the final rounding to a coin by a half. `AllOfItVests` rests on how far a
sum of ratios can be from one when it rounds to one (`NearlyAllVests`).

*Codecs.* `ReaderInv` is `ReadWithin` with what keeps it: each call's slice lies within
the bytes, whose number is an `int`. A length that is read is an `int` too, so that the
sum of the two either is exact or has become negative, which the generated code looks
for. The theorem speaks of the reader alone (`ReaderSpec`), called with any bytes for any
type; the reading steps of `Codec` are steps of it.

`ArithmeticTheorems` proves the induction it needs as sets (`SetInduction`,
`SubsetInduction`) and with it that a fold of additions is a sum in any order.

**What the hypotheses mean for the chain.** TLC evaluated each of them on its instance,
and it holds there in every state that is reached.

| Hypothesis | Says | On the chain |
|---|---|---|
| `RoundingsVanish` | reward window times validators is below twice the unit of decimals | 10^7 blocks and 130 validators against 10^18 |
| `MajoritiesOverlap` | the threshold is above half of the bonded power, and no claimed power is exactly one | not by default: `params.go:35` has one half, `params.go:94` only demands a third |
| `CrossRatesPositive` | no quotient of two rates rounds to zero | rates closer together than 18 decimals |
| `RatesWithinOne` | `RateMax` of both policies is at most one | so by default; `params.go:136-180` does not check it |
| `InProportion` | the taxes of the epochs fit into decimals, and exceed no epoch's seigniorage, unless that is zero, by more than the precision | both are amounts of SDR, far less than 10^18 apart |
| `OffersClear` | no offer is worth so little less than a whole coin that rounding makes it one | false for some offers: what then appears is part of one coin, within the bound of `MintsWhatItBurns` |
| `DeepPool` | what a swap leaves in the pool exceeds its roundings | the pool is 10^12 usdr by default, and a rounding 10^-18 of one; `BasePool` may be zero (`params.go:65`), where every swap with Luna fails |

**Only model-checked**, and why:

* liveness (`PoolsReplenish`, `TxEnds`, `ReadEnds`, `ExportEnds`): it rests on fairness.
* `HoldingsCountedOnce` and `RerunSame`: they are about the list of protocols as it is.
* `RoundTrip` and `CutOffShows`: Size is a recursive operator, and what the tables of each
  message say is a matter of the 115 tables.

## 5. Not modelled

* Command line, REST, queries and simulation; legacy migrations; module wiring;
  service stubs, descriptors and getters of the `.pb.go` files: no state of the chain.
* `app/export.go`: a sequence of calls to staking and distribution of cosmos-sdk.
* Oracle and market parameters other than the whitelist are constants, so a change of
  VotePeriod or SlashWindow in mid-flight is not explored.
* Wasm: queries, events, pinning, genesis, and what is inside a contract.
* Codecs: the formats of cosmos-sdk's own types inside a message.
* Exporter: the formats of contract stores and the paging of queries. Left as
  observations, since nothing in the repository says otherwise or no run can show
  them in one export:
  * `AssertNativeSupply` panics exactly when the supply matches (`export_util.go:359`);
  * the list of pairs is kept in `./terraswap-lp.json` whatever the height
    (`contract_export_terraswap_lp.go:74`), as is tfm's;
  * a torn second file of a compounder makes every later run panic
    (`export_util.go:507`; `ExportEnds` leaves it out);
  * the ratio of cnLUNA is inverted (`nexus.go:50`), NLUNA is not blacklisted although
    `nexus.go:79` says so, and nLUNA in Astroport pairs is converted twice: `Miscounted`;
  * `singleStakingSnapshot` (`contract_export.go:70`) and `starTerraSs` (116) are never
    merged, Loop adds farming LP only for accounts that have a balance of LP
    (`contract_export_loop_lp.go:135`), Prism asks only those with one of cLUNA or its LP
    what they unbond (`prism.go:277`), and of LP in TFM's farms only some UST is found
    (`contract_export_tfm_farm.go:76`): `Unreached`;
  * Lido's rewards are computed and dropped;
  * several audits are never called (Pylon, OnePlanet) or their errors dropped (Prism,
    Lido, Kujira, Suberra); White Whale and Edge overwrite what their administrator
    holds; the treasury of Terra Floki has the fault of ExportRerun too.

## 6. Plan

1. A run of the oracle in which VotePeriod and SlashWindow change.
2. The zero-height export over an abstract staking and distribution.
