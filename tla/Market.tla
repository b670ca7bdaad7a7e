----------------------------- MODULE Market -----------------------------
(***************************************************************************)
(* x/market: swaps between Luna and the Terra denominations at the rates   *)
(* of the oracle.  Every swap burns the coins offered and mints the coins  *)
(* asked; a swap with Luna on one side moves the virtual Terra pool, whose *)
(* distance from its base is TerraPoolDelta, and every block moves it part *)
(* of the way back.                                                        *)
(*                                                                         *)
(* A message that fails leaves no trace: the whole transaction is reverted. *)
(***************************************************************************)
EXTENDS Prices, FiniteSets, FiniteSetsExt, Functions

CONSTANTS Accounts,
          TobinTaxes,         \* the oracle's tobin taxes, None for no tax
          RateTables,         \* exchange rates the oracle may set, None for no rate
          BasePool, PoolRecoveryPeriod, MinStabilitySpread,
          ZeroSwapFails,      \* columbus from SwapDisableForkHeight on
          InitDelta, InitBalances,
          Offers,             \* amounts a message may offer
          MaxSwaps            \* bound on the swaps of a run

ASSUME MarketAssumption ==
    /\ IsFiniteSet(Accounts)
    /\ TobinTaxes \in [Terra -> (0..OneDec) \cup {None}]
    /\ RateTables # {} /\ RateTables \subseteq PriceTable
    /\ BasePool \in Nat
    /\ PoolRecoveryPeriod \in Nat \ {0}
    /\ MinStabilitySpread \in 0..OneDec
    /\ ZeroSwapFails \in BOOLEAN
    /\ InitDelta \in Int
    /\ InitBalances \in [Accounts -> [Denoms -> Nat]]
    /\ Offers \subseteq Nat \ {0}
    /\ MaxSwaps \in Nat

VARIABLES terraPoolDelta,
          balances,       \* the accounts' coins
          oracleAccount,  \* coins of the oracle module: the swap fees
          supply,
          rates,          \* the oracle's exchange rates, of Luna
          swaps           \* swaps so far

vars == <<terraPoolDelta, balances, oracleAccount, supply, rates, swaps>>

Held(d) == SumFunctionOnSet([a \in Accounts |-> balances[a][d]], Accounts) + oracleAccount[d]

Init ==
    /\ terraPoolDelta = InitDelta
    /\ balances = InitBalances
    /\ oracleAccount = [d \in Denoms |-> 0]
    /\ supply = [d \in Denoms |-> Held(d)]
    /\ rates \in RateTables
    /\ swaps = 0

-----------------------------------------------------------------------------
(* Computing a swap; None is an error *)

LunaExchangeRate(d) == LunaRate(rates, d)

ComputeInternalSwap(amount, offerDenom, askDenom) ==
    InternalSwap(rates, amount, offerDenom, askDenom)

\* A swap between Terra denominations pays the higher tobin tax of the two.
TobinSpread(offerDenom, askDenom) ==
    LET taxes == {TobinTaxes[offerDenom], TobinTaxes[askDenom]}
    IN  IF None \in taxes THEN None ELSE Max(taxes)

\* The constant product of the two pools, both in SDR, fixes what a swap with
\* Luna returns; the spread is what that falls short of the oracle's price.  An
\* empty Terra pool, or an offer that leaves its pool empty, makes ComputeSwap
\* divide by zero: it panics, and the message fails.
PoolSpread(baseOffer, offerDenom) ==
    LET cp == Mul(BasePool, BasePool)
        terraPool == BasePool + terraPoolDelta
        lunaPool == Quo(cp, terraPool)
        offerPool == IF offerDenom = Luna THEN lunaPool ELSE terraPool
        askPool == IF offerDenom = Luna THEN terraPool ELSE lunaPool
        askBaseAmount == askPool - Quo(cp, offerPool + baseOffer)
    IN  IF terraPool = 0 \/ offerPool + baseOffer = 0 THEN None
        ELSE Max({MinStabilitySpread, Quo(baseOffer - askBaseAmount, baseOffer)})

\* What a swap returns before the spread, and the spread.
ComputeSwap(amount, offerDenom, askDenom) ==
    LET baseOffer == ComputeInternalSwap(NewDec(amount), offerDenom, SDR)
        ret == IF baseOffer = None THEN None
               ELSE ComputeInternalSwap(baseOffer, SDR, askDenom)
        spread == IF Luna \notin {offerDenom, askDenom} THEN TobinSpread(offerDenom, askDenom)
                  ELSE PoolSpread(baseOffer, offerDenom)
    IN  IF ret = None \/ spread = None THEN None ELSE [amount |-> ret, spread |-> spread]

-----------------------------------------------------------------------------
(* Messages *)

\* Mutant: the Terra pool loses what is offered, not what is returned.
ApplyOfferToPool(amount, offerDenom, ask, askDenom) ==
    LET base == ComputeInternalSwap(NewDec(amount), offerDenom, SDR)
    IN  IF Luna \notin {offerDenom, askDenom} THEN terraPoolDelta
        ELSE IF base = None THEN None
        ELSE IF askDenom = Luna THEN terraPoolDelta + base
        ELSE terraPoolDelta - base

\* The pool after a swap that returns the decimal amount ask; None is an error.
ApplySwapToPool(amount, offerDenom, ask, askDenom) ==
    LET base == IF askDenom = Luna THEN ComputeInternalSwap(NewDec(amount), offerDenom, SDR)
                ELSE ComputeInternalSwap(ask, askDenom, SDR)
    IN  IF Luna \notin {offerDenom, askDenom} THEN terraPoolDelta
        ELSE IF base = None THEN None
        ELSE IF askDenom = Luna THEN terraPoolDelta + base
        ELSE terraPoolDelta - base

\* Mutant: the fee is not taken from what the trader gets.
SwapCoinsFeeOnTop(swap) ==
    LET fee == IF swap.spread > 0 THEN Mul(swap.spread, swap.amount) ELSE 0
    IN  [ret |-> swap.amount, swapCoin |-> TruncateInt(swap.amount), feeCoin |-> TruncateInt(fee)]

\* The coins of a swap: the trader's and the fee, which takes the decimals the
\* trader's loses.  A negative amount is no coin: the message panics and fails.
SwapCoins(swap) ==
    LET fee == IF swap.spread > 0 THEN Mul(swap.spread, swap.amount) ELSE 0
        ret == swap.amount - fee
        swapCoin == TruncateInt(ret)
    IN  [ret |-> ret, swapCoin |-> swapCoin,
         feeCoin |-> TruncateInt(fee + ret - NewDec(swapCoin))]

\* SendCoinsFromAccountToModule succeeds.
CanSend(trader, amount, d) == amount <= balances[trader][d]

MintCoins(coins) == coins.swapCoin + coins.feeCoin

HandleSwapRequest(trader, receiver, amount, offerDenom, askDenom) ==
    /\ swaps < MaxSwaps
    /\ offerDenom # askDenom
    /\ LET swap == ComputeSwap(amount, offerDenom, askDenom)
           coins == SwapCoins(swap)
           delta == ApplySwapToPool(amount, offerDenom, coins.ret, askDenom)
       IN  /\ swap # None /\ coins.ret >= 0 /\ delta # None
           /\ CanSend(trader, amount, offerDenom)
           /\ ZeroSwapFails => coins.swapCoin > 0
           /\ terraPoolDelta' = delta
           /\ balances' =
                LET paid == [balances EXCEPT ![trader][offerDenom] = @ - amount]
                IN  [paid EXCEPT ![receiver][askDenom] = @ + coins.swapCoin]
           /\ oracleAccount' = [oracleAccount EXCEPT ![askDenom] = @ + coins.feeCoin]
           /\ supply' = [supply EXCEPT ![offerDenom] = @ - amount,
                                       ![askDenom] = @ + MintCoins(coins)]
    /\ swaps' = swaps + 1
    /\ UNCHANGED rates

Swap(trader, amount, offerDenom, askDenom) ==
    HandleSwapRequest(trader, trader, amount, offerDenom, askDenom)

SwapSend(from, to, amount, offerDenom, askDenom) ==
    HandleSwapRequest(from, to, amount, offerDenom, askDenom)

-----------------------------------------------------------------------------
(* The end of a block *)

\* Mutant: only a full pool is brought back.
ReplenishFullPool ==
    terraPoolDelta' = IF terraPoolDelta < 0 THEN terraPoolDelta
                      ELSE terraPoolDelta - QuoInt(terraPoolDelta, PoolRecoveryPeriod)

ReplenishPools ==
    terraPoolDelta' = terraPoolDelta - QuoInt(terraPoolDelta, PoolRecoveryPeriod)

\* The oracle's EndBlocker, which may set new rates, then the market's.
EndBlock ==
    /\ rates' \in RateTables
    /\ ReplenishPools
    /\ UNCHANGED <<balances, oracleAccount, supply, swaps>>

Next ==
    \/ \E a \in Accounts, n \in Offers, d, e \in Denoms : Swap(a, n, d, e)
    \/ \E a, b \in Accounts, n \in Offers, d, e \in Denoms : SwapSend(a, b, n, d, e)
    \/ EndBlock

Spec == Init /\ [][Next]_vars

\* Blocks keep coming; nobody has to swap.
FairSpec == Spec /\ WF_vars(EndBlock)

-----------------------------------------------------------------------------
(* Properties *)

\* ComputeSwap divides by the Terra pool: no sequence of swaps empties it,
\* whatever the spread, the fees withheld and the rounding.
TerraPoolPositive == BasePool + terraPoolDelta > 0

\* What a swap mints, for the trader and as a fee, is worth no more at the rates
\* of the oracle than what it burns.
MintedWorthNoMore ==
    [][\A d, e \in Denoms : supply'[d] < supply[d] /\ supply'[e] > supply[e] =>
        (supply'[e] - supply[e]) * LunaExchangeRate(d)
            <= (supply[d] - supply'[d]) * LunaExchangeRate(e)]_vars

\* The pool comes back to its base once the swaps stop, up to what the truncated
\* division of ReplenishPools leaves: less than PoolRecoveryPeriod units of 10^-18.
PoolsReplenish ==
    <>[](-PoolRecoveryPeriod < terraPoolDelta /\ terraPoolDelta < PoolRecoveryPeriod)

===========================================================================
