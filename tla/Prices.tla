----------------------------- MODULE Prices -----------------------------
(***************************************************************************)
(* What coins are worth at the exchange rates of the oracle: the price of  *)
(* one Luna in each Terra denomination, None where the last tally set none. *)
(* x/market and x/treasury share these conversions.                        *)
(***************************************************************************)
EXTENDS Dec

CONSTANTS Terra,              \* Terra denominations
          Luna, SDR,          \* uluna, and usdr, the unit of account
          None

Denoms == Terra \cup {Luna}

ASSUME PricesAssumption == Luna \notin Terra /\ SDR \in Terra /\ None \notin Int

\* The exchange rates the oracle may hold.
PriceTable == [Terra -> (Nat \ {0}) \cup {None}]

\* GetLunaExchangeRate: Luna is worth one Luna.
LunaRate(prices, d) == IF d = Luna THEN OneDec ELSE prices[d]

\* ComputeInternalSwap, without spread; None is an error.
InternalSwap(prices, amount, offerDenom, askDenom) ==
    LET offerRate == LunaRate(prices, offerDenom)
        askRate == LunaRate(prices, askDenom)
        retAmount == Quo(Mul(amount, askRate), offerRate)
    IN  IF offerDenom = askDenom THEN amount
        ELSE IF None \in {offerRate, askRate} \/ retAmount <= 0 THEN None
        ELSE retAmount

===========================================================================
