----------------------------- MODULE MCAnte -----------------------------
(* An instance of Ante: the tax rate rises after every epoch of two blocks. *)
EXTENDS Ante, TLC

CONSTANTS sdr, krw, alice, v1

MCTerra == {sdr, krw}
C(x, y) == (sdr :> x @@ krw :> y)

MCRateTables == {C(100, 300)}
MCTaxPolicies ==
    {[RateMin |-> 10, RateMax |-> 40, ChangeRateMax |-> 10, CapDenom |-> sdr, CapAmount |-> 3]}
MCRewardPolicies ==
    {[RateMin |-> 5, RateMax |-> 50, ChangeRateMax |-> 20, CapDenom |-> sdr, CapAmount |-> 0]}
MCInitBalance == [p \in {alice} |-> C(30, 40)]
MCMinGasPrices == C(50, 150)

Send(x, y) == [type |-> "send", coins |-> C(x, y)]
Oracle(type, v) == [type |-> type, validator |-> v, feederOk |-> TRUE]
Signed(msgs, fee, gas) == [payer |-> alice, msgs |-> msgs, fee |-> fee, gas |-> gas]

\* A fee that covers the first tax only; a nested send in the other denomination; oracle
\* messages, alone, together, twice, from a stranger, and before a send.
MCTxs ==
    {Signed(<<Send(20, 0)>>, C(2, 3), 2),
     Signed(<<[type |-> "exec"], Send(0, 20), Send(5, 0)>>, C(1, 9), 2),
     Signed(<<Oracle("prevote", v1)>>, C(0, 0), 2),
     Signed(<<Oracle("prevote", v1), Oracle("vote", v1)>>, C(0, 0), 3),
     Signed(<<Oracle("vote", v1), Oracle("vote", v1)>>, C(0, 0), 4),
     Signed(<<Oracle("prevote", v1), [Oracle("vote", v1) EXCEPT !.feederOk = FALSE]>>, C(0, 0), 1),
     Signed(<<Oracle("vote", v1), Send(10, 0), Oracle("vote", v1)>>, C(4, 0), 2)}

===========================================================================
