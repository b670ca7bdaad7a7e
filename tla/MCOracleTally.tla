-------------------------- MODULE MCOracleTally --------------------------
(***************************************************************************)
(* The tally on its own: every set of votes that three validators may have *)
(* standing on the last block of the second vote period (each prevoted in  *)
(* block 1 and revealed in block 2), with or without a fee paid into the    *)
(* reward pool in that block, and the end of the block.                    *)
(***************************************************************************)
EXTENDS Oracle

CONSTANTS v1, v2, v3, ukrw, usdr

OddPower == [v \in {v1, v2, v3} |-> IF v = v1 THEN 3 ELSE 2]
LargeAndTwoSmall == [v \in {v1, v2, v3} |-> IF v = v1 THEN 4 ELSE 2]
TwoRank == [d \in {ukrw, usdr} |-> IF d = ukrw THEN 1 ELSE 2]
BothListed == [d \in {ukrw, usdr} |-> 0]
SameWhitelist == {BothListed}
Filled == [d \in {ukrw, usdr, Luna} |-> IF d = ukrw THEN 7 ELSE IF d = Luna THEN 10 ELSE 0]

TallyInit ==
    /\ status = [v \in Validators |-> "bonded"]
    /\ \E out \in SUBSET Restless : jailed = [v \in Validators |-> v \in out]
    /\ since = [v \in Validators |-> 0]
    /\ power = InitPower
    /\ height = 2 * VotePeriod - 1
    /\ feeder = [v \in Validators |-> v]
    /\ prevotes = [v \in Validators |-> None]
    /\ votes \in [Validators -> [rates : Tuples, submitBlock : {1}, revealBlock : {VotePeriod}] \cup {None}]
    /\ rates = [d \in Denoms |-> None]
    /\ tobinTaxes = InitWhitelist
    /\ whitelist \in Whitelists
    /\ missCounters = [v \in Validators |-> None]
    /\ pool = Filled
    /\ allocated = [v \in Validators |-> [d \in RewardDenoms |-> 0]]
    /\ halted = FALSE

TallyNext == EndBlock \/ \E amount \in Fees : ReceiveFee(usdr, amount)

TallySpec == TallyInit /\ [][TallyNext]_vars

===========================================================================
