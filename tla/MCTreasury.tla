--------------------------- MODULE MCTreasury ---------------------------
(* Instances of Treasury: epochs of two blocks, the first one in probation. *)
EXTENDS Treasury, TLC

CONSTANTS sdr, krw

MCTerra == {sdr, krw}
MCRateTables == {(sdr :> 100 @@ krw :> 300), (sdr :> 50 @@ krw :> None)}

Policy(min, max, change, d, cap) ==
    [RateMin |-> min, RateMax |-> max, ChangeRateMax |-> change,
     CapDenom |-> d, CapAmount |-> cap]

\* A governance change moves the bounds away from the rate, and the cap to another
\* denomination.
MCTaxPolicies == {Policy(10, 40, 10, sdr, 4), Policy(50, 60, 5, krw, 9)}
MCRewardPolicies == {Policy(5, 50, 20, sdr, 0), Policy(60, 100, 15, sdr, 0)}

MCTaxes == {(sdr :> 1 @@ krw :> 0), (sdr :> 0 @@ krw :> 3)}
MCLunaMoves == {-4, 3}
MCBurns == {5}

===========================================================================
