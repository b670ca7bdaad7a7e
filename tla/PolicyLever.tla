--------------------------- MODULE PolicyLever ---------------------------
(***************************************************************************)
(* What x/treasury promises of a policy lever, the tax rate or the reward  *)
(* weight: governance may replace the policy at the end of any block, and  *)
(* an epoch moves the rate into the policy's bounds, by ChangeRateMax at   *)
(* most or, from outside the bounds, no further than to the nearer one.    *)
(***************************************************************************)
EXTENDS Integers

CONSTANT Policies

VARIABLES rate, policy

LeverInit ==
    /\ policy \in Policies
    /\ policy.RateMin <= rate /\ rate <= policy.RateMax

\* A move of an epoch that a policy allows.
Allowed(pc, old, new) ==
    /\ pc.RateMin <= new /\ new <= pc.RateMax
    /\ new <= old + pc.ChangeRateMax \/ new = pc.RateMin
    /\ new >= old - pc.ChangeRateMax \/ new = pc.RateMax

LeverNext ==
    /\ policy' \in Policies
    /\ rate' = rate \/ Allowed(policy', rate, rate')

LeverSpec == LeverInit /\ [][LeverNext]_<<rate, policy>>

===========================================================================
