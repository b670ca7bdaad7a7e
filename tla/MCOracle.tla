---------------------------- MODULE MCOracle ----------------------------
(* Instances of Oracle that start at genesis. *)
EXTENDS Oracle

CONSTANTS v1, v2, ukrw, usdr

TwoPower == [v \in {v1, v2} |-> 2]
OneRank == [d \in {ukrw} |-> 1]
OneListed == [d \in {ukrw} |-> 0]
NoneListed == [d \in {ukrw} |-> None]
OnOrOff == {OneListed, NoneListed}

===========================================================================
