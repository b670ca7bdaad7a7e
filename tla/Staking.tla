----------------------------- MODULE Staking -----------------------------
(***************************************************************************)
(* The validator set as x/oracle sees it through its StakingKeeper: the    *)
(* staking and slashing modules of cosmos-sdk, which are external to this  *)
(* repository.  A validator is bonded, unbonding (since some height),      *)
(* unbonded, or gone: removed from the store, after which                  *)
(* StakingKeeper.Validator returns nil for it.                             *)
(***************************************************************************)
EXTENDS Integers

CONSTANTS Validators,       \* operator addresses
          InitPower,        \* consensus power at genesis
          Restless,         \* validators that may be outranked, or jailed for downtime
          UnbondingBlocks   \* blocks an unbonding validator stays in the store

ASSUME StakingAssumption ==
    /\ InitPower \in [Validators -> Nat]
    /\ UnbondingBlocks \in Nat

VARIABLES status, jailed, since, power

stakingVars == <<status, jailed, since, power>>

Statuses == {"bonded", "unbonding", "unbonded", "gone"}

StakingTypeOK ==
    /\ status \in [Validators -> Statuses]
    /\ jailed \in [Validators -> BOOLEAN]
    /\ since \in [Validators -> Nat]
    /\ power \in [Validators -> Nat]

StakingInit ==
    /\ status = [v \in Validators |-> "bonded"]
    /\ jailed = [v \in Validators |-> FALSE]
    /\ since = [v \in Validators |-> 0]
    /\ power = InitPower

IsBonded(v) == status[v] = "bonded"

\* StakingKeeper.Validator(v) # nil
ValidatorExists(v) == status[v] # "gone"

\* Downtime or double signing.
Jail(v) ==
    /\ v \in Restless
    /\ IsBonded(v) /\ ~jailed[v]
    /\ jailed' = [jailed EXCEPT ![v] = TRUE]
    /\ UNCHANGED <<status, since, power>>

Unjail(v) ==
    /\ ValidatorExists(v) /\ jailed[v]
    /\ jailed' = [jailed EXCEPT ![v] = FALSE]
    /\ UNCHANGED <<status, since, power>>

CreateValidator(v) ==
    /\ ~ValidatorExists(v)
    /\ status' = [status EXCEPT ![v] = "unbonded"]
    /\ jailed' = [jailed EXCEPT ![v] = FALSE]
    /\ power' = [power EXCEPT ![v] = InitPower[v]]
    /\ UNCHANGED since

\* Where the staking EndBlocker of block h may take a validator whose jailed
\* flag is j when it runs.  A jailed validator leaves the bonded set; any
\* other may leave it (outranked) or join it; unbonding lasts UnbondingBlocks,
\* and a validator is removed only once it is unbonded without delegations.
AfterEndBlock(v, j, h) ==
    CASE status[v] = "bonded"    ->
            (IF j THEN {} ELSE {"bonded"})
                \cup (IF j \/ v \in Restless THEN {"unbonding"} ELSE {})
      [] status[v] = "unbonding" ->
            {"unbonding"} \cup (IF j THEN {} ELSE {"bonded"})
                \cup (IF h >= since[v] + UnbondingBlocks THEN {"unbonded", "gone"} ELSE {})
      [] status[v] = "unbonded"  -> {"unbonded", "gone"} \cup (IF j THEN {} ELSE {"bonded"})
      [] status[v] = "gone"      -> {"gone"}

\* The staking EndBlocker, after the oracle's in the module order of app.go.
StakingEndBlock(newJailed, h) ==
    /\ status' \in [Validators -> Statuses]
    /\ \A v \in Validators : status'[v] \in AfterEndBlock(v, newJailed[v], h)
    /\ \E v \in Validators : status'[v] = "bonded"
    /\ since' = [v \in Validators |->
                    IF status[v] = "bonded" /\ status'[v] = "unbonding" THEN h ELSE since[v]]

===========================================================================
