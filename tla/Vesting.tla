-------------------------------- MODULE Vesting --------------------------------
(***************************************************************************)
(* x/vesting: a lazy graded vesting account, the coins of one denomination   *)
(* (denominations do not affect each other).  Parts of the original amount   *)
(* vest linearly, each between a start and an end time.  The account lives   *)
(* in a bank that lets only coins that are not locked be sent, and that lets *)
(* locked coins be delegated; both are external.                             *)
(***************************************************************************)
EXTENDS Dec, Sequences, FiniteSetsExt, Functions

CONSTANTS GenesisAccounts, \* accounts as a genesis file may have them
          FixedPoint,      \* the precision of the check on ratios, 10^9
          Amounts,         \* amounts that are sent, delegated, slashed
          MaxTime, MaxCoins,
          None

Schedule == [start : Int, end : Int, ratio : Int]

Schedules == Seq(Schedule)

ASSUME VestingAssumption ==
    /\ None \notin Schedules
    /\ \A a \in GenesisAccounts : a.original \in Nat /\ a.schedules \in Schedules \cup {None}
    /\ FixedPoint \in 1..Unit
    /\ Amounts \subseteq Nat
    /\ MaxTime \in Nat /\ MaxCoins \in Nat

VARIABLES account,         \* the original amount and its schedules
          time,            \* block time
          balance,
          delegatedFree, delegatedVesting,
          staked, slashed  \* what is left of the delegations, and what is not

vars == <<account, time, balance, delegatedFree, delegatedVesting, staked, slashed>>

-------------------------------------------------------------------------------
(* Schedules. *)

(* Mutant: after the end a schedule keeps growing. *)
ShareUncapped(s, t) ==
    IF t < s.start THEN 0
    ELSE IF s.end > s.start THEN QuoInt(s.ratio * (t - s.start), s.end - s.start)
    ELSE s.ratio

(* Mutant: the share that is left instead of the one that has vested. *)
ShareLeft(s, t) ==
    IF t < s.start THEN 0
    ELSE IF t < s.end THEN QuoInt(s.ratio * (s.end - t), s.end - s.start)
    ELSE s.ratio

(* Mutant: the ratio is divided before it is multiplied. *)
ShareDividedFirst(s, t) ==
    IF t < s.start THEN 0
    ELSE IF t < s.end THEN QuoInt(s.ratio, s.end - s.start) * (t - s.start)
    ELSE s.ratio

(* What one schedule adds to the vested ratio at time t. *)
Share(s, t) ==
    IF t < s.start THEN 0
    ELSE IF t < s.end THEN QuoInt(s.ratio * (t - s.start), s.end - s.start)
    ELSE s.ratio

GetVestedRatio(schedules, t) == SumFunction([i \in DOMAIN schedules |-> Share(schedules[i], t)])

ValidSchedule(s) == s.start >= 0 /\ s.end >= s.start /\ s.ratio > 0

SumRatio(schedules) == SumFunction([i \in DOMAIN schedules |-> schedules[i].ratio])

(* The ratios add up to one, at the precision of FixedPoint.  With one          *)
(* denomination no two schedules are of the same; what the SDK requires of a   *)
(* base account is left out.                                                  *)
Validate(a) ==
    a.schedules # None =>
        /\ \A i \in DOMAIN a.schedules : ValidSchedule(a.schedules[i])
        /\ QuoInt(NewDec(RoundInt(SumRatio(a.schedules) * FixedPoint)), FixedPoint) = OneDec

-------------------------------------------------------------------------------
(* The account. *)

GetVestedCoins(a, t) ==
    IF a.schedules = None THEN a.original
    ELSE RoundInt(Mul(NewDec(a.original), GetVestedRatio(a.schedules, t)))

GetVestingCoins(a, t) == a.original - GetVestedCoins(a, t)

(* sdk.Coins.Sub panics on a negative amount, and the message fails. *)
Panics(a, t) == GetVestingCoins(a, t) < 0

(* BaseVestingAccount.LockedCoinsFromVesting *)
LockedCoinsFromVesting(vesting) == Max({0, vesting - delegatedVesting})

(* Mutant: the coins that have vested are locked. *)
LockedVested == LockedCoinsFromVesting(GetVestedCoins(account, time))

LockedCoins == LockedCoinsFromVesting(GetVestingCoins(account, time))

(* BaseVestingAccount.TrackDelegation: vesting coins are delegated first. *)
BaseTrackDelegation(vesting, amount) ==
    LET x == Min({Max({0, vesting - delegatedVesting}), amount})
    IN  /\ delegatedVesting' = delegatedVesting + x
        /\ delegatedFree' = delegatedFree + amount - x

TrackDelegation(amount) == BaseTrackDelegation(GetVestingCoins(account, time), amount)

(* BaseVestingAccount.TrackUndelegation: free coins come back first. *)
TrackUndelegation(amount) ==
    LET x == Min({delegatedFree, amount})
        y == Min({delegatedVesting, amount - x})
    IN  /\ delegatedFree' = delegatedFree - x
        /\ delegatedVesting' = delegatedVesting - y

-------------------------------------------------------------------------------
Init ==
    /\ account \in {a \in GenesisAccounts : Validate(a)}
    /\ time = 0
    /\ balance = account.original
    /\ delegatedFree = 0 /\ delegatedVesting = 0
    /\ staked = 0 /\ slashed = 0

Tick ==
    /\ time < MaxTime
    /\ time' = time + 1
    /\ UNCHANGED <<account, balance, delegatedFree, delegatedVesting, staked, slashed>>

Send(n) ==
    /\ ~Panics(account, time)
    /\ balance - LockedCoins >= n
    /\ balance' = balance - n
    /\ UNCHANGED <<account, time, delegatedFree, delegatedVesting, staked, slashed>>

Receive(n) ==
    /\ balance + staked + slashed + n <= MaxCoins
    /\ balance' = balance + n
    /\ UNCHANGED <<account, time, delegatedFree, delegatedVesting, staked, slashed>>

Delegate(n) ==
    /\ ~Panics(account, time)
    /\ n <= balance
    /\ TrackDelegation(n)
    /\ balance' = balance - n
    /\ staked' = staked + n
    /\ UNCHANGED <<account, time, slashed>>

Undelegate(n) ==
    /\ n <= staked
    /\ TrackUndelegation(n)
    /\ balance' = balance + n
    /\ staked' = staked - n
    /\ UNCHANGED <<account, time, slashed>>

Slash(n) ==
    /\ n <= staked
    /\ staked' = staked - n
    /\ slashed' = slashed + n
    /\ UNCHANGED <<account, time, balance, delegatedFree, delegatedVesting>>

Next == \/ Tick
        \/ \E n \in Amounts : Send(n) \/ Receive(n) \/ Delegate(n) \/ Undelegate(n) \/ Slash(n)

Spec == Init /\ [][Next]_vars

-------------------------------------------------------------------------------
(* Properties. *)

Over(a, t) == a.schedules # None => \A i \in DOMAIN a.schedules : a.schedules[i].end <= t

(* The ratios add up to one exactly, or there is too little of it for the difference that *)
(* Validate lets pass (schedule.go:110-113) to show.                                      *)
Precise(a) ==
    a.schedules = None \/ SumRatio(a.schedules) = Unit \/ a.original < FixedPoint

(***************************************************************************)
(* What vests of an account that Validate accepts, against what was granted  *)
(* (vesting_account.go:98-100).  A precise account never vests more, so that *)
(* no message of it panics in GetVestingCoins, and it has vested all when    *)
(* every schedule has ended, as vesting_account_test.go:46 requires.  Any    *)
(* other may vest more, and panic, or end with less: by one in 2*FixedPoint  *)
(* of the grant and by a half at most.                                       *)
(***************************************************************************)
VestedNearOriginal ==
    LET original == account.original
        vested == GetVestedCoins(account, time)
        slack == original + FixedPoint
    IN  /\ Precise(account) => /\ vested \in 0..original
                               /\ Over(account, time) => vested = original
        /\ 2 * FixedPoint * vested <= 2 * FixedPoint * original + slack
        /\ Over(account, time) => 2 * FixedPoint * vested >= 2 * FixedPoint * original - slack

(***************************************************************************)
(* What has vested stays vested, across the ends of overlapping schedules    *)
(* and with the rounding of each (schedule.go:73-92).                        *)
(***************************************************************************)
VestedMonotone == [][GetVestedCoins(account, time') >= GetVestedCoins(account, time)]_vars

(***************************************************************************)
(* The owner cannot get at coins that are still vesting: whatever is sent,   *)
(* delegated and undelegated, at whatever times, balance and stake cover     *)
(* them, but for what was slashed.  The delegations it tracks are those that *)
(* exist or were slashed, and never more of them count as vesting than it was *)
(* granted (vesting_account.go:103-115).                                     *)
(***************************************************************************)
LockedHeld ==
    /\ balance + staked + slashed >= GetVestingCoins(account, time)
    /\ delegatedFree + delegatedVesting = staked + slashed
    /\ delegatedVesting \in 0..account.original

(* The exact amount one schedule has let vest, over a common multiple of all lengths.  A *)
(* schedule whose start is its end has the length one, and all of it has elapsed.        *)
Length(s) == Max({1, s.end - s.start})

Elapsed(s, t) ==
    IF t < s.start THEN 0
    ELSE Min({IF s.end = s.start THEN 1 ELSE t - s.start, Length(s)})

Scale(schedules) ==
    FoldFunction(LAMBDA x, y : x * y, 1, [i \in DOMAIN schedules |-> Length(schedules[i])])

Grown(s, t, scale) == s.ratio * Elapsed(s, t) * (scale \div Length(s))

(***************************************************************************)
(* The vested amount is the exact piecewise linear one, rounded: it is off   *)
(* by a half and by what truncating each ratio can lose (schedule.go:85).    *)
(***************************************************************************)
VestedIsLinear ==
    account.schedules # None =>
        LET schedules == account.schedules
            scale == Scale(schedules)
            exact == account.original
                       * SumFunction([i \in DOMAIN schedules |-> Grown(schedules[i], time, scale)])
            error == GetVestedCoins(account, time) * Unit * scale - exact
            lost  == account.original * Len(schedules) * scale
        IN  /\ 2 * error <= Unit * scale
            /\ 2 * error >= -(Unit * scale) - 2 * lost
===============================================================================
