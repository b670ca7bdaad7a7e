------------------------------- MODULE Snapshots -------------------------------
(***************************************************************************)
(* app/export/util: snapshots of who owns what.  A snapshot gives each       *)
(* account a list of balances, in which a denomination may occur more than   *)
(* once; an account that is not in the map has the empty list.  A holding    *)
(* map gives each account an amount of one token; not in the map is zero.    *)
(***************************************************************************)
EXTENDS Dec, SequencesExt, FiniteSetsExt

CONSTANT Accounts

NoBalances == [a \in Accounts |-> <<>>]

SnapshotBalance(d, n) == [denom |-> d, balance |-> n]

(* Op of every entry of a list *)
MapSeq(Op(_), list) == FoldLeft(LAMBDA done, x : Append(done, Op(x)), <<>>, list)

(* MergeMaps *)
MergeMaps(maps) == [a \in Accounts |-> MapThenSumSet(LAMBDA i : maps[i][a], DOMAIN maps)]

(* Sum *)
SumOf(holdings) ==
    MapThenSumSet(LAMBDA a : holdings[a], {a \in Accounts : holdings[a] # 0})

AlmostEqual(a, b, epsilon) == a - b < epsilon /\ b - a < epsilon

(* AppendOrAddBalance, on the list of one account *)
AppendOrAddBalance(list, b) ==
    LET i == SelectInSeq(list, LAMBDA x : x.denom = b.denom)
    IN  IF i = 0 THEN Append(list, b) ELSE [list EXCEPT ![i].balance = @ + b.balance]

MergeSnapshots(ss) ==
    [a \in Accounts |->
        LET balances == FlattenSeq([i \in DOMAIN ss |-> ss[i][a]])
        IN  IF balances = <<>> THEN <<>> ELSE FoldLeft(AppendOrAddBalance, <<>>, balances)]

(* Add: one more balance in the list of every holder *)
AddHoldings(s, holdings, d) ==
    [a \in Accounts |->
        IF holdings[a] = 0 THEN s[a] ELSE Append(s[a], SnapshotBalance(d, holdings[a]))]

AsSnapshot(holdings, d) == AddHoldings(NoBalances, holdings, d)

(* GetAddrBalance, FilterByDenom *)
GetAddrBalance(s, a, d) ==
    FoldLeft(LAMBDA sum, b : IF b.denom = d THEN sum + b.balance ELSE sum, 0, s[a])

SumOfDenom(s, d) ==
    MapThenSumSet(LAMBDA a : GetAddrBalance(s, a, d), {a \in Accounts : s[a] # <<>>})

(* The last balance in the denomination, not their sum. *)
PickDenomIntoBalanceMap(s, d) ==
    [a \in Accounts |->
        FoldLeft(LAMBDA last, b : IF b.denom = d THEN b.balance ELSE last, 0, s[a])]

(* A blacklist is a set of pairs of a denomination and an account. *)
ApplyBlackList(s, bl) ==
    [a \in Accounts |->
        MapSeq(LAMBDA b : IF <<b.denom, a>> \in bl THEN [b EXCEPT !.balance = 0] ELSE b, s[a])]

(* A derivative becomes what it stands for, at an exchange rate. *)
ResolveTo(s, from, to, rate) ==
    [a \in Accounts |->
        MapSeq(LAMBDA b : IF b.denom = from
                          THEN SnapshotBalance(to, TruncateInt(rate * b.balance)) ELSE b, s[a])]

RemoveAccounts(s, gone) == [a \in Accounts |-> IF a \in gone THEN <<>> ELSE s[a]]
================================================================================
