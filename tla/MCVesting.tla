------------------------------- MODULE MCVesting -------------------------------
(***************************************************************************)
(* Accounts whose ratios add up to exactly one: overlapping schedules, one   *)
(* that vests at a point of time, thirds, and no schedule at all; accounts    *)
(* whose ratios only round to one, too small for that to show, and so large  *)
(* that one vests more than it was granted and the other never all of it;    *)
(* and accounts no genesis accepts.                                          *)
(***************************************************************************)
EXTENDS Vesting

Account(original, schedules) == [original |-> original, schedules |-> schedules]

Part(start, end, ratio) == [start |-> start, end |-> end, ratio |-> ratio]

Exact ==
    {Account(5, <<Part(1, 4, 100)>>),
     Account(11, <<Part(1, 4, 30), Part(2, 5, 50), Part(3, 3, 20)>>),
     Account(7, <<Part(0, 3, 33), Part(3, 6, 33), Part(1, 6, 34)>>),
     Account(3, <<Part(0, 7, 90), Part(5, 5, 10)>>),
     Account(4, None)}

Rounded ==
    {Account(9, <<Part(0, 4, 60), Part(2, 6, 45)>>),
     Account(9, <<Part(1, 5, 95)>>),
     Account(11, <<Part(0, 4, 60), Part(2, 6, 45)>>),
     Account(11, <<Part(1, 5, 95)>>)}

Invalid ==
    {Account(5, <<Part(4, 1, 100)>>),
     Account(5, <<Part(1, 4, 60), Part(1, 4, 60)>>)}

MCAccounts == Exact \cup Rounded \cup Invalid
===============================================================================
