------------------------------ MODULE Savepoints ------------------------------
(***************************************************************************)
(* What x/wasm promises a contract about the messages it dispatches: nested *)
(* calls are nested savepoints of one log of writes.  A call that succeeds  *)
(* keeps what it wrote, and what its successful calls wrote.  A call that   *)
(* fails takes the log back to where it began.  The caller is told which.   *)
(***************************************************************************)
EXTENDS Stacks

CONSTANT Writes            \* the kinds of write

VARIABLES log,             \* every write in force, the oldest first
          marks,           \* where each open call began, the outermost first
          told             \* how the last call that ended did

spvars == <<log, marks, told>>

SPInit == log = <<>> /\ marks = <<>> /\ told = "ok"

(***************************************************************************)
(* A call opens a savepoint and may write at once.  The outermost call is a  *)
(* transaction, with a log of its own.                                       *)
(***************************************************************************)
Begin ==
    /\ LET before == IF marks = <<>> THEN <<>> ELSE log
       IN  /\ \/ log' = before
              \/ \E w \in Writes : log' = Append(before, w)
           /\ marks' = Append(marks, Len(before))
    /\ told' = told

Write ==
    /\ marks # <<>>
    /\ \E w \in Writes : log' = Append(log, w)
    /\ UNCHANGED <<marks, told>>

Commit ==
    /\ marks # <<>>
    /\ marks' = Front(marks)
    /\ told' = "ok"
    /\ log' = log

RollBack ==
    /\ marks # <<>>
    /\ log' = SubSeq(log, 1, Last(marks))
    /\ marks' = Front(marks)
    /\ told' = "failed"

SPNext == Begin \/ Write \/ Commit \/ RollBack

SPSpec == SPInit /\ [][SPNext]_spvars
===============================================================================
