----------------------------- MODULE Periods -----------------------------
(* Periods of blocks: vote periods, slash windows and treasury epochs. *)
EXTENDS Integers

\* IsPeriodLastBlock
IsPeriodLastBlock(h, blocksPerPeriod) == (h + 1) % blocksPerPeriod = 0

===========================================================================
