------------------------------- MODULE Stacks ---------------------------------
(***************************************************************************)
(* A sequence as a stack: its top and what lies below (Last and Front of      *)
(* SequencesExt, without the rest of that module).                           *)
(***************************************************************************)
EXTENDS Integers, Sequences

Last(s) == s[Len(s)]

Front(s) == SubSeq(s, 1, Len(s) - 1)
================================================================================
