--------------------------------- MODULE Wire ---------------------------------
(***************************************************************************)
(* The wire format of the stores, the transactions and the queries: what    *)
(* the generated codecs of all messages have in common.                     *)
(*                                                                          *)
(* A message is a function of the fields that are set: a field that is not  *)
(* in its domain has its zero value, and a message held by value is always  *)
(* there.  A codec is three tables of fields, translated each from its own  *)
(* function: Marshal in the order in which it writes, which is from the     *)
(* end, Size, and Unmarshal.  A message or a number of another repository   *)
(* is the bytes its own codec gives.                                        *)
(***************************************************************************)
EXTENDS Fields, Integers, SequencesExt

CONSTANTS WordBits,        \* the width of an integer, 64 in the code
          FieldBits,       \* the width of a field number, 32 in the code
          Known(_),        \* whether a type is one of this repository
          CodecOf(_)       \* its codec

ASSUME WireAssumption == WordBits \in Nat \ {0} /\ FieldBits \in Nat \ {0}

(* A type is its package and its name. *)
TypeOf(t, e) == <<t[1], e.type>>

-------------------------------------------------------------------------------
(* Integers of WordBits bits *)

Word == 2^WordBits

int(x) == IF x < Word \div 2 THEN x ELSE x - Word

uint(x) == x % Word

int32(x) == LET n == x % 2^FieldBits
            IN  IF n < 2^(FieldBits - 1) THEN n ELSE n - 2^FieldBits

(* Seven bits in a byte, the eighth says that more follow. *)
MaxVarint == (WordBits + 6) \div 7

Len64(x) == Min({n \in 0..WordBits : x < 2^n})

sov(x) == (Len64(IF x % 2 = 0 THEN x + 1 ELSE x) + 6) \div 7

Groups(v) == Min({n \in 1..MaxVarint : v < 128^n})

VarintBytes(v) ==
    [k \in 1..Groups(v) |-> ((v \div 128^(k - 1)) % 128) + (IF k < Groups(v) THEN 128 ELSE 0)]

(***************************************************************************)
(* What a loop over the bytes of a number finds in d between `at' and l,     *)
(* counted from zero: its value and where it ends, or an error.              *)
(***************************************************************************)
Varint(d, at, l) ==
    LET ends == {n \in 1..MaxVarint : at + n <= l /\ d[at + n] < 128}
    IN  IF ends = {}
        THEN [err |-> IF l - at >= MaxVarint THEN "overflow" ELSE "eof"]
        ELSE [err   |-> "nil",
              value |-> SumFunction([n \in 1..Min(ends) |-> (d[at + n] % 128) * 128^(n - 1)]) % Word,
              next  |-> at + Min(ends)]
===============================================================================
