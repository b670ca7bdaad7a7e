------------------------------- MODULE Dec -------------------------------
(***************************************************************************)
(* Fixed-point decimals, the sdk.Dec of cosmos-sdk (an external library): *)
(* a decimal x is the integer x * Unit.  The library has Unit = 10^18;     *)
(* TLC runs take a small Unit.  Multiplication and division round to the   *)
(* nearest decimal, ties to even; dividing by an integer and taking the    *)
(* integer part truncate toward zero.                                      *)
(***************************************************************************)
EXTENDS Integers

CONSTANT Unit

ASSUME UnitAssumption == Unit \in Nat \ {0} /\ Unit % 2 = 0

OneDec == Unit

NewDec(n) == n * Unit

\* big.Int.Quo: the quotient truncated toward zero.
TruncQuo(a, b) ==
    LET Abs(n) == IF n < 0 THEN -n ELSE n
        q == Abs(a) \div Abs(b)
    IN  IF (a < 0) = (b < 0) THEN q ELSE -q

\* chopPrecisionAndRound: drop one Unit, half to even, symmetric in the sign.
ChopRound(x) ==
    LET RoundNat(n) ==
            LET q == n \div Unit
                r == 2 * (n % Unit)
            IN  IF r > Unit \/ (r = Unit /\ q % 2 = 1) THEN q + 1 ELSE q
    IN  IF x < 0 THEN -RoundNat(-x) ELSE RoundNat(x)

Mul(a, b) == ChopRound(a * b)

Quo(a, b) == ChopRound(TruncQuo(a * Unit * Unit, b))

QuoInt(a, n) == TruncQuo(a, n)

RoundInt(a) == ChopRound(a)

TruncateInt(a) == TruncQuo(a, Unit)

===========================================================================
