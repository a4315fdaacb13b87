-------------------------------- MODULE Dec --------------------------------
(***************************************************************************)
(* Fixed-point decimals of the Cosmos SDK (sdk.Dec), for values that are   *)
(* not negative.  A decimal is the integer number of its smallest units,   *)
(* 1/Precision.  The SDK has a Precision of 10^18; a small one makes the   *)
(* same roundings happen with small numbers.                               *)
(***************************************************************************)
EXTENDS Integers

CONSTANT Precision

ASSUME PrecisionAssumption == Precision \in Nat \ {0}

NewDecFromInt(i) == i * Precision

\* Division by Precision, halves going to the even neighbour.
chopPrecisionAndRound(x) ==
    LET q == x \div Precision
        r == x % Precision
    IN  IF 2 * r < Precision \/ (2 * r = Precision /\ q % 2 = 0)
        THEN q ELSE q + 1

MulInt(d, i) == d * i
QuoInt(d, i) == d \div i
Quo(a, b) == chopPrecisionAndRound((a * Precision * Precision) \div b)
QuoTruncate(a, b) == ((a * Precision * Precision) \div b) \div Precision

RoundInt(d) == chopPrecisionAndRound(d)
TruncateInt(d) == d \div Precision
=============================================================================
