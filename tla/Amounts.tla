-------------------------------- MODULE Amounts --------------------------------
(***************************************************************************)
(* The arithmetic on amounts.  An amount is a decimal string with four      *)
(* decimals, so a whole number of units of 0.0001; each operation parses    *)
(* its operands to binary floats, rounds its result to a float and prints   *)
(* that with four decimals again.                                          *)
(*                                                                         *)
(* A float is a whole number of 1/Grid units, for a Grid, a power of two,   *)
(* fine enough for all that occur.  Of the rounding to nearest the module   *)
(* keeps that its error is at most one part in Precision and that it is     *)
(* monotone.  Precision is 2^64 for big.Float, whose mantissa has 64 bits,  *)
(* and 2^53 for the float64 of a batch's total.                            *)
(***************************************************************************)
EXTENDS Integers, Sequences, SequencesExt

CONSTANTS Round(_),    \* to the nearest float
          Precision,
          Grid,
          Exact        \* the numbers that are rounded

Magnitude(x) == IF x < 0 THEN -x ELSE x

ASSUME AmountsConstants ==
  /\ Precision \in Nat \ {0} /\ Grid \in Nat \ {0}
  /\ Exact \subseteq Int
  /\ \A x \in Exact : /\ Round(x) \in Int
                      /\ Magnitude(Round(x) - x) * Precision <= Magnitude(x)
  /\ \A x, y \in Exact : x <= y => Round(x) <= Round(y)

SetString(a) == Round(a * Grid)

\* The nearest amount; on a tie, either.
Text(f) == {n \in (f \div Grid) .. (f \div Grid) + 1 : 2 * Magnitude(n * Grid - f) <= Grid}

addAmounts(a, b) == Text(Round(SetString(a) + SetString(b)))

subtractAmounts(a, b) == Text(Round(SetString(a) - SetString(b)))

hasSufficientBalance(balance, amount) == SetString(balance) >= SetString(amount)

\* The total of a batch is printed once, after all of its amounts are added.
CalculateBatchTotal(transfers) ==
  Text(FoldLeft(LAMBDA total, a : Round(total + SetString(a)), 0, transfers))

\* Operands small enough for four decimals: about 3 * 10^14 for big.Float.
Small(a, b) == 6 * (Magnitude(a) + Magnitude(b)) < Precision
=============================================================================
