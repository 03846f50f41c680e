------------------------------- MODULE Doubles -------------------------------
(***************************************************************************)
(* The arithmetic of JavaScript numbers, as far as the totals of a tally   *)
(* need it (packages/protocol/src/tally-v3.ts): doubles that are finite    *)
(* and not negative.  Each of them is a whole number of the smallest one,  *)
(* two to the power of -Scale, and is written as that natural number; sums *)
(* and quotients are exact and then rounded to the nearest double.  In the *)
(* doubles of IEEE 754 Precision is 53 and Scale is 1074.  Infinity is not *)
(* here: a total that is not finite is refused.                            *)
(***************************************************************************)
EXTENDS Integers

CONSTANTS
  Precision,  \* the significant bits of a double
  Scale       \* the smallest double is two to the power of -Scale

ASSUME DoublesAssumption ==
  Precision \in Nat \ {0} /\ Scale \in Nat /\ Precision <= Scale

One == 2^Scale

\* How far apart doubles are around a / b: the least power of two for which Precision bits
\* are enough.
Spacing(a, b) ==
  LET bits == b * 2^Precision
  IN  2^(CHOOSE k \in 0..a \div bits :
           a < bits * 2^k /\ (k > 0 => a >= bits * 2^(k - 1)))

\* The double nearest to a / b, of two the even one.
Nearest(a, b) ==
  LET space == Spacing(a, b)
      unit  == b * space
      down  == a \div unit
      rest  == a % unit
  IN  space * IF 2 * rest < unit \/ (2 * rest = unit /\ down % 2 = 0) THEN down ELSE down + 1

IsDouble(n) == Nearest(n, 1) = n

Plus(x, y) == Nearest(x + y, 1)

Quotient(n, d) == Nearest(n * One, d)

Hundredfold(x) == Nearest(100 * x, 1)

\* Number.prototype.toFixed, in units of the last place: the nearest, of two the larger.
Fixed(x, units) == (2 * units * x + One) \div (2 * One)
=============================================================================
