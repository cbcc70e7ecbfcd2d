------------------------------- MODULE Doubles -------------------------------
(***************************************************************************)
(* The numbers of JavaScript, as far as the slot arithmetic of the backend *)
(* needs them: IEEE 754 binary floating point with Precision significant   *)
(* bits, 53 in the code.  A number is an integer count of units, of which  *)
(* Unit make one; numbers too small to have Precision bits in front of     *)
(* that unit are rounded to whole units.                                   *)
(***************************************************************************)
EXTENDS Integers

CONSTANTS
    Precision,      \* significant bits of a number
    FractionBits    \* bits behind the point that are kept

Unit == 2 ^ FractionBits

\* The distance of numbers as large as n / m units: n / m has no more than
\* Precision bits in front of it.
Spacing(n, m) ==
    LET fits(e) == n \div m < 2 ^ (Precision + e)
    IN  2 ^ (CHOOSE e \in 0 .. FractionBits : fits(e) /\ (e > 0 => ~fits(e - 1)))

\* The number nearest to n / m units, for n >= 0 and m > 0; of two at the same
\* distance the even one.
RoundHalfEven(n, m) ==
    LET ulp  == Spacing(n, m)
        k    == n \div (m * ulp)
        rest == n % (m * ulp)
        up   == 2 * rest > m * ulp \/ (2 * rest = m * ulp /\ k % 2 = 1)
    IN  (IF up THEN k + 1 ELSE k) * ulp

Round(n, m) == IF n < 0 THEN -RoundHalfEven(-n, m) ELSE RoundHalfEven(n, m)
=============================================================================
