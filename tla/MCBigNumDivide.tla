--------------------------- MODULE MCBigNumDivide ---------------------------
(***************************************************************************)
(* Instances of BigNumDivide for TLC.  A divisor has fewer bits than       *)
(* DigitMask, as every divisor does with 31-bit digits.                    *)
(***************************************************************************)
EXTENDS BigNumDivide

\* For digits of four bits: every dividend of one digit and two, and some of
\* three and four; every divisor of one digit, and some of two and three.
MCDividends ==
  {-37 * k : k \in 1 .. 40} \cup -20 .. 255
             \cup {256 + 37 * k : k \in 0 .. 100}
             \cup {4096 + 491 * k : k \in 0 .. 120}
MCDivisors ==
  -6 .. 20 \cup {20 + 17 * k : k \in 1 .. 14} \cup {300 + 397 * k : k \in 0 .. 6}

\* For digits of three bits.
MCFewDividends == 0 .. 80
MCFewDivisors  == 1 .. 20
=============================================================================
