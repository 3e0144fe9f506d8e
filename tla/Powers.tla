------------------------------- MODULE Powers -------------------------------
(***************************************************************************)
(* Powers of two, as a recursive function: "1 << k", and the weights of    *)
(* the digits of a number.                                                 *)
(***************************************************************************)
EXTENDS Integers

Pow2[k \in Nat] == IF k = 0 THEN 1 ELSE 2 * Pow2[k - 1]
=============================================================================
