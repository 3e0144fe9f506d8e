---------------------------- MODULE MCMontgomery ----------------------------
(***************************************************************************)
(* Instances of Montgomery for TLC.  With a BaseCapacity of one the        *)
(* default vector has three words, as it has twelve with the code's four.  *)
(***************************************************************************)
EXTENDS Montgomery

\* With digits of three bits, moduli of one, two and three digits, the least
\* and the greatest of each among them; bases below and above the modulus.
MCBases     == {0, 1, 2, 5, 7, 8, 21, 62, 63, 64, 100, 301, 510, 511}
MCExponents == {0, 1, 2, 5, 7, 8, 13}
MCModuli    == {1, 3, 7, 9, 21, 55, 63, 65, 129, 257, 385, 511}

\* With digits of two bits, a modulus of one digit more than the default vector
\* has words.
MCLongBases     == {2, 3}
MCLongExponents == {1}
MCLongModuli    == {67}
=============================================================================
