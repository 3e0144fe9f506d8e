------------------------ MODULE MCMontgomeryInverse ------------------------
(***************************************************************************)
(* Instances of MontgomeryInverse for TLC.                                 *)
(***************************************************************************)
EXTENDS MontgomeryInverse

\* For digits of four bits: every modulus but zero of one digit or little more,
\* and some odd and even ones of two and three.
MCModuli ==
  1 .. 32 \cup {33 + 14 * k : k \in 0 .. 15} \cup {48 + 26 * k : k \in 0 .. 8}
          \cup {257 + 382 * k : k \in 0 .. 20} \cup {256, 512, 2048, 3600}

MCEvenModuli == {2 * k : k \in 1 .. 10}
MCZero       == {0}
=============================================================================
