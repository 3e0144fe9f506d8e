---------------------------- MODULE MCRsaBlocks ----------------------------
(***************************************************************************)
(* Instances of RsaBlocks for TLC, with bytes of two bits.  The moduli     *)
(* have 4, 6 and 7 bits, so that 1, 2 and 3 bytes of message become 2, 3   *)
(* and 4 of cipher text; the modulus 3 has no more bits than a byte.       *)
(***************************************************************************)
EXTENDS RsaBlocks

MCKeys == {[n |-> 15, e |-> 3, d |-> 3], [n |-> 55, e |-> 3, d |-> 27],
           [n |-> 77, e |-> 7, d |-> 43], [n |-> 3, e |-> 1, d |-> 1]}

\* Up to two whole blocks and a half: every message of three bytes or fewer, and
\* longer ones of zeros, ones and threes.
MCMessages ==
  (UNION {[1 .. k -> 0 .. 3] : k \in 0 .. 3})
    \cup (UNION {[1 .. k -> {0, 1, 3}] : k \in 4 .. 5})
MCCipherSizes == {0, 3, 4, 6, 8, 9}
MCPlainSizes  == {2, 4, 5}

MCKey          == {[n |-> 55, e |-> 3, d |-> 27]}
MCLeadingZeros == {<<0, 1>>, <<1, 1, 0, 1>>}
MCZeros        == {<<1, 1, 0, 0>>}
MCCipherSize   == {6}
MCPlainSize    == {4}
=============================================================================
