------------------------------- MODULE ByteXor -------------------------------
(***************************************************************************)
(* The exclusive or of two bytes ("^" of C++), bit by bit.                 *)
(***************************************************************************)
EXTENDS Powers

CONSTANT ByteBits   \* bits of a byte

ASSUME ByteBitsAssumption == ByteBits \in Nat \ {0}

Byte == 0 .. Pow2[ByteBits] - 1

Bit(v, k) == (v \div Pow2[k]) % 2

Xor(v, w) ==
  LET low[k \in Nat] ==
        IF k = 0 THEN 0
        ELSE low[k - 1] + Pow2[k - 1] * ((Bit(v, k - 1) + Bit(w, k - 1)) % 2)
  IN  low[ByteBits]
=============================================================================
