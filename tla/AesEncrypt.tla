----------------------------- MODULE AesEncrypt -----------------------------
(***************************************************************************)
(* aesEncrypt composed: the counter mode of AesCounter, on blocks of       *)
(* sixteen bytes, with the AES that AesBlock implements as its cipher.     *)
(***************************************************************************)
EXTENDS ByteXor, FiniteSetsExt

CONSTANTS Key,           \* the key: a sequence of 32 bytes
          FirstCounter,  \* the counter: a sequence of 16 bytes
          Used,          \* bound: the counters that occur, the first and its successors
          Message,       \* a sequence of bytes
          MemoryBytes, Layouts   \* as in AesCounter

ASSUME OctetAssumption == ByteBits = 8

Standard == INSTANCE AesStandard

Poly(b)   == {k \in 0 .. 7 : Bit(b, k) = 1}
Number(p) == MapThenSumSet(LAMBDA k : Pow2[k], p)

RoundKeys == Standard!Expansion([k \in 1 .. 32 |-> Poly(Key[k])])

\* The bytes of a block are the columns of the matrix, one after the other.
Encrypted(c) ==
  LET matrix == [cell \in Standard!Cells |-> Poly(c[4 * cell[2] + cell[1] + 1])]
      result == Standard!Cipher(RoundKeys, matrix)
  IN  [k \in 1 .. 16 |-> Number(result[<<(k - 1) % 4, (k - 1) \div 4>>])]

\* The key stream, for every counter the message can need.
KeyStream == Standard!Table([c \in Used |-> Encrypted(c)])
Cipher(c) == KeyStream[c]

VARIABLES layout, firstCounter, second, memory, before, currentCounter,
          bytesEncrypted

Mode ==
  INSTANCE AesCounter
    WITH BlockBytes <- 16, Messages <- {Message}, Counters <- {FirstCounter}

Spec == Mode!Spec
=============================================================================
