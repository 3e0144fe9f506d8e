----------------------------- MODULE AesVectors -----------------------------
(***************************************************************************)
(* The key, the counter and the texts of TestAes (AesCrypto.Tests.cpp).    *)
(***************************************************************************)
EXTENDS Integers

TestKey ==
  << 96, 61, 235, 16, 21, 202, 113, 190, 43, 115, 174, 240, 133, 125, 119, 129,
     31, 53, 44, 7, 59, 97, 8, 215, 45, 152, 16, 163, 9, 20, 223, 244 >>

TestCounter == [k \in 1 .. 16 |-> 239 + k]

PlainText ==
  << 107, 193, 190, 226, 46, 64, 159, 150, 233, 61, 126, 17, 115, 147, 23, 42,
     174, 45, 138, 87, 30, 3, 172, 156, 158, 183, 111, 172, 69, 175, 142, 81 >>
CipherText ==
  << 96, 30, 195, 19, 119, 87, 137, 165, 183, 167, 245, 4, 187, 243, 210, 40,
     244, 67, 227, 202, 77, 98, 181, 154, 202, 132, 233, 144, 202, 202, 245, 197 >>
=============================================================================
