---------------------------- MODULE AesStandard -----------------------------
(***************************************************************************)
(* AES with a key of 256 bits as FIPS 197 defines it: a byte is a          *)
(* polynomial over GF(2), modulo x^8 + x^4 + x^3 + x + 1, written as the   *)
(* set of its exponents; the state is a matrix of polynomials.  Nothing    *)
(* here is taken from Aes.cpp: it is what the code is compared with.       *)
(***************************************************************************)
EXTENDS Integers, Sequences, FiniteSets

Polynomials == SUBSET (0 .. 7)
Cells       == (0 .. 3) \X (0 .. 3)     \* <<row, column>>

\* The function f.  To compare it TLC computes its values, and then keeps them.
Table(f) == CHOOSE g \in {f} : g = f

IsOdd(S) == Cardinality(S) % 2 = 1

-----------------------------------------------------------------------------
(***************************************************************************)
(* The field (FIPS 197, 4): sum, product, and the S-box (5.1.1), which is  *)
(* the reciprocal followed by an affine map.                               *)
(***************************************************************************)
Plus(p, q) == (p \ q) \cup (q \ p)

\* The powers of x: x^8 is x^4 + x^3 + x + 1.
Power[k \in 0 .. 14] ==
  IF k = 0 THEN {0}
  ELSE LET up == {i + 1 : i \in Power[k - 1]}
       IN  IF 8 \in up THEN Plus(up, {8, 4, 3, 1, 0}) ELSE up

PowerTable == Table(Power)

Times(p, q) ==
  {k \in 0 .. 7 : IsOdd({ij \in p \X q : k \in PowerTable[ij[1] + ij[2]]})}

Reciprocal(p) ==
  IF p = {} THEN {} ELSE CHOOSE q \in Polynomials : Times(p, q) = {0}

SubByte ==
  Table([p \in Polynomials |->
           LET q == Reciprocal(p)
           IN  Plus({0, 1, 5, 6},
                    {i \in 0 .. 7 : IsOdd({d \in {0, 4, 5, 6, 7} : (i + d) % 8 \in q})})])

-----------------------------------------------------------------------------
(***************************************************************************)
(* The key expansion (5.2) for keys of eight words, and the cipher (5.1).  *)
(***************************************************************************)
RoundConstant[j \in Nat] ==
  IF j <= 1 THEN {0} ELSE Times({1}, RoundConstant[j - 1])

\* Word i, from the words before it; the sequence begins with word 0.
NextWord(words) ==
  LET i     == Len(words)
      last  == words[i]
      first == words[i - 7]
      added == CASE i % 8 = 0 ->
                      [r \in 0 .. 3 |->
                         Plus(SubByte[last[(r + 1) % 4]],
                              IF r = 0 THEN RoundConstant[i \div 8] ELSE {})]
                 [] i % 8 = 4 -> [r \in 0 .. 3 |-> SubByte[last[r]]]
                 [] OTHER     -> last
  IN  Table([r \in 0 .. 3 |-> Plus(first[r], added[r])])

\* The sixty words for a key.
Expansion(k) ==
  LET upTo[i \in 8 .. 60] ==
        IF i = 8
        THEN [j \in 1 .. 8 |-> [r \in 0 .. 3 |-> k[4 * (j - 1) + r + 1]]]
        ELSE LET words == upTo[i - 1] IN Append(words, NextWord(words))
  IN  upTo[60]

SubBytes(s)  == [cell \in DOMAIN s |-> SubByte[s[cell]]]

ShiftRows(s) == [cell \in DOMAIN s |-> s[<<cell[1], (cell[2] + cell[1]) % 4>>]]

\* Each column is multiplied by the matrix whose first row is 2, 3, 1, 1.
MixColumns(s) ==
  LET factor == <<{1}, {0, 1}, {0}, {0}>>
      term(cell, k) ==
        Times(factor[((k - cell[1] + 4) % 4) + 1], s[<<k, cell[2]>>])
  IN  [cell \in DOMAIN s |-> Plus(Plus(term(cell, 0), term(cell, 1)),
                                  Plus(term(cell, 2), term(cell, 3)))]

AddRoundKey(s, words, n) ==
  Table([cell \in DOMAIN s |-> Plus(s[cell], words[4 * n + cell[2] + 1][cell[1]])])

\* The encryption of a block, with the words of the key.
Cipher(words, s) ==
  LET after[n \in 0 .. 14] ==
        IF n = 0 THEN AddRoundKey(s, words, 0)
        ELSE LET shifted == Table(ShiftRows(SubBytes(after[n - 1])))
             IN  AddRoundKey(IF n = 14 THEN shifted ELSE MixColumns(shifted), words, n)
  IN  after[14]
=============================================================================
