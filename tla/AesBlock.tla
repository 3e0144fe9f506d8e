------------------------------ MODULE AesBlock ------------------------------
(***************************************************************************)
(* GenerateRoundKeys and aesEncryptBlock (Aes.cpp): one action per word of *)
(* the key schedule and per round, on the bytes and tables of the code.    *)
(* The words of the code are only copied and combined by ^, so a word is   *)
(* the four bytes it is made of, in memory order.                          *)
(***************************************************************************)
EXTENDS ByteXor, Sequences

CONSTANTS Keys,      \* the keys: functions from 0 .. 31 to bytes
          Blocks     \* the blocks that are encrypted: from 0 .. 15 to bytes

ASSUME OctetAssumption == ByteBits = 8

NumberStateColumns     == 4
NumberRounds           == 14
NumberKeyWords         == 8
NumberRoundKeysInWords == NumberStateColumns * (NumberRounds + 1)

ASSUME KeysAssumption == Keys \subseteq [0 .. 4 * NumberKeyWords - 1 -> Byte]
ASSUME BlocksAssumption == Blocks \subseteq [0 .. 15 -> Byte]

SBoxBytes ==
  <<
      99, 124, 119, 123, 242, 107, 111, 197,  48,   1, 103,  43, 254, 215, 171, 118,
     202, 130, 201, 125, 250,  89,  71, 240, 173, 212, 162, 175, 156, 164, 114, 192,
     183, 253, 147,  38,  54,  63, 247, 204,  52, 165, 229, 241, 113, 216,  49,  21,
       4, 199,  35, 195,  24, 150,   5, 154,   7,  18, 128, 226, 235,  39, 178, 117,
       9, 131,  44,  26,  27, 110,  90, 160,  82,  59, 214, 179,  41, 227,  47, 132,
      83, 209,   0, 237,  32, 252, 177,  91, 106, 203, 190,  57,  74,  76,  88, 207,
     208, 239, 170, 251,  67,  77,  51, 133,  69, 249,   2, 127,  80,  60, 159, 168,
      81, 163,  64, 143, 146, 157,  56, 245, 188, 182, 218,  33,  16, 255, 243, 210,
     205,  12,  19, 236,  95, 151,  68,  23, 196, 167, 126,  61, 100,  93,  25, 115,
      96, 129,  79, 220,  34,  42, 144, 136,  70, 238, 184,  20, 222,  94,  11, 219,
     224,  50,  58,  10,  73,   6,  36,  92, 194, 211, 172,  98, 145, 149, 228, 121,
     231, 200,  55, 109, 141, 213,  78, 169, 108,  86, 244, 234, 101, 122, 174,   8,
     186, 120,  37,  46,  28, 166, 180, 198, 232, 221, 116,  31,  75, 189, 139, 138,
     112,  62, 181, 102,  72,   3, 246,  14,  97,  53,  87, 185, 134, 193,  29, 158,
     225, 248, 152,  17, 105, 217, 142, 148, 155,  30, 135, 233, 206,  85,  40, 223,
     140, 161, 137,  13, 191, 230,  66, 104,  65, 153,  45,  15, 176,  84, 187,  22
  >>

InvSBoxBytes ==
  <<
      82,   9, 106, 213,  48,  54, 165,  56, 191,  64, 163, 158, 129, 243, 215, 251,
     124, 227,  57, 130, 155,  47, 255, 135,  52, 142,  67,  68, 196, 222, 233, 203,
      84, 123, 148,  50, 166, 194,  35,  61, 238,  76, 149,  11,  66, 250, 195,  78,
       8,  46, 161, 102,  40, 217,  36, 178, 118,  91, 162,  73, 109, 139, 209,  37,
     114, 248, 246, 100, 134, 104, 152,  22, 212, 164,  92, 204,  93, 101, 182, 146,
     108, 112,  72,  80, 253, 237, 185, 218,  94,  21,  70,  87, 167, 141, 157, 132,
     144, 216, 171,   0, 140, 188, 211,  10, 247, 228,  88,   5, 184, 179,  69,   6,
     208,  44,  30, 143, 202,  63,  15,   2, 193, 175, 189,   3,   1,  19, 138, 107,
      58, 145,  17,  65,  79, 103, 220, 234, 151, 242, 207, 206, 240, 180, 230, 115,
     150, 172, 116,  34, 231, 173,  53, 133, 226, 249,  55, 232,  28, 117, 223, 110,
      71, 241,  26, 113,  29,  41, 197, 137, 111, 183,  98,  14, 170,  24, 190,  27,
     252,  86,  62,  75, 198, 210, 121,  32, 154, 219, 192, 254, 120, 205,  90, 244,
      31, 221, 168,  51, 136,   7, 199,  49, 177,  18,  16,  89,  39, 128, 236,  95,
      96,  81, 127, 169,  25, 181,  74,  13,  45, 229, 122, 159, 147, 201, 156, 239,
     160, 224,  59,  77, 174,  42, 245, 176, 200, 235, 187,  60, 131,  83, 153,  97,
      23,  43,   4, 126, 186, 119, 214,  38, 225, 105,  20,  99,  85,  33,  12, 125
  >>

SBox(b) == SBoxBytes[b + 1]

\* InvSBox, which nothing uses, is the inverse of SBox.
ASSUME InvSBoxInverts == \A b \in Byte : InvSBoxBytes[SBox(b) + 1] = b

Rcon == <<1, 2, 4, 8, 16, 32, 64>>    \* first byte of each word, the others are 0

-----------------------------------------------------------------------------
VARIABLES key,
          roundKeys,   \* the words made so far; zero, as allocated, from iWord on
          iWord,
          counter,     \* the block being encrypted, or <<>> before the first
          output,
          iRound       \* the next round of the call, 0 outside a call

blockVars == <<key, roundKeys, iWord, counter, output, iRound>>

Zeros(n) == [k \in 0 .. n - 1 |-> 0]

BlockInit ==
  /\ key \in Keys
  /\ roundKeys = [i \in 0 .. NumberRoundKeysInWords - 1 |-> Zeros(4)]
  /\ iWord = 0
  /\ counter = <<>>
  /\ output = Zeros(16)
  /\ iRound = 0

-----------------------------------------------------------------------------
(***************************************************************************)
(* The key schedule.                                                       *)
(***************************************************************************)
XorWords(v, w) == [k \in 0 .. 3 |-> Xor(v[k], w[k])]
SubWord(w)     == [k \in 0 .. 3 |-> SBox(w[k])]
RotWord(w)     == [k \in 0 .. 3 |-> w[(k + 1) % 4]]
RconWord(i)    == [k \in 0 .. 3 |-> IF k = 0 THEN Rcon[i + 1] ELSE 0]

CopyKeyWord ==
  /\ iWord < NumberKeyWords
  /\ roundKeys' = [roundKeys EXCEPT ![iWord] = [k \in 0 .. 3 |-> key[4 * iWord + k]]]
  /\ iWord' = iWord + 1
  /\ UNCHANGED <<key, counter, output, iRound>>

\* Mutant: the schedule of the shorter keys, with no word in the middle.
TempOfShortKey(last, i) ==
  IF i % NumberKeyWords = 0
  THEN XorWords(SubWord(RotWord(last)), RconWord((i \div NumberKeyWords) - 1))
  ELSE last

Temp(last, i) ==
  CASE i % NumberKeyWords = 0 ->
         XorWords(SubWord(RotWord(last)), RconWord((i \div NumberKeyWords) - 1))
    [] i % NumberKeyWords = 4 -> SubWord(last)
    [] OTHER -> last

\* Mutant: the bound of the loop is one too many.
GenerateWordOneMore ==
  /\ NumberKeyWords <= iWord /\ iWord <= NumberRoundKeysInWords
  /\ roundKeys' = [roundKeys EXCEPT ![iWord] =
                     XorWords(roundKeys[iWord - NumberKeyWords],
                              Temp(roundKeys[iWord - 1], iWord))]
  /\ iWord' = iWord + 1
  /\ UNCHANGED <<key, counter, output, iRound>>

GenerateWord ==
  /\ NumberKeyWords <= iWord /\ iWord < NumberRoundKeysInWords
  /\ roundKeys' = [roundKeys EXCEPT ![iWord] =
                     XorWords(roundKeys[iWord - NumberKeyWords],
                              Temp(roundKeys[iWord - 1], iWord))]
  /\ iWord' = iWord + 1
  /\ UNCHANGED <<key, counter, output, iRound>>

-----------------------------------------------------------------------------
(***************************************************************************)
(* One block.  Byte (row, col) of the state is byte col * 4 + row.         *)
(***************************************************************************)
Xtime(b) == Xor((2 * b) % 256, IF b >= 128 THEN 27 ELSE 0)

SubBytes(s) == [k \in 0 .. 15 |-> SBox(s[k])]

\* Mutant: the rows are shifted the other way.
ShiftRowsBack(s) == [k \in 0 .. 15 |-> s[(k - 4 * (k % 4) + 16) % 16]]

ShiftRows(s) == [k \in 0 .. 15 |-> s[(k + 4 * (k % 4)) % 16]]

MixColumn(c) ==   \* of the four bytes of a column
  LET x[k \in 0 .. 3] == Xtime(c[k])
      sum(a, b, d, e, f) == Xor(a, Xor(b, Xor(d, Xor(e, f))))
  IN  [row \in 0 .. 3 |->
         CASE row = 0 -> sum(x[0], c[1], x[1], c[2], c[3])
           [] row = 1 -> sum(c[0], x[1], c[2], x[2], c[3])
           [] row = 2 -> sum(c[0], c[1], x[2], c[3], x[3])
           [] row = 3 -> sum(c[0], x[0], c[1], c[2], x[3])]

MixColumns(s) ==
  [k \in 0 .. 15 |-> MixColumn([row \in 0 .. 3 |-> s[4 * (k \div 4) + row]])[k % 4]]

AddRoundKey(s, n) ==
  [k \in 0 .. 15 |-> Xor(s[k], roundKeys[NumberStateColumns * n + (k \div 4)][k % 4])]

\* aesEncryptBlock is called, and copies its counter to the output.
StartBlock ==
  /\ iWord = NumberRoundKeysInWords /\ iRound = 0
  /\ counter' \in Blocks
  /\ output' = AddRoundKey(counter', 0)
  /\ iRound' = 1
  /\ UNCHANGED <<key, roundKeys, iWord>>

Round ==
  /\ 1 <= iRound /\ iRound < NumberRounds
  /\ output' = AddRoundKey(MixColumns(ShiftRows(SubBytes(output))), iRound)
  /\ iRound' = iRound + 1
  /\ UNCHANGED <<key, roundKeys, iWord, counter>>

\* Mutant: the last round is like the others.
LastRoundMixes ==
  /\ iRound = NumberRounds
  /\ output' = AddRoundKey(MixColumns(ShiftRows(SubBytes(output))), iRound)
  /\ iRound' = 0
  /\ UNCHANGED <<key, roundKeys, iWord, counter>>

LastRound ==
  /\ iRound = NumberRounds
  /\ output' = AddRoundKey(ShiftRows(SubBytes(output)), iRound)
  /\ iRound' = 0
  /\ UNCHANGED <<key, roundKeys, iWord, counter>>

BlockNext == CopyKeyWord \/ GenerateWord \/ StartBlock \/ Round \/ LastRound

BlockSpec == BlockInit /\ [][BlockNext]_blockVars

-----------------------------------------------------------------------------
(***************************************************************************)
(* Correctness: the block cipher is AES.                                   *)
(***************************************************************************)
BlockTypeOK ==
  /\ key \in Keys
  /\ roundKeys \in [0 .. NumberRoundKeysInWords - 1 -> [0 .. 3 -> Byte]]
  /\ iWord \in 0 .. NumberRoundKeysInWords
  /\ counter \in Blocks \cup {<<>>}
  /\ output \in [0 .. 15 -> Byte]
  /\ iRound \in 0 .. NumberRounds

\* Bytes as polynomials, a key as a sequence of them, a block as a matrix.
Poly(b)   == {k \in 0 .. 7 : Bit(b, k) = 1}
PolyKey(k) == [j \in 1 .. 4 * NumberKeyWords |-> Poly(k[j - 1])]
Matrix(s) == [cell \in (0 .. 3) \X (0 .. 3) |-> Poly(s[4 * cell[2] + cell[1]])]

Standard == INSTANCE AesStandard

\* The entries of SBox are those the standard defines.
ASSUME SBoxAssumption == \A b \in Byte : Poly(SBox(b)) = Standard!SubByte[Poly(b)]

\* What FIPS 197 makes of each key, and of each block under it.
PolyKeys  == {PolyKey(k) : k \in Keys}
Matrices  == {Matrix(c) : c \in Blocks}
Expansion == Standard!Table([k \in PolyKeys |-> Standard!Expansion(k)])
Encrypted ==
  Standard!Table([km \in PolyKeys \X Matrices |-> Standard!Cipher(Expansion[km[1]], km[2])])
Encryption(k, m) == Encrypted[<<k, m>>]

Abstract ==
  INSTANCE BlockCipher
    WITH Keys <- PolyKeys, Blocks <- Matrices, NoBlock <- <<>>, Cipher <- Encryption,
         key <- PolyKey(key),
         block <- IF counter = <<>> THEN <<>> ELSE Matrix(counter),
         result <- IF iRound # 0 \/ counter = <<>> THEN <<>> ELSE Matrix(output)

\* The words made so far are those of the key expansion of FIPS 197, and stay
\* so while blocks are encrypted.
RoundKeysExact ==
  LET words == Expansion[PolyKey(key)]
  IN  \A i \in 0 .. iWord - 1, k \in 0 .. 3 : Poly(roundKeys[i][k]) = words[i + 1][k]

\* Every call of aesEncryptBlock leaves the AES encryption of its block under
\* the key, whatever was encrypted before.
ImplementsAes == Abstract!Spec
=============================================================================
