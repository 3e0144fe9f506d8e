------------------------------ MODULE AesProofs -----------------------------
(***************************************************************************)
(* AES in counter mode: aesEncrypt in both directions, for every block     *)
(* size, width of a byte, block cipher, message, counter and place of the  *)
(* buffers; and its block cipher, the key schedule and the rounds of       *)
(* aesEncryptBlock, for every key and block.  The two share exclusive or;  *)
(* that a byte has eight bits is used of the block cipher only.            *)
(***************************************************************************)
EXTENDS AesCounter, AesBlock, NatFacts, SequenceTheorems, FiniteSetTheorems

-----------------------------------------------------------------------------
(***************************************************************************)
(* Exclusive or.                                                           *)
(***************************************************************************)
(* The bits of v below bit k. *)
Low(v, k) == v % Pow2[k]

(* A bit of the exclusive or, and its bits added up from the lowest. *)
XorBit(v, w, k) == (Bit(v, k) + Bit(w, k)) % 2
XorSums(v, w, f) ==
  /\ f \in [Nat -> Int]
  /\ f[0] = 0
  /\ \A k \in Nat : f[k + 1] = f[k] + Pow2[k] * XorBit(v, w, k)
  /\ Xor(v, w) = f[ByteBits]

(* A bit is 0 or 1, and added to the bits below it in its place. *)
LEMMA LowStep ==
  ASSUME NEW v \in Nat, NEW k \in Nat
  PROVE  /\ Bit(v, k) \in 0 .. 1
         /\ Low(v, k) \in 0 .. Pow2[k] - 1
         /\ Low(v, k + 1) = Low(v, k) + Pow2[k] * Bit(v, k)
<1>1. PICK P \in Nat \ {0} : Pow2[k] = P /\ Pow2[k + 1] = P * 2
  BY Pow2Unfold
<1>2. v \div P \in Int /\ v % P \in 0 .. P - 1
  BY DivMod
<1>3. (v \div P) % 2 \in 0 .. 1
  BY <1>2
<1>4. v % (P * 2) = (v % P) + P * ((v \div P) % 2)
  <2>1. 2 \in Nat \ {0} /\ v \in Int
    OBVIOUS
  <2>2. QED
    BY <2>1, DivDiv
<1>5. /\ Low(v, k) = v % P /\ Low(v, k + 1) = v % (P * 2)
      /\ Bit(v, k) = (v \div P) % 2
  BY <1>1, Zenon DEF Low, Bit
<1>6. QED
  BY <1>1, <1>2, <1>3, <1>4, <1>5

(* So is a bit of the exclusive or; it does not depend on the order, and is *)
(* zero when the two bits are one.                                          *)
LEMMA XorBitIsBit ==
  ASSUME NEW v \in Nat, NEW w \in Nat, NEW k \in Nat
  PROVE  /\ XorBit(v, w, k) \in 0 .. 1
         /\ XorBit(v, w, k) = XorBit(w, v, k)
         /\ XorBit(v, v, k) = 0
         /\ (XorBit(v, w, k) + Bit(w, k)) % 2 = Bit(v, k)
<1>1. PICK a \in 0 .. 1 : Bit(v, k) = a
  BY LowStep
<1>2. PICK b \in 0 .. 1 : Bit(w, k) = b
  BY LowStep
<1>3. /\ XorBit(v, w, k) = (a + b) % 2 /\ XorBit(w, v, k) = (b + a) % 2
      /\ XorBit(v, v, k) = (a + a) % 2
  BY <1>1, <1>2, Zenon DEF XorBit
<1>4. /\ (a + b) % 2 \in 0 .. 1 /\ (a + b) % 2 = (b + a) % 2 /\ (a + a) % 2 = 0
      /\ (((a + b) % 2) + b) % 2 = a
  OBVIOUS
<1>5. QED
  BY <1>1, <1>2, <1>3, <1>4

(* Xor is the last of its sums. *)
LEMMA XorUnfold ==
  ASSUME NEW v \in Nat, NEW w \in Nat
  PROVE  \E f : XorSums(v, w, f)
<1> DEFINE step == [p \in Nat \X Int |-> p[2] + Pow2[p[1]] * XorBit(v, w, p[1])]
           Body(g) == [k \in Nat |->
                         IF k = 0 THEN 0
                         ELSE g[k - 1] + Pow2[k - 1] *
                                ((Bit(v, k - 1) + Bit(w, k - 1)) % 2)]
           low == CHOOSE g : g = Body(g)
<1>1. \A k \in Nat : XorBit(v, w, k) \in 0 .. 1 /\ Pow2[k] \in Nat
  BY XorBitIsBit, Pow2Unfold
<1>2. step \in StepFunctions(Int)
  BY <1>1 DEF StepFunctions
<1>3. \A k \in Nat, s \in Int :
        step[<<k, s>>] = s + Pow2[k] * XorBit(v, w, k)
  OBVIOUS
<1> HIDE DEF step
<1>11. PICK f : Solves(Int, 0, step, f)
  BY <1>2, RecursionSolves
<1>4. f = Body(f)
  <2>1. ASSUME NEW k \in Nat, k # 0
        PROVE  f[k] = f[k - 1] + Pow2[k - 1] * XorBit(v, w, k - 1)
    <3>1. k - 1 \in Nat /\ f[k - 1] \in Int /\ f[k] = step[<<k - 1, f[k - 1]>>]
      BY <2>1, <1>11 DEF Solves
    <3>2. QED
      BY <3>1, <1>3
  <2>2. f \in [Nat -> Int] /\ f[0] = 0
    BY <1>11 DEF Solves
  <2>3. QED
    BY <2>1, <2>2 DEF XorBit
<1>5. low = Body(low)
  BY <1>4
<1>6. Xor(v, w) = low[ByteBits]
  BY DEF Xor
<1> HIDE DEF low
<1>7. low[0] = 0
  BY <1>5
<1>8. \A k \in Nat : low[k + 1] = low[k] + Pow2[k] * XorBit(v, w, k)
  BY <1>5 DEF XorBit
<1>9. low \in [Nat -> Int]
  <2> DEFINE S == {k \in Nat : low[k] \in Int}
  <2>1. 0 \in S
    BY <1>7
  <2>2. ASSUME NEW k \in S PROVE k + 1 \in S
    BY <1>1, <1>8
  <2> HIDE DEF S
  <2>3. S = Nat
    BY <2>1, <2>2, SetInduction DEF S
  <2>4. \A k \in Nat : low[k] \in Int
    BY <2>3 DEF S
  <2>5. low = [k \in Nat |-> low[k]]
    BY <1>5
  <2>6. QED
    BY <2>4, <2>5
<1>10. QED
  BY <1>6, <1>7, <1>8, <1>9 DEF XorSums

(* A sum of low bits is below the weight of the next bit. *)
LEMMA XorSumsBound ==
  ASSUME NEW v \in Nat, NEW w \in Nat, NEW f, XorSums(v, w, f)
  PROVE  \A k \in Nat : f[k] \in 0 .. Pow2[k] - 1
<1> DEFINE S == {k \in Nat : f[k] \in 0 .. Pow2[k] - 1}
<1>1. 0 \in S
  BY Pow2Unfold DEF XorSums
<1>2. ASSUME NEW k \in S PROVE k + 1 \in S
  <2>1. XorBit(v, w, k) \in 0 .. 1
    BY XorBitIsBit
  <2>2. Pow2[k] \in Nat /\ Pow2[k + 1] = 2 * Pow2[k]
    BY Pow2Unfold
  <2>3. Pow2[k] * XorBit(v, w, k) \in {0, Pow2[k]}
    BY <2>1, <2>2
  <2>4. f[k + 1] = f[k] + Pow2[k] * XorBit(v, w, k)
    BY DEF XorSums
  <2>5. QED
    BY <2>2, <2>3, <2>4
<1> HIDE DEF S
<1>3. S = Nat
  BY <1>1, <1>2, SetInduction DEF S
<1>4. QED
  BY <1>3 DEF S

(* The exclusive or of two bytes is a byte. *)
LEMMA XorByte ==
  ASSUME NEW v \in Byte, NEW w \in Byte
  PROVE  Xor(v, w) \in Byte
<1>1. v \in Nat /\ w \in Nat /\ ByteBits \in Nat
  BY Pow2Unfold, ByteBitsAssumption DEF Byte
<1>2. PICK f : XorSums(v, w, f)
  BY <1>1, XorUnfold
<1>3. f[ByteBits] \in 0 .. Pow2[ByteBits] - 1
  BY <1>1, <1>2, XorSumsBound
<1>4. QED
  BY <1>2, <1>3 DEF XorSums, Byte

(* A byte combined with itself is zero. *)
LEMMA XorSelf ==
  ASSUME NEW v \in Byte
  PROVE  Xor(v, v) = 0
<1>1. v \in Nat /\ ByteBits \in Nat
  BY Pow2Unfold, ByteBitsAssumption DEF Byte
<1>2. PICK f : XorSums(v, v, f)
  BY <1>1, XorUnfold
<1> DEFINE S == {k \in Nat : f[k] = 0}
<1>3. 0 \in S
  BY <1>2 DEF XorSums
<1>4. ASSUME NEW k \in S PROVE k + 1 \in S
  <2>1. XorBit(v, v, k) = 0
    BY <1>1, XorBitIsBit
  <2>2. Pow2[k] \in Nat
    BY Pow2Unfold
  <2>3. QED
    BY <1>2, <2>1, <2>2 DEF XorSums
<1> HIDE DEF S
<1>5. S = Nat
  BY <1>3, <1>4, SetInduction DEF S
<1>6. QED
  BY <1>1, <1>2, <1>5 DEF S, XorSums

(* The order of the two bytes does not matter. *)
LEMMA XorCommutes ==
  ASSUME NEW v \in Byte, NEW w \in Byte
  PROVE  Xor(v, w) = Xor(w, v)
<1>1. v \in Nat /\ w \in Nat /\ ByteBits \in Nat
  BY Pow2Unfold, ByteBitsAssumption DEF Byte
<1>2. PICK f : XorSums(v, w, f)
  BY <1>1, XorUnfold
<1>3. PICK g : XorSums(w, v, g)
  BY <1>1, XorUnfold
<1> DEFINE S == {k \in Nat : f[k] = g[k]}
<1>4. 0 \in S
  BY <1>2, <1>3 DEF XorSums
<1>5. ASSUME NEW k \in S PROVE k + 1 \in S
  <2>1. XorBit(v, w, k) = XorBit(w, v, k)
    BY <1>1, XorBitIsBit
  <2>2. QED
    BY <1>2, <1>3, <2>1 DEF XorSums
<1> HIDE DEF S
<1>6. S = Nat
  BY <1>4, <1>5, SetInduction DEF S
<1>7. QED
  BY <1>1, <1>2, <1>3, <1>6 DEF S, XorSums

(* The sums are what they leave below each bit of the next ones. *)
LEMMA XorSumsLow ==
  ASSUME NEW v \in Nat, NEW w \in Nat, NEW f, XorSums(v, w, f), NEW k \in Nat
  PROVE  \A n \in Nat : n >= k => Low(f[n], k) = f[k]
<1> DEFINE S == {j \in Nat : Low(f[k + j], k) = f[k]}
<1>1. PICK P \in Nat \ {0} : Pow2[k] = P
  BY Pow2Unfold
<1>2. f[k] \in 0 .. P - 1
  BY <1>1, XorSumsBound
<1>3. 0 \in S
  <2>1. f[k] % P = f[k]
    BY <1>2
  <2>2. k + 0 = k
    OBVIOUS
  <2>3. QED
    BY <1>1, <2>1, <2>2 DEF Low
<1>4. ASSUME NEW j \in S PROVE j + 1 \in S
  <2>1. PICK s \in Int : f[k + j] = s /\ s % P = f[k]
    BY <1>1 DEF XorSums, Low
  <2>2. PICK b \in 0 .. 1 : XorBit(v, w, k + j) = b
    BY XorBitIsBit
  <2>3. PICK Q \in Nat : Pow2[k + j] = P * Q
    <3>1. k \in 0 .. k + j /\ k + j \in Nat /\ (k + j) - k = j /\ j \in Nat
      OBVIOUS
    <3>2. Pow2[k + j] = Pow2[k] * Pow2[j] /\ Pow2[j] \in Nat
      BY <3>1, Pow2Split, Pow2Unfold
    <3>3. QED
      BY <1>1, <3>2
  <2>4. f[k + (j + 1)] = s + (P * Q) * b
    <3>1. k + j \in Nat /\ (k + j) + 1 = k + (j + 1)
      OBVIOUS
    <3>2. f[(k + j) + 1] = f[k + j] + Pow2[k + j] * XorBit(v, w, k + j)
      BY <3>1 DEF XorSums
    <3>3. QED
      BY <3>1, <3>2, <2>1, <2>2, <2>3
  <2>5. (s + (P * Q) * b) % P = s % P
    <3>1. PICK q \in Int, r \in 0 .. P - 1 : s = P * q + r /\ s % P = r
      BY DivMod
    <3>2. P * (q + Q * b) + r = s + (P * Q) * b
      BY <3>1
    <3> DEFINE t == s + (P * Q) * b
               c == q + Q * b
    <3>3. t \in Int /\ c \in Int /\ t = P * c + r
      BY <3>2
    <3> HIDE DEF t, c
    <3>4. t % P = r
      BY <3>3, DivModUnique
    <3>5. QED
      BY <3>1, <3>4 DEF t
  <2>6. QED
    BY <1>1, <2>1, <2>4, <2>5 DEF Low
<1> HIDE DEF S
<1>5. S = Nat
  BY <1>3, <1>4, SetInduction DEF S
<1>6. ASSUME NEW n \in Nat, n >= k PROVE Low(f[n], k) = f[k]
  <2>1. n - k \in S /\ k + (n - k) = n
    BY <1>5, <1>6
  <2>2. QED
    BY <2>1 DEF S
<1>7. QED
  BY <1>6

(* Each bit of an exclusive or is that of the two bits. *)
LEMMA XorBits ==
  ASSUME NEW v \in Byte, NEW w \in Byte, NEW k \in Nat, k < ByteBits
  PROVE  Bit(Xor(v, w), k) = XorBit(v, w, k)
<1>1. PICK z \in Nat : z = Xor(v, w)
  BY Pow2Unfold, ByteBitsAssumption, XorByte DEF Byte
<1>2. v \in Nat /\ w \in Nat /\ ByteBits \in Nat
  BY Pow2Unfold, ByteBitsAssumption DEF Byte
<1>3. PICK f : XorSums(v, w, f)
  BY <1>2, XorUnfold
<1>13. z = f[ByteBits]
  BY <1>1, <1>3 DEF XorSums
<1>4. k + 1 \in Nat /\ ByteBits >= k /\ ByteBits >= k + 1
  BY <1>2
<1>5. Low(z, k) = f[k] /\ Low(z, k + 1) = f[k + 1]
  BY <1>2, <1>3, <1>4, <1>13, XorSumsLow
<1>6. /\ f[k + 1] = f[k] + Pow2[k] * XorBit(v, w, k)
      /\ f[k] \in Int
  BY <1>3 DEF XorSums
<1>7. Low(z, k + 1) = Low(z, k) + Pow2[k] * Bit(z, k) /\ Bit(z, k) \in 0 .. 1
  BY <1>1, LowStep
<1>8. PICK P \in Nat \ {0} : Pow2[k] = P
  BY Pow2Unfold
<1>9. PICK b \in 0 .. 1 : XorBit(v, w, k) = b
  BY <1>2, XorBitIsBit
<1>10. PICK c \in 0 .. 1 : Bit(z, k) = c
  BY <1>7
<1>11. P * b = P * c
  BY <1>5, <1>6, <1>7, <1>8, <1>9, <1>10
<1>12. QED
  BY <1>1, <1>8, <1>9, <1>10, <1>11

(* A byte combined twice with the same byte is itself again: what makes     *)
(* decryption the same as encryption.                                       *)
LEMMA XorBack ==
  ASSUME NEW v \in Byte, NEW w \in Byte
  PROVE  Xor(Xor(v, w), w) = v
<1> DEFINE z == Xor(v, w)
<1>1. v \in Nat /\ w \in Nat /\ ByteBits \in Nat /\ z \in Nat
  BY Pow2Unfold, ByteBitsAssumption, XorByte DEF Byte
<1> HIDE DEF z
<1>4. PICK g : XorSums(z, w, g)
  BY <1>1, XorUnfold
<1>5. ASSUME NEW k \in Nat, k < ByteBits
      PROVE  Bit(z, k) = XorBit(v, w, k)
  BY <1>5, XorBits DEF z
<1> DEFINE S == {k \in Nat : k <= ByteBits => g[k] = Low(v, k)}
<1>6. 0 \in S
  <2>1. v % 1 = 0
    BY <1>1
  <2>2. QED
    BY <1>4, <2>1, Pow2Unfold DEF XorSums, Low
<1>7. ASSUME NEW k \in S PROVE k + 1 \in S
  <2>1. SUFFICES ASSUME k + 1 <= ByteBits PROVE g[k + 1] = Low(v, k + 1)
    OBVIOUS
  <2>2. k \in Nat /\ k < ByteBits /\ g[k] = Low(v, k)
    BY <1>1, <2>1
  <2>3. XorBit(z, w, k) = Bit(v, k)
    <3>1. (XorBit(v, w, k) + Bit(w, k)) % 2 = Bit(v, k)
      BY <1>1, <2>2, XorBitIsBit
    <3>2. QED
      BY <1>5, <2>2, <3>1 DEF XorBit
  <2>4. QED
    BY <1>1, <1>4, <2>2, <2>3, LowStep DEF XorSums
<1> HIDE DEF S
<1>8. S = Nat
  BY <1>6, <1>7, SetInduction DEF S
<1>9. g[ByteBits] = Low(v, ByteBits)
  BY <1>1, <1>8 DEF S
<1>10. Low(v, ByteBits) = v
  <2>1. PICK P \in Nat \ {0} : Pow2[ByteBits] = P
    BY <1>1, Pow2Unfold
  <2>2. v \in 0 .. P - 1
    BY <2>1 DEF Byte
  <2>3. v % P = v
    BY <2>2
  <2>4. QED
    BY <2>1, <2>3 DEF Low
<1>11. QED
  BY <1>4, <1>9, <1>10 DEF XorSums, z

-----------------------------------------------------------------------------
(***************************************************************************)
(* The counter as a number, its first byte the most significant.           *)
(***************************************************************************)
(* The numbers of the first k bytes of a counter. *)
NumberSums(c, v) ==
  /\ v \in [0 .. BlockBytes -> Int]
  /\ v[0] = 0
  /\ \A k \in 0 .. BlockBytes - 1 : v[k + 1] = v[k] * ByteRadix + c[k + 1]
  /\ Number(c) = v[BlockBytes]

(* A byte of a counter is a natural number below the radix. *)
LEMMA CounterByte ==
  ASSUME NEW c \in Block
  PROVE  /\ ByteRadix \in Nat \ {0} /\ ByteRadix >= 2
         /\ \A k \in 1 .. BlockBytes : c[k] \in 0 .. ByteRadix - 1
<1>1. ByteBits - 1 \in Nat /\ (ByteBits - 1) + 1 = ByteBits
  BY ByteBitsAssumption
<1>2. Pow2[(ByteBits - 1) + 1] = 2 * Pow2[ByteBits - 1] /\ Pow2[ByteBits - 1] \in Nat \ {0}
  BY <1>1, Pow2Unfold
<1>3. QED
  BY <1>1, <1>2 DEF Block, Byte, ByteRadix

(* Number is the last of its sums. *)
LEMMA NumberUnfold ==
  ASSUME NEW c \in Block
  PROVE  \E v : NumberSums(c, v)
<1> DEFINE m == BlockBytes
           step == [p \in (0 .. m - 1) \X Int |-> p[2] * ByteRadix + c[p[1] + 1]]
           Body(g) == [k \in 0 .. BlockBytes |->
                         IF k = 0 THEN 0 ELSE g[k - 1] * ByteRadix + c[k]]
           v == CHOOSE g : g = Body(g)
<1>1. m \in Nat /\ \A k \in 0 .. m - 1 : k + 1 \in 1 .. m
  BY BlockBytesAssumption
<1>2. \A k \in 1 .. m : c[k] \in Int
  BY CounterByte
<1>3. step \in [(0 .. m - 1) \X Int -> Int]
  <2>1. ASSUME NEW k \in 0 .. m - 1, NEW s \in Int
        PROVE  s * ByteRadix + c[k + 1] \in Int
    <3>1. ByteRadix \in Int /\ c[k + 1] \in Int
      BY <1>1, <1>2, CounterByte
    <3>2. QED
      BY <3>1
  <2>2. ASSUME NEW p \in (0 .. m - 1) \X Int
        PROVE  p[2] * ByteRadix + c[p[1] + 1] \in Int
    BY <2>1
  <2>3. QED
    BY <2>2
<1>4. \A k \in 0 .. m - 1, s \in Int : step[<<k, s>>] = s * ByteRadix + c[k + 1]
  OBVIOUS
<1> HIDE DEF step
<1>5. PICK f : SolvesUpTo(m, Int, 0, step, f)
  <2> HIDE DEF m
  <2>1. 0 \in Int /\ m \in Nat
    BY <1>1
  <2>2. QED
    BY <2>1, <1>3, BoundedRecursionSolves
<1>6. f = Body(f)
  <2>1. ASSUME NEW k \in 0 .. m, k # 0
        PROVE  f[k] = f[k - 1] * ByteRadix + c[k]
    <3>1. /\ k - 1 \in 0 .. m - 1 /\ k - 1 \in 0 .. m /\ (k - 1) + 1 = k
          /\ f[k - 1] \in Int /\ f[k] = step[<<k - 1, f[k - 1]>>]
      BY <1>1, <2>1, <1>5 DEF SolvesUpTo
    <3>2. QED
      BY <3>1, <1>4
  <2>2. f \in [0 .. m -> Int] /\ f[0] = 0
    <3>1. 0 \in 0 .. m
      BY <1>1
    <3>2. QED
      BY <3>1, <1>5 DEF SolvesUpTo
  <2>3. QED
    BY <2>1, <2>2
<1>7. v = Body(v)
  BY <1>6
<1>8. Number(c) = v[BlockBytes]
  BY DEF Number
<1> HIDE DEF v
<1>9. v[0] = 0
  BY <1>1, <1>7
<1>10. \A k \in 0 .. m - 1 : v[k + 1] = v[k] * ByteRadix + c[k + 1]
  BY <1>1, <1>7
<1>11. \A k \in 0 .. m : v[k] \in Int
  <2> DEFINE S == {k \in Nat : k <= m => v[k] \in Int}
  <2>1. 0 \in S
    BY <1>9
  <2>2. ASSUME NEW k \in S PROVE k + 1 \in S
    <3>1. SUFFICES ASSUME k + 1 <= m PROVE v[k + 1] \in Int
      OBVIOUS
    <3>2. k \in 0 .. m - 1 /\ v[k] \in Int
      BY <1>1, <3>1
    <3>3. c[k + 1] \in Int /\ ByteRadix \in Int
      BY <1>1, <1>2, <3>2, CounterByte
    <3>4. QED
      BY <1>10, <3>2, <3>3
  <2> HIDE DEF S
  <2>3. S = Nat
    BY <2>1, <2>2, SetInduction DEF S
  <2>4. QED
    BY <1>1, <2>3 DEF S
<1>12. v \in [0 .. BlockBytes -> Int]
  <2>1. v = [k \in 0 .. BlockBytes |-> v[k]]
    BY <1>7
  <2>2. QED
    BY <1>11, <2>1
<1>13. QED
  BY <1>8, <1>9, <1>10, <1>12 DEF NumberSums

(* k bytes denote a number below the radix to the power k. *)
LEMMA NumberBound ==
  ASSUME NEW c \in Block
  PROVE  Number(c) \in 0 .. Pow2[ByteBits * BlockBytes] - 1
<1>1. PICK v : NumberSums(c, v)
  BY NumberUnfold
<1> DEFINE S == {k \in Nat : k <= BlockBytes => v[k] \in 0 .. Pow2[ByteBits * k] - 1}
<1>2. 0 \in S
  <2>1. ByteBits * 0 = 0
    BY ByteBitsAssumption
  <2>2. QED
    BY <1>1, <2>1, Pow2Unfold DEF NumberSums
<1>3. ASSUME NEW k \in S PROVE k + 1 \in S
  <2>1. SUFFICES ASSUME k + 1 <= BlockBytes
                 PROVE  v[k + 1] \in 0 .. Pow2[ByteBits * (k + 1)] - 1
    OBVIOUS
  <2>2. /\ k \in Nat /\ k \in 0 .. BlockBytes - 1 /\ k + 1 \in 1 .. BlockBytes
        /\ k <= BlockBytes
    BY <2>1, BlockBytesAssumption
  <2>3. PICK P \in Nat \ {0} : Pow2[ByteBits * k] = P
    <3>1. ByteBits * k \in Nat
      BY <2>2, ByteBitsAssumption
    <3>2. QED
      BY <3>1, Pow2Unfold
  <2>4. PICK R \in Nat \ {0} : ByteRadix = R
    BY CounterByte
  <2>5. Pow2[ByteBits * (k + 1)] = P * R
    BY <2>2, <2>3, <2>4, Pow2Digits, ByteBitsAssumption DEF ByteRadix
  <2>6. PICK s \in 0 .. P - 1 : v[k] = s
    BY <2>1, <2>2, <2>3
  <2>7. PICK d \in 0 .. R - 1 : c[k + 1] = d
    BY <2>2, <2>4, CounterByte
  <2>8. s * R + d \in 0 .. P * R - 1
    <3>1. s * R \in Nat /\ s * R <= (P - 1) * R /\ (P - 1) * R = P * R - R
      OBVIOUS
    <3>2. QED
      BY <3>1
  <2>9. v[k + 1] = s * R + d
    BY <1>1, <2>2, <2>4, <2>6, <2>7 DEF NumberSums
  <2>10. QED
    BY <2>5, <2>8, <2>9
<1> HIDE DEF S
<1>4. S = Nat
  BY <1>2, <1>3, SetInduction DEF S
<1>5. v[BlockBytes] \in 0 .. Pow2[ByteBits * BlockBytes] - 1
  BY <1>4, BlockBytesAssumption DEF S
<1>6. QED
  BY <1>1, <1>5 DEF NumberSums

-----------------------------------------------------------------------------
(***************************************************************************)
(* incrementCounter.                                                       *)
(***************************************************************************)
(* The carries out of the bytes, the last byte's first. *)
Carries(c, carry) ==
  /\ carry \in [0 .. BlockBytes -> 0 .. 1]
  /\ carry[BlockBytes] = 1
  /\ \A k \in 0 .. BlockBytes - 1 :
       carry[k] = (c[k + 1] + carry[k + 1]) \div ByteRadix
  /\ IncrementCounter(c)
       = [k \in 1 .. BlockBytes |-> (c[k] + carry[k]) % ByteRadix]

(* A carry into a byte is at most one, and so is the carry out of it. *)
LEMMA CarryStep ==
  ASSUME NEW R \in Nat \ {0}, NEW d \in 0 .. R - 1, NEW s \in 0 .. 1
  PROVE  /\ (d + s) \div R \in 0 .. 1
         /\ (d + s) % R = d + s - R * ((d + s) \div R)
         /\ (d + s) % R \in 0 .. R - 1
<1>1. PICK q \in Int, r \in 0 .. R - 1 :
        d + s = R * q + r /\ (d + s) \div R = q /\ (d + s) % R = r
  <2>1. d + s \in Int
    OBVIOUS
  <2>2. /\ (d + s) \div R \in Int /\ (d + s) % R \in 0 .. R - 1
        /\ d + s = R * ((d + s) \div R) + ((d + s) % R)
    BY <2>1, DivMod
  <2>3. QED
    BY <2>2
<1>2. q >= 0
  <2>1. SUFFICES ASSUME q <= -1 PROVE FALSE
    BY <1>1
  <2>2. R * q <= R * (-1)
    BY <2>1
  <2>3. QED
    BY <2>2, <1>1
<1>3. q <= 1
  <2>1. SUFFICES ASSUME q >= 2 PROVE FALSE
    BY <1>1
  <2>2. R * q >= R * 2
    BY <2>1
  <2>3. QED
    BY <2>2, <1>1
<1>4. QED
  BY <1>1, <1>2, <1>3

(* IncrementCounter has such carries. *)
LEMMA CarriesExist ==
  ASSUME NEW c \in Block
  PROVE  \E carry : Carries(c, carry)
<1> DEFINE m == BlockBytes
           R == ByteRadix
           step == [p \in (0 .. m - 1) \X (0 .. 1) |-> (c[m - p[1]] + p[2]) \div R]
           Body(g) == [k \in 0 .. BlockBytes |->
                         IF k = BlockBytes THEN 1
                         ELSE (c[k + 1] + g[k + 1]) \div ByteRadix]
           carry == CHOOSE g : g = Body(g)
<1>1. m \in Nat \ {0} /\ R \in Nat \ {0}
  BY BlockBytesAssumption, CounterByte
<1>2. \A k \in 1 .. m : c[k] \in 0 .. R - 1
  BY CounterByte
<1>3. ASSUME NEW k \in 1 .. m, NEW s \in 0 .. 1
      PROVE  (c[k] + s) \div R \in 0 .. 1
  <2>1. c[k] \in 0 .. R - 1
    BY <1>2
  <2> HIDE DEF R
  <2>2. QED
    BY <1>1, <2>1, CarryStep
<1>4. step \in [(0 .. m - 1) \X (0 .. 1) -> 0 .. 1]
  <2>1. ASSUME NEW k \in 0 .. m - 1, NEW s \in 0 .. 1
        PROVE  (c[m - k] + s) \div R \in 0 .. 1
    <3>1. m - k \in 1 .. m
      BY <1>1
    <3>2. QED
      BY <3>1, <1>3
  <2>2. ASSUME NEW p \in (0 .. m - 1) \X (0 .. 1)
        PROVE  (c[m - p[1]] + p[2]) \div R \in 0 .. 1
    BY <2>1
  <2>3. QED
    BY <2>2
<1>5. \A k \in 0 .. m - 1, s \in 0 .. 1 : step[<<k, s>>] = (c[m - k] + s) \div R
  OBVIOUS
<1> HIDE DEF step
<1>6. PICK f : SolvesUpTo(m, 0 .. 1, 1, step, f)
  <2> HIDE DEF m
  <2>1. 1 \in 0 .. 1 /\ m \in Nat
    BY <1>1
  <2>2. QED
    BY <2>1, <1>4, BoundedRecursionSolves
<1> DEFINE h == [k \in 0 .. m |-> f[m - k]]
<1>7. h = Body(h)
  <2>1. ASSUME NEW k \in 0 .. m, k # m
        PROVE  h[k] = (c[k + 1] + h[k + 1]) \div R
    <3>1. /\ k + 1 \in 0 .. m /\ m - k \in 0 .. m /\ m - k # 0
          /\ (m - k) - 1 = m - (k + 1) /\ m - (k + 1) \in 0 .. m - 1
          /\ m - (k + 1) \in 0 .. m /\ m - (m - (k + 1)) = k + 1
      BY <1>1, <2>1
    <3>2. /\ f[m - k] = step[<<m - (k + 1), f[m - (k + 1)]>>]
          /\ f[m - (k + 1)] \in 0 .. 1
      BY <1>6, <3>1 DEF SolvesUpTo
    <3>3. f[m - k] = (c[k + 1] + f[m - (k + 1)]) \div R
      BY <1>5, <3>1, <3>2
    <3>4. QED
      BY <3>1, <3>3
  <2>2. h[m] = 1
    <3>1. m \in 0 .. m /\ m - m = 0 /\ 0 \in 0 .. m
      BY <1>1
    <3>2. QED
      BY <3>1, <1>6 DEF SolvesUpTo
  <2> HIDE DEF h
  <2>3. h = [k \in 0 .. m |-> h[k]]
    BY DEF h
  <2>4. QED
    BY <2>1, <2>2, <2>3
<1> HIDE DEF h
<1>8. carry = Body(carry)
  BY <1>7
<1>9. IncrementCounter(c) = [k \in 1 .. BlockBytes |-> (c[k] + carry[k]) % ByteRadix]
  BY DEF IncrementCounter
<1> HIDE DEF carry
<1>10. carry[m] = 1
  BY <1>1, <1>8
<1>11. \A k \in 0 .. m - 1 : carry[k] = (c[k + 1] + carry[k + 1]) \div R
  BY <1>1, <1>8
<1>12. \A k \in 0 .. m : carry[k] \in 0 .. 1
  <2> DEFINE S == {j \in Nat : j <= m => carry[m - j] \in 0 .. 1}
  <2>1. 0 \in S
    BY <1>1, <1>10
  <2>2. ASSUME NEW j \in S PROVE j + 1 \in S
    <3>1. SUFFICES ASSUME j + 1 <= m PROVE carry[m - (j + 1)] \in 0 .. 1
      OBVIOUS
    <3>2. /\ m - (j + 1) \in 0 .. m - 1 /\ (m - (j + 1)) + 1 = m - j
          /\ m - j \in 1 .. m /\ carry[m - j] \in 0 .. 1
      BY <1>1, <3>1
    <3>3. carry[m - (j + 1)] = (c[m - j] + carry[m - j]) \div R
      BY <1>11, <3>2
    <3>4. QED
      BY <1>3, <3>2, <3>3
  <2> HIDE DEF S
  <2>3. S = Nat
    BY <2>1, <2>2, SetInduction DEF S
  <2>4. ASSUME NEW k \in 0 .. m PROVE carry[k] \in 0 .. 1
    <3>1. m - k \in S /\ m - k <= m /\ m - (m - k) = k
      BY <1>1, <2>3
    <3>2. QED
      BY <3>1 DEF S
  <2>5. QED
    BY <2>4
<1>13. carry \in [0 .. BlockBytes -> 0 .. 1]
  <2>1. carry = [k \in 0 .. BlockBytes |-> carry[k]]
    BY <1>8
  <2>2. QED
    BY <1>12, <2>1
<1>14. QED
  BY <1>9, <1>10, <1>11, <1>13 DEF Carries

(* The code's increment is the increment of the number, around the end. *)
LEMMA IncrementExact ==
  ASSUME NEW c \in Block
  PROVE  /\ IncrementCounter(c) \in Block
         /\ Number(IncrementCounter(c))
              = (Number(c) + 1) % Pow2[ByteBits * BlockBytes]
<1> DEFINE d == IncrementCounter(c)
<1>1. PICK carry : Carries(c, carry)
  BY CarriesExist
<1>2. PICK R \in Nat \ {0} : ByteRadix = R
  BY CounterByte
<1>3. ASSUME NEW k \in 0 .. BlockBytes - 1
      PROVE  /\ c[k + 1] \in 0 .. R - 1 /\ carry[k] \in 0 .. 1 /\ carry[k + 1] \in 0 .. 1
             /\ d[k + 1] = c[k + 1] + carry[k + 1] - R * carry[k]
             /\ d[k + 1] \in 0 .. R - 1
  <2>1. k + 1 \in 1 .. BlockBytes /\ k + 1 \in 0 .. BlockBytes /\ k \in 0 .. BlockBytes
    BY BlockBytesAssumption
  <2>2. PICK e \in 0 .. R - 1 : c[k + 1] = e
    BY <1>2, <2>1, CounterByte
  <2>3. PICK s \in 0 .. 1 : carry[k + 1] = s
    BY <1>1, <2>1 DEF Carries
  <2>4. carry[k] = (e + s) \div R /\ d[k + 1] = (e + s) % R
    BY <1>1, <1>2, <2>1, <2>2, <2>3 DEF Carries
  <2>5. /\ (e + s) \div R \in 0 .. 1 /\ (e + s) % R = e + s - R * ((e + s) \div R)
        /\ (e + s) % R \in 0 .. R - 1
    BY CarryStep
  <2>6. QED
    BY <2>2, <2>3, <2>4, <2>5
<1>4. d \in Block
  <2>1. ASSUME NEW k \in 1 .. BlockBytes PROVE d[k] \in Byte
    <3>1. k - 1 \in 0 .. BlockBytes - 1 /\ (k - 1) + 1 = k
      BY BlockBytesAssumption
    <3>2. d[k] \in 0 .. R - 1
      BY <1>3, <3>1
    <3>3. QED
      BY <1>2, <3>2 DEF Byte, ByteRadix
  <2>2. d = [k \in 1 .. BlockBytes |-> d[k]]
    BY <1>1 DEF Carries
  <2> HIDE DEF d
  <2>3. QED
    BY <2>1, <2>2 DEF Block
<1> HIDE DEF d
<1>5. PICK v : NumberSums(c, v)
  BY NumberUnfold
<1>6. PICK w : NumberSums(d, w)
  BY <1>4, NumberUnfold
<1>7. PICK z \in 0 .. 1 : carry[0] = z
  BY <1>1, BlockBytesAssumption DEF Carries
<1> DEFINE S == {k \in Nat : k <= BlockBytes =>
                   w[k] + z * Pow2[ByteBits * k] = v[k] + carry[k]}
<1>8. 0 \in S
  <2>1. ByteBits * 0 = 0
    BY ByteBitsAssumption
  <2>2. QED
    BY <1>5, <1>6, <1>7, <2>1, Pow2Unfold DEF NumberSums
<1>9. ASSUME NEW k \in S PROVE k + 1 \in S
  <2>1. SUFFICES ASSUME k + 1 <= BlockBytes
                 PROVE  w[k + 1] + z * Pow2[ByteBits * (k + 1)]
                          = v[k + 1] + carry[k + 1]
    OBVIOUS
  <2>2. k \in Nat /\ k \in 0 .. BlockBytes - 1 /\ k \in 0 .. BlockBytes /\ k <= BlockBytes
    BY <2>1, BlockBytesAssumption
  <2>3. PICK P \in Nat \ {0} : Pow2[ByteBits * k] = P
    <3>1. ByteBits * k \in Nat
      BY <2>2, ByteBitsAssumption
    <3>2. QED
      BY <3>1, Pow2Unfold
  <2>4. Pow2[ByteBits * (k + 1)] = P * R
    BY <1>2, <2>2, <2>3, Pow2Digits, ByteBitsAssumption DEF ByteRadix
  <2>5. PICK x \in Int, y \in Int : v[k] = x /\ w[k] = y
    BY <1>5, <1>6, <2>2 DEF NumberSums
  <2>6. PICK e \in Int, s \in Int, t \in Int :
          c[k + 1] = e /\ carry[k + 1] = s /\ carry[k] = t
    BY <1>3, <2>2
  <2>7. d[k + 1] = e + s - R * t
    BY <1>3, <2>2, <2>6
  <2>8. v[k + 1] = x * R + e
    BY <1>2, <1>5, <2>2, <2>5, <2>6 DEF NumberSums
  <2>9. w[k + 1] = y * R + (e + s - R * t)
    BY <1>2, <1>6, <2>2, <2>5, <2>7 DEF NumberSums
  <2>10. y + z * P = x + t
    BY <2>2, <2>3, <2>5, <2>6
  <2>11. (y * R + (e + s - R * t)) + z * (P * R) = (x * R + e) + s
    <3>1. (y + z * P) * R = (x + t) * R
      BY <2>10
    <3>2. (y + z * P) * R = y * R + z * (P * R) /\ (x + t) * R = x * R + R * t
      OBVIOUS
    <3>3. PICK a \in Int, b \in Int, f \in Int, g \in Int :
            a = y * R /\ b = z * (P * R) /\ f = x * R /\ g = R * t
      OBVIOUS
    <3>4. a + b = f + g
      BY <3>1, <3>2, <3>3
    <3>5. (a + (e + s - g)) + b = (f + e) + s
      BY <3>4
    <3>6. QED
      BY <3>3, <3>5
  <2>12. QED
    BY <2>4, <2>6, <2>8, <2>9, <2>11
<1> HIDE DEF S
<1>10. S = Nat
  BY <1>8, <1>9, SetInduction DEF S
<1>11. PICK P \in Nat \ {0} : Pow2[ByteBits * BlockBytes] = P
  <2>1. ByteBits * BlockBytes \in Nat
    BY ByteBitsAssumption, BlockBytesAssumption
  <2>2. QED
    BY <2>1, Pow2Unfold
<1>12. PICK x \in Int, y \in 0 .. P - 1 : Number(c) = x /\ Number(d) = y
  BY <1>4, <1>11, NumberBound
<1>13. y + z * P = x + 1
  <2>1. BlockBytes \in S /\ BlockBytes <= BlockBytes
    BY <1>10, BlockBytesAssumption
  <2>2. w[BlockBytes] + z * P = v[BlockBytes] + carry[BlockBytes]
    BY <2>1, <1>11 DEF S
  <2>3. QED
    BY <2>2, <1>1, <1>5, <1>6, <1>12 DEF Carries, NumberSums
<1>14. (x + 1) % P = y
  <2>1. x + 1 = P * z + y /\ x + 1 \in Int /\ z \in Int /\ y \in Int /\ 0 <= y /\ y < P
    BY <1>13
  <2>2. PICK n \in Int : n = x + 1
    OBVIOUS
  <2>3. n % P = y
    BY <2>1, <2>2, DivModUnique
  <2>4. QED
    BY <2>2, <2>3
<1>15. QED
  BY <1>4, <1>11, <1>12, <1>14, Zenon DEF d

(***************************************************************************)
(* The counters of a call, and its bytes of key stream.                    *)
(***************************************************************************)
(* The counters are what counting up from the first one gives. *)
LEMMA CounterUnfold ==
  ASSUME firstCounter \in Block
  PROVE  /\ \A n \in Nat : Counter(n) \in Block
         /\ Counter(0) = firstCounter
         /\ \A n \in Nat : Counter(n + 1) = IncrementCounter(Counter(n))
<1> DEFINE step == [p \in Nat \X Block |-> IncrementCounter(p[2])]
<1>1. step \in StepFunctions(Block)
  <2>1. ASSUME NEW p \in Nat \X Block PROVE IncrementCounter(p[2]) \in Block
    <3>1. p[2] \in Block
      OBVIOUS
    <3>2. QED
      BY <3>1, IncrementExact
  <2>2. QED
    BY <2>1 DEF StepFunctions
<1>2. \A n \in Nat, c \in Block : step[<<n, c>>] = IncrementCounter(c)
  OBVIOUS
<1> HIDE DEF step
<1>3. PICK f : Recursion(Block, firstCounter, step, f)
  BY <1>1, RecursionExists
<1>4. f \in [Nat -> Block] /\ f[0] = firstCounter
  BY <1>3 DEF Recursion
<1>5. \A n \in Nat : f[n + 1] = IncrementCounter(f[n])
  <2>1. ASSUME NEW n \in Nat PROVE f[n + 1] = IncrementCounter(f[n])
    <3>1. f[n] \in Block /\ f[n + 1] = step[<<n, f[n]>>]
      BY <1>3, <1>4 DEF Recursion
    <3>2. QED
      BY <3>1, <1>2
  <2>2. QED
    BY <2>1
<1>6. ASSUME NEW n \in Nat PROVE Counter(n) = f[n]
  <2> DEFINE Body(g) == [j \in 0 .. n |-> IF j = 0 THEN firstCounter
                                          ELSE IncrementCounter(g[j - 1])]
             h == [j \in 0 .. n |-> f[j]]
             c == CHOOSE g : g = Body(g)
  <2>1. h = Body(h)
    <3>1. ASSUME NEW j \in 0 .. n, j # 0
          PROVE  h[j] = IncrementCounter(h[j - 1])
      <4>1. j - 1 \in Nat /\ j - 1 \in 0 .. n /\ (j - 1) + 1 = j
        BY <3>1
      <4>2. f[(j - 1) + 1] = IncrementCounter(f[j - 1])
        BY <4>1, <1>5
      <4>3. QED
        BY <4>1, <4>2
    <3>2. h[0] = firstCounter
      BY <1>4
    <3> HIDE DEF h
    <3>3. h = [j \in 0 .. n |-> h[j]]
      BY DEF h
    <3>4. QED
      BY <3>1, <3>2, <3>3
  <2>2. c = Body(c)
    BY <2>1
  <2>3. Counter(n) = c[n]
    BY DEF Counter
  <2> HIDE DEF c, h
  <2> DEFINE S == {j \in Nat : j <= n => c[j] = f[j]}
  <2>4. 0 \in S
    BY <1>4, <2>2
  <2>5. ASSUME NEW j \in S PROVE j + 1 \in S
    <3>1. SUFFICES ASSUME j + 1 <= n PROVE c[j + 1] = f[j + 1]
      OBVIOUS
    <3>2. j \in Nat /\ c[j] = f[j] /\ j + 1 \in 0 .. n /\ (j + 1) - 1 = j /\ j + 1 # 0
      BY <3>1
    <3>3. c[j + 1] = IncrementCounter(c[j])
      BY <2>2, <3>2
    <3>4. QED
      BY <3>2, <3>3, <1>5
  <2> HIDE DEF S
  <2>6. S = Nat
    BY <2>4, <2>5, SetInduction DEF S
  <2>7. QED
    BY <2>3, <2>6 DEF S
<1>7. QED
  BY <1>4, <1>5, <1>6

(* Counter n denotes the first number plus n. *)
LEMMA CounterNumber ==
  ASSUME firstCounter \in Block, NEW n \in Nat
  PROVE  Number(Counter(n))
           = (Number(firstCounter) + n) % Pow2[ByteBits * BlockBytes]
<1>1. PICK P \in Nat \ {0} : Pow2[ByteBits * BlockBytes] = P
  <2>1. ByteBits * BlockBytes \in Nat
    BY ByteBitsAssumption, BlockBytesAssumption
  <2>2. QED
    BY <2>1, Pow2Unfold
<1>2. PICK x \in 0 .. P - 1 : Number(firstCounter) = x
  BY <1>1, NumberBound
<1> DEFINE S == {k \in Nat : Number(Counter(k)) = (x + k) % P}
<1>3. 0 \in S
  <2>1. (x + 0) % P = x
    <3>1. PICK y \in Int : y = x + 0
      OBVIOUS
    <3>2. y = P * 0 + x /\ 0 \in Int /\ x \in Int /\ 0 <= x /\ x < P
      BY <3>1
    <3>3. y % P = x
      BY <3>2, DivModUnique
    <3>4. QED
      BY <3>1, <3>3
  <2>2. QED
    BY <2>1, <1>2, CounterUnfold
<1>4. ASSUME NEW k \in S PROVE k + 1 \in S
  <2>1. k \in Nat /\ Counter(k) \in Block /\ Counter(k + 1) = IncrementCounter(Counter(k))
    BY CounterUnfold
  <2>2. Number(Counter(k + 1)) = (Number(Counter(k)) + 1) % P
    BY <2>1, <1>1, IncrementExact
  <2>3. (((x + k) % P) + 1) % P = (x + (k + 1)) % P
    <3>1. x \in Int /\ k \in Int /\ P \in Nat \ {0}
      BY <2>1
    <3>2. QED
      BY <3>1, ModSuccessor, Zenon
  <2>4. QED
    BY <2>1, <2>2, <2>3
<1> HIDE DEF S
<1>5. S = Nat
  BY <1>3, <1>4, SetInduction DEF S
<1>6. QED
  BY <1>1, <1>2, <1>5 DEF S

(* Inside a block the key stream is that of the block's counter. *)
LEMMA StreamOfBlock ==
  ASSUME firstCounter \in Block, NEW b \in Nat, b % BlockBytes = 0,
         NEW k \in 0 .. BlockBytes - 1
  PROVE  /\ Stream(b + k) = Cipher(Counter(b \div BlockBytes))[k + 1]
         /\ (b + k) \div BlockBytes = b \div BlockBytes
<1>1. PICK B \in Nat \ {0} : BlockBytes = B
  BY BlockBytesAssumption
<1>2. PICK q \in Int : b \div B = q /\ b = B * q
  <2>1. b \in Int
    OBVIOUS
  <2>2. b \div B \in Int /\ b = B * (b \div B) + (b % B)
    BY <2>1, DivMod
  <2>3. QED
    BY <2>2, <1>1
<1>3. (b + k) \div B = q /\ (b + k) % B = k
  <2>1. PICK y \in Int : y = b + k
    OBVIOUS
  <2>2. y = B * q + k /\ k \in Int /\ 0 <= k /\ k < B
    BY <1>1, <1>2, <2>1
  <2>3. y % B = k /\ y \div B = q
    BY <2>2, DivModUnique
  <2>4. QED
    BY <2>1, <2>3
<1>4. QED
  BY <1>1, <1>2, <1>3 DEF Stream

(* A length is rounded up to the end of its last block. *)
LEMMA WholeBlocksExact ==
  ASSUME NEW b \in Nat, b % BlockBytes = 0
  PROVE  /\ WholeBlocks(b) = b
         /\ \A c \in 1 .. BlockBytes : WholeBlocks(b + c) = b + BlockBytes
<1>1. PICK B \in Nat \ {0} : BlockBytes = B
  BY BlockBytesAssumption
<1>2. PICK q \in Int : b = B * q
  <2>1. b \in Int
    OBVIOUS
  <2>2. b \div B \in Int /\ b = B * (b \div B) + (b % B)
    BY <2>1, DivMod
  <2>3. QED
    BY <2>2, <1>1
<1>3. WholeBlocks(b) = b
  <2>1. PICK y \in Int : y = b + B - 1
    OBVIOUS
  <2>2. y = B * q + (B - 1) /\ B - 1 \in Int /\ 0 <= B - 1 /\ B - 1 < B
    BY <1>2, <2>1
  <2>3. y \div B = q
    BY <2>2, DivModUnique
  <2>4. (b + BlockBytes - 1) \div BlockBytes = q
    BY <1>1, <2>1, <2>3
  <2>5. QED
    BY <1>1, <1>2, <2>4 DEF WholeBlocks
<1>4. ASSUME NEW c \in 1 .. BlockBytes PROVE WholeBlocks(b + c) = b + BlockBytes
  <2>1. PICK y \in Int : y = (b + c) + B - 1
    BY <1>1
  <2>2. PICK q1 \in Int : q1 = q + 1 /\ B * q1 = B * q + B
    OBVIOUS
  <2>3. y = B * q1 + (c - 1) /\ c - 1 \in Int /\ 0 <= c - 1 /\ c - 1 < B
    BY <1>1, <1>2, <2>1, <2>2
  <2>4. y \div B = q1
    BY <2>3, DivModUnique
  <2>5. ((b + c) + BlockBytes - 1) \div BlockBytes = q1
    BY <1>1, <2>1, <2>4
  <2>6. q1 * B = b + B
    BY <1>2, <2>2
  <2>7. QED
    BY <1>1, <2>5, <2>6 DEF WholeBlocks
<1>5. QED
  BY <1>3, <1>4

(***************************************************************************)
(* One block, byte by byte.                                                *)
(***************************************************************************)
(* Bytes are natural numbers, and 1 is one of them. *)
LEMMA ByteNat == Byte \subseteq Nat /\ 1 \in Byte
<1>1. PICK c \in Nat : ByteBits = c + 1
  <2>1. ByteBits - 1 \in Nat /\ ByteBits = (ByteBits - 1) + 1
    BY ByteBitsAssumption
  <2>2. QED
    BY <2>1
<1>2. Pow2[c + 1] = 2 * Pow2[c] /\ Pow2[c] \in Nat \ {0}
  BY Pow2Unfold
<1>3. QED
  BY <1>1, <1>2 DEF Byte

(* What a block writes: only its own BlockBytes bytes of output; there, input *)
(* exclusive or key stream when the input lies apart from them, and zeros     *)
(* when it lies in the same place.                                            *)
LEMMA EncryptToWrites ==
  ASSUME memory \in [Address -> Byte], currentCounter \in Block,
         NEW at \in Nat, NEW from \in Nat, NEW count \in 0 .. BlockBytes,
         at + BlockBytes <= MemoryBytes, from + count <= MemoryBytes,
         EncryptTo(at, from, count)
  PROVE  /\ memory' \in [Address -> Byte]
         /\ \A a \in Address :
              a < at \/ at + BlockBytes <= a => memory'[a] = memory[a]
         /\ from + count <= at \/ at + BlockBytes <= from =>
              \A j \in 0 .. count - 1 :
                memory'[at + j] = Xor(memory[from + j], Cipher(currentCounter)[j + 1])
         /\ from = at => \A j \in 0 .. count - 1 : memory'[at + j] = 0
<1> DEFINE V == [Address -> Byte]
           stream == Cipher(currentCounter)
           first == [a \in Address |-> IF at <= a /\ a < at + BlockBytes
                                       THEN stream[a - at + 1] ELSE memory[a]]
           step == [p \in (0 .. count - 1) \X V |->
                      [p[2] EXCEPT ![at + p[1]] = Xor(@, p[2][from + p[1]])]]
           Body(g) == [k \in 0 .. count |->
                         IF k = 0 THEN first
                         ELSE LET done == g[k - 1]
                              IN  [done EXCEPT ![at + k - 1] = Xor(@, done[from + k - 1])]]
           m == CHOOSE g : g = Body(g)
<1>1. /\ BlockBytes \in Nat /\ MemoryBytes \in Nat /\ count \in Nat /\ count <= BlockBytes
      /\ at \in Nat /\ from \in Nat
  BY BlockBytesAssumption, MemoryAssumption
<1>2. /\ \A k \in 0 .. BlockBytes - 1 : at + k \in Address
      /\ \A k \in 0 .. count - 1 : from + k \in Address
  BY <1>1 DEF Address
<1>3. stream \in [1 .. BlockBytes -> Byte]
  BY CipherAssumption DEF Block
<1> HIDE DEF stream
<1>4. first \in V
  <2>1. ASSUME NEW a \in Address, at <= a, a < at + BlockBytes
        PROVE  stream[a - at + 1] \in Byte
    <3>1. a - at + 1 \in 1 .. BlockBytes
      BY <1>1, <2>1 DEF Address
    <3>2. QED
      BY <3>1, <1>3
  <2>2. QED
    BY <2>1
<1>5. \A a, b \in Byte : Xor(a, b) \in Byte
  BY ByteNat, XorByte
<1>6. step \in [(0 .. count - 1) \X V -> V]
  <2>1. ASSUME NEW k \in 0 .. count - 1, NEW s \in V
        PROVE  [s EXCEPT ![at + k] = Xor(@, s[from + k])] \in V
    <3>1. at + k \in Address /\ from + k \in Address
      BY <1>1, <1>2
    <3>2. s[at + k] \in Byte /\ s[from + k] \in Byte
      BY <3>1
    <3>3. Xor(s[at + k], s[from + k]) \in Byte
      BY <3>2, <1>5
    <3>4. QED
      BY <3>3
  <2>2. ASSUME NEW p \in (0 .. count - 1) \X V
        PROVE  [p[2] EXCEPT ![at + p[1]] = Xor(@, p[2][from + p[1]])] \in V
    <3>1. p[1] \in 0 .. count - 1 /\ p[2] \in V
      OBVIOUS
    <3> HIDE DEF V
    <3>2. QED
      BY <2>1, <3>1
  <2>3. QED
    BY <2>2
<1>7. \A k \in 0 .. count - 1, s \in V :
        step[<<k, s>>] = [s EXCEPT ![at + k] = Xor(@, s[from + k])]
  OBVIOUS
<1> HIDE DEF step, first, V
<1>8. PICK f : SolvesUpTo(count, V, first, step, f)
  BY <1>1, <1>4, <1>6, BoundedRecursionSolves
<1>9. f = Body(f)
  <2>1. ASSUME NEW k \in 0 .. count, k # 0
        PROVE  f[k] = [f[k - 1] EXCEPT ![at + k - 1] = Xor(@, f[k - 1][from + k - 1])]
    <3>1. /\ k - 1 \in 0 .. count - 1 /\ k - 1 \in 0 .. count
          /\ at + k - 1 = at + (k - 1) /\ from + k - 1 = from + (k - 1)
      BY <1>1, <2>1
    <3>2. f[k] = step[<<k - 1, f[k - 1]>>] /\ f[k - 1] \in V
      BY <2>1, <3>1, <1>8 DEF SolvesUpTo
    <3>3. QED
      BY <3>1, <3>2, <1>7
  <2>2. f \in [0 .. count -> V] /\ f[0] = first
    <3>1. 0 \in 0 .. count
      BY <1>1
    <3>2. QED
      BY <3>1, <1>8 DEF SolvesUpTo
  <2>3. f = [k \in 0 .. count |-> f[k]]
    BY <2>2
  <2>4. QED
    BY <2>1, <2>2, <2>3
<1>10. m = Body(m)
  BY <1>9
<1>11. memory' = m[count]
  BY DEF EncryptTo, first, stream
<1> HIDE DEF m
<1>12. m[0] = first
  BY <1>1, <1>10
<1>13. \A k \in 0 .. count - 1 :
         m[k + 1] = [m[k] EXCEPT ![at + k] = Xor(@, m[k][from + k])]
  <2>1. ASSUME NEW k \in 0 .. count - 1
        PROVE  m[k + 1] = [m[k] EXCEPT ![at + k] = Xor(@, m[k][from + k])]
    <3>1. /\ k + 1 \in 0 .. count /\ k + 1 # 0 /\ (k + 1) - 1 = k
          /\ at + (k + 1) - 1 = at + k /\ from + (k + 1) - 1 = from + k
      BY <1>1
    <3>2. QED
      BY <3>1, <1>10
  <2>2. QED
    BY <2>1
<1> DEFINE Apart2 == from + count <= at \/ at + BlockBytes <= from
           Done(k, h) ==
             /\ h \in V
             /\ \A a \in Address : a < at \/ at + BlockBytes <= a => h[a] = memory[a]
             /\ \A j \in 0 .. BlockBytes - 1 : j >= k => h[at + j] = stream[j + 1]
             /\ Apart2 => \A j \in 0 .. k - 1 :
                            h[at + j] = Xor(memory[from + j], stream[j + 1])
             /\ from = at => \A j \in 0 .. k - 1 : h[at + j] = 0
           S == {k \in Nat : k <= count => Done(k, m[k])}
<1>14. 0 \in S
  <2>1. ASSUME NEW a \in Address, a < at \/ at + BlockBytes <= a
        PROVE  first[a] = memory[a]
    BY <1>1, <2>1 DEF first, Address
  <2>2. ASSUME NEW j \in 0 .. BlockBytes - 1 PROVE first[at + j] = stream[j + 1]
    <3>1. /\ at + j \in Address /\ at <= at + j /\ at + j < at + BlockBytes
          /\ (at + j) - at + 1 = j + 1
      BY <1>1, <1>2
    <3>2. QED
      BY <3>1 DEF first
  <2>3. Done(0, first)
    BY <1>4, <2>1, <2>2
  <2>4. QED
    BY <2>3, <1>12
<1>15. ASSUME NEW k \in S PROVE k + 1 \in S
  <2>1. SUFFICES ASSUME k + 1 <= count PROVE Done(k + 1, m[k + 1])
    OBVIOUS
  <2>2. /\ k \in Nat /\ k \in 0 .. count - 1 /\ k \in 0 .. BlockBytes - 1
        /\ Done(k, m[k])
    <3>1. k \in Nat /\ (k <= count => Done(k, m[k]))
      OBVIOUS
    <3> HIDE DEF Done
    <3>2. QED
      BY <3>1, <2>1, <1>1
  <2> DEFINE h == m[k]
             x == Xor(h[at + k], h[from + k])
             g == [h EXCEPT ![at + k] = x]
  <2>3. m[k + 1] = g
    BY <2>2, <1>13
  <2>4. at + k \in Address /\ from + k \in Address
    BY <1>2, <2>2
  <2>5. h \in V /\ h[at + k] = stream[k + 1]
    BY <2>2
  <2>6. stream[k + 1] \in Byte /\ h[from + k] \in Byte
    <3>1. k + 1 \in 1 .. BlockBytes
      BY <2>2, <1>1
    <3>2. QED
      BY <3>1, <2>4, <2>5, <1>3 DEF V
  <2>7. x \in Byte
    BY <2>5, <2>6, <1>5
  <2>8. Apart2 => x = Xor(memory[from + k], stream[k + 1])
    <3>1. SUFFICES ASSUME Apart2 PROVE x = Xor(memory[from + k], stream[k + 1])
      OBVIOUS
    <3>2. from + k < at \/ at + BlockBytes <= from + k
      BY <3>1, <2>2, <1>1
    <3>3. h[from + k] = memory[from + k]
      BY <2>2, <2>4, <3>2
    <3>4. memory[from + k] \in Byte /\ stream[k + 1] \in Byte
      BY <3>3, <2>6
    <3>5. Xor(stream[k + 1], memory[from + k]) = Xor(memory[from + k], stream[k + 1])
      BY <3>4, XorCommutes
    <3>6. QED
      BY <2>5, <3>3, <3>5
  <2>9. from = at => x = 0
    BY <2>5, <2>6, ByteNat, XorSelf
  <2> HIDE DEF x
  <2>10. g \in V /\ \A a \in Address : g[a] = IF a = at + k THEN x ELSE h[a]
    BY <2>5, <2>7, <2>4 DEF V
  <2> HIDE DEF g, h
  <2>11. Done(k, h)
    BY <2>2 DEF h
  <2>12. ASSUME NEW a \in Address, a < at \/ at + BlockBytes <= a
         PROVE  g[a] = memory[a]
    <3>1. a # at + k
      BY <2>12, <2>2, <1>1 DEF Address
    <3>2. QED
      BY <3>1, <2>10, <2>11, <2>12
  <2>13. ASSUME NEW j \in 0 .. BlockBytes - 1, j # k
         PROVE  g[at + j] = h[at + j]
    <3>1. at + j \in Address /\ at + j # at + k
      BY <2>13, <1>1, <1>2, <2>2
    <3>2. QED
      BY <3>1, <2>10
  <2>14. ASSUME NEW j \in 0 .. BlockBytes - 1, j >= k + 1
         PROVE  g[at + j] = stream[j + 1]
    <3>1. j # k /\ j >= k
      BY <2>14, <2>2
    <3>2. QED
      BY <3>1, <2>11, <2>13
  <2>15. g[at + k] = x
    BY <2>4, <2>10
  <2>16. ASSUME NEW j \in 0 .. (k + 1) - 1
         PROVE  /\ Apart2 => g[at + j] = Xor(memory[from + j], stream[j + 1])
                /\ from = at => g[at + j] = 0
    <3>1. CASE j = k
      <4> HIDE DEF Apart2
      <4>1. QED
        BY <3>1, <2>8, <2>9, <2>15
    <3>2. CASE j # k
      <4>1. j \in 0 .. k - 1 /\ j \in 0 .. BlockBytes - 1
        BY <3>2, <2>2, <1>1
      <4>2. g[at + j] = h[at + j]
        BY <3>2, <4>1, <2>13
      <4> HIDE DEF Apart2
      <4>3. QED
        BY <4>1, <4>2, <2>11
    <3>3. QED
      BY <3>1, <3>2
  <2> HIDE DEF Apart2
  <2>17. QED
    BY <2>3, <2>10, <2>12, <2>14, <2>16
<1> HIDE DEF S
<1>16. S = Nat
  BY <1>14, <1>15, SetInduction DEF S
<1>17. Done(count, m[count])
  BY <1>1, <1>16 DEF S
<1>18. QED
  BY <1>11, <1>17 DEF V, stream

-----------------------------------------------------------------------------
(***************************************************************************)
(* The inductive invariant.  RoundTrip is about what the second call reads *)
(* back, so it needs the cipher text the call has not reached to be intact *)
(* (CipherIntact); OutputExact needs the message not reached to be intact, *)
(* which WritesWholeBlocks says; and both need the counter to be that of   *)
(* the block, and the block to begin where the last one ended.             *)
(***************************************************************************)
AtBlock == bytesEncrypted % BlockBytes = 0 \/ bytesEncrypted = layout.length

CounterOfBlock == currentCounter = Counter(bytesEncrypted \div BlockBytes)

CipherIntact ==
  second /\ Apart(layout.in, layout.out) /\ Apart(layout.out, layout.back) =>
    \A k \in bytesEncrypted .. layout.length - 1 :
      memory[layout.out + k] = Xor(before[layout.in + k], Stream(k))

IInv ==
  /\ TypeOK
  /\ AtBlock
  /\ CounterOfBlock
  /\ WritesWholeBlocks
  /\ OutputExact
  /\ CipherIntact
  /\ RoundTrip

(* One block of a call, whole (count = BlockBytes) or the last part of the *)
(* message.                                                                 *)
Encrypts(count) ==
  /\ bytesEncrypted % BlockBytes = 0
  /\ bytesEncrypted + count <= layout.length
  /\ count = BlockBytes \/ bytesEncrypted + count = layout.length
  /\ EncryptNext(count)
  /\ currentCounter' = IF count = BlockBytes THEN IncrementCounter(currentCounter)
                       ELSE currentCounter
  /\ bytesEncrypted' = bytesEncrypted + count
  /\ UNCHANGED <<layout, firstCounter, second, before>>

(* The types of the numbers a step computes with. *)
LEMMA Numbers ==
  ASSUME TypeOK
  PROVE  /\ BlockBytes \in Nat \ {0} /\ MemoryBytes \in Nat
         /\ {layout.in, layout.out, layout.back, layout.length, Input, Output} \subseteq Nat
         /\ \A at \in {layout.in, layout.out, layout.back, Input, Output} :
              at + WholeBlocks(layout.length) <= MemoryBytes
         /\ bytesEncrypted \in Nat /\ bytesEncrypted <= layout.length
<1>1. /\ layout \in [in : Nat, out : Nat, back : Nat, length : Nat]
      /\ \A at \in {layout.in, layout.out, layout.back} :
           at + WholeBlocks(layout.length) <= MemoryBytes
  BY LayoutsAssumption DEF TypeOK
<1>2. {Input, Output} \subseteq {layout.in, layout.out, layout.back}
  BY DEF Input, Output
<1>3. layout.length \in Nat
  BY <1>1
<1>4. bytesEncrypted \in Nat /\ bytesEncrypted <= layout.length
  BY <1>3 DEF TypeOK
<1>5. QED
  BY <1>1, <1>2, <1>4, BlockBytesAssumption, MemoryAssumption

(* EncryptBlock and EncryptPart are such steps. *)
LEMMA BlockOrPart ==
  ASSUME TypeOK, AtBlock, EncryptBlock \/ EncryptPart
  PROVE  \E count \in 1 .. BlockBytes : Encrypts(count)
<1> USE Numbers
<1>1. CASE EncryptBlock
  <2>1. bytesEncrypted % BlockBytes = 0
    BY <1>1 DEF EncryptBlock, AtBlock
  <2>2. Encrypts(BlockBytes)
    BY <1>1, <2>1 DEF EncryptBlock, Encrypts
  <2>3. BlockBytes \in 1 .. BlockBytes
    OBVIOUS
  <2>4. QED
    BY <2>2, <2>3
<1>2. CASE EncryptPart
  <2> DEFINE count == layout.length - bytesEncrypted
  <2>1. bytesEncrypted % BlockBytes = 0
    BY <1>2 DEF EncryptPart, AtBlock
  <2>2. /\ count \in 1 .. BlockBytes /\ count # BlockBytes
        /\ bytesEncrypted + count = layout.length
    BY <1>2 DEF EncryptPart
  <2>3. Encrypts(count)
    BY <1>2, <2>1, <2>2 DEF EncryptPart, Encrypts
  <2>4. QED
    BY <2>2, <2>3
<1>3. QED
  BY <1>1, <1>2

(* A length is at most the whole blocks it takes. *)
LEMMA WholeBlocksUp ==
  ASSUME NEW n \in Nat
  PROVE  WholeBlocks(n) \in Nat /\ n <= WholeBlocks(n)
<1>1. PICK B \in Nat \ {0} : BlockBytes = B
  BY BlockBytesAssumption
<1>2. PICK y \in Nat : y = n + B - 1
  OBVIOUS
<1>3. PICK q \in Int, r \in 0 .. B - 1 : y \div B = q /\ y = B * q + r
  <2>1. y \div B \in Int /\ y % B \in 0 .. B - 1 /\ y = B * (y \div B) + (y % B)
    BY DivMod
  <2>2. QED
    BY <2>1
<1>4. WholeBlocks(n) = q * B
  BY <1>1, <1>2, <1>3, Zenon DEF WholeBlocks
<1>5. PICK z \in Int : q * B = z /\ B * q = z
  OBVIOUS
<1>6. QED
  BY <1>2, <1>3, <1>4, <1>5

(* The places such a step writes lie in its output, and what it writes there. *)
LEMMA EncryptsWrites ==
  ASSUME TypeOK, CounterOfBlock, NEW count \in 1 .. BlockBytes, Encrypts(count)
  PROVE  /\ WholeBlocks(bytesEncrypted) = bytesEncrypted
         /\ WholeBlocks(bytesEncrypted') = bytesEncrypted + BlockBytes
         /\ memory' \in [Address -> Byte]
         /\ \A a \in Address :
              a < Output + bytesEncrypted \/ Output + bytesEncrypted + BlockBytes <= a
                => memory'[a] = memory[a]
         /\ Apart(Input, Output) =>
              \A k \in bytesEncrypted .. bytesEncrypted' - 1 :
                memory'[Output + k] = Xor(memory[Input + k], Stream(k))
         /\ Input = Output =>
              \A k \in bytesEncrypted .. bytesEncrypted' - 1 : memory'[Output + k] = 0
<1> DEFINE b == bytesEncrypted
           at == Output + b
           from == Input + b
<1>1. /\ BlockBytes \in Nat \ {0} /\ MemoryBytes \in Nat
      /\ Input \in Nat /\ Output \in Nat /\ b \in Nat /\ layout.length \in Nat
      /\ Input + WholeBlocks(layout.length) <= MemoryBytes
      /\ Output + WholeBlocks(layout.length) <= MemoryBytes
  BY Numbers
<1>2. /\ b % BlockBytes = 0 /\ b + count <= layout.length
      /\ count = BlockBytes \/ b + count = layout.length
      /\ EncryptTo(at, from, count) /\ bytesEncrypted' = b + count
  BY DEF Encrypts, EncryptNext
<1>3. /\ WholeBlocks(b) = b /\ WholeBlocks(b + count) = b + BlockBytes
  BY <1>1, <1>2, WholeBlocksExact
<1>4. b + BlockBytes <= WholeBlocks(layout.length)
  <2>1. CASE b + count = layout.length
    BY <1>1, <1>3, <2>1
  <2>2. CASE count = BlockBytes
    BY <1>1, <1>2, <2>2, WholeBlocksUp
  <2>3. QED
    BY <1>2, <2>1, <2>2
<1>5. WholeBlocks(layout.length) \in Nat /\ layout.length <= WholeBlocks(layout.length)
  BY <1>1, WholeBlocksUp
<1>6. at \in Nat /\ from \in Nat /\ at + BlockBytes <= MemoryBytes /\ from + count <= MemoryBytes
  BY <1>1, <1>2, <1>4, <1>5
<1>7. memory \in [Address -> Byte] /\ currentCounter \in Block /\ firstCounter \in Block
  BY DEF TypeOK
<1>8. count \in 0 .. BlockBytes
  BY <1>1
<1>9. ASSUME NEW k \in b .. (b + count) - 1
      PROVE  /\ k - b \in 0 .. count - 1 /\ at + (k - b) = Output + k
             /\ from + (k - b) = Input + k
             /\ Stream(k) = Cipher(currentCounter)[(k - b) + 1]
  <2>1. /\ k - b \in 0 .. count - 1 /\ k - b \in 0 .. BlockBytes - 1
        /\ b + (k - b) = k /\ at + (k - b) = Output + k
        /\ from + (k - b) = Input + k
    BY <1>1
  <2>2. Stream(b + (k - b)) = Cipher(Counter(b \div BlockBytes))[(k - b) + 1]
    BY <1>1, <1>2, <1>7, <2>1, StreamOfBlock
  <2>3. QED
    BY <2>1, <2>2 DEF CounterOfBlock
<1>10. Apart(Input, Output) => from + count <= at \/ at + BlockBytes <= from
  BY <1>1, <1>2 DEF Apart
<1> HIDE DEF at, from
<1>11. /\ memory' \in [Address -> Byte]
       /\ \A a \in Address : a < at \/ at + BlockBytes <= a => memory'[a] = memory[a]
       /\ from + count <= at \/ at + BlockBytes <= from =>
            \A j \in 0 .. count - 1 :
              memory'[at + j] = Xor(memory[from + j], Cipher(currentCounter)[j + 1])
       /\ from = at => \A j \in 0 .. count - 1 : memory'[at + j] = 0
  BY <1>2, <1>6, <1>7, <1>8, EncryptToWrites
<1>12. ASSUME Apart(Input, Output), NEW k \in b .. (b + count) - 1
       PROVE  memory'[Output + k] = Xor(memory[Input + k], Stream(k))
  <2>1. memory'[at + (k - b)]
          = Xor(memory[from + (k - b)], Cipher(currentCounter)[(k - b) + 1])
    BY <1>9, <1>10, <1>11, <1>12
  <2>2. QED
    BY <2>1, <1>9
<1>13. ASSUME Input = Output, NEW k \in b .. (b + count) - 1
       PROVE  memory'[Output + k] = 0
  <2>1. from = at
    BY <1>13 DEF from, at
  <2>2. QED
    BY <2>1, <1>9, <1>11
<1>14. at = Output + b
  BY DEF at
<1>15. QED
  BY <1>2, <1>3, <1>11, <1>12, <1>13, <1>14

(* The key stream of a call does not change while it is executed. *)
LEMMA StreamUnchanged ==
  ASSUME firstCounter' = firstCounter
  PROVE  /\ \A n : Counter(n)' = Counter(n)
         /\ \A k : Stream(k)' = Stream(k)
<1>1. \A n : Counter(n)' = Counter(n)
  BY DEF Counter
<1>2. QED
  BY <1>1 DEF Stream

(* The key stream is made of bytes. *)
LEMMA StreamByte ==
  ASSUME firstCounter \in Block, NEW k \in Nat
  PROVE  Stream(k) \in Byte
<1>1. PICK B \in Nat \ {0} : BlockBytes = B
  BY BlockBytesAssumption
<1>2. k \div B \in Nat /\ k % B \in 0 .. B - 1
  OBVIOUS
<1>3. k \div BlockBytes \in Nat /\ (k % BlockBytes) + 1 \in 1 .. BlockBytes
  BY <1>1, <1>2
<1>4. Cipher(Counter(k \div BlockBytes)) \in Block
  BY <1>3, CounterUnfold, CipherAssumption
<1>5. QED
  BY <1>3, <1>4 DEF Block, Stream

(* The counter goes from block to block with the bytes encrypted. *)
LEMMA EncryptsCounts ==
  ASSUME TypeOK, CounterOfBlock, NEW count \in 1 .. BlockBytes, Encrypts(count)
  PROVE  /\ currentCounter' \in Block
         /\ CounterOfBlock'
         /\ AtBlock'
<1>1. PICK B \in Nat \ {0} : BlockBytes = B
  BY BlockBytesAssumption
<1>2. PICK b \in Nat : bytesEncrypted = b /\ b % B = 0
  BY <1>1, Numbers DEF Encrypts
<1>3. PICK q \in Nat : b \div B = q /\ b = B * q
  <2>1. b \div B \in Int /\ b = B * (b \div B) + (b % B)
    BY DivMod
  <2>2. PICK q \in Int : b \div B = q /\ b = B * q
    BY <1>2, <2>1
  <2>3. q >= 0
    <3>1. SUFFICES ASSUME q <= -1 PROVE FALSE
      BY <2>2
    <3>2. B * q <= B * (-1)
      BY <3>1
    <3>3. QED
      BY <2>2, <3>2
  <2>4. QED
    BY <2>2, <2>3
<1>4. /\ firstCounter \in Block /\ currentCounter \in Block
      /\ currentCounter = Counter(q)
  BY <1>1, <1>2, <1>3 DEF TypeOK, CounterOfBlock
<1>5. \A n : Counter(n)' = Counter(n)
  BY StreamUnchanged DEF Encrypts
<1>6. /\ bytesEncrypted' = b + count /\ layout' = layout
      /\ count = B \/ b + count = layout.length
      /\ currentCounter' = IF count = B THEN IncrementCounter(currentCounter)
                           ELSE currentCounter
  BY <1>1, <1>2 DEF Encrypts
<1>7. CASE count = B
  <2>1. PICK y \in Int, p \in Nat : y = b + count /\ p = q + 1
    BY <1>1
  <2>2. y = B * p + 0
    <3>1. B * p = B * q + B
      BY <2>1
    <3>2. QED
      BY <2>1, <3>1, <1>3, <1>7
  <2>3. y \div B = p /\ y % B = 0
    BY <2>2, DivModUnique
  <2>4. /\ Counter(q + 1) = IncrementCounter(Counter(q))
        /\ Counter(q + 1) \in Block
    BY <1>4, CounterUnfold
  <2>5. currentCounter' = Counter(p)
    BY <1>4, <1>6, <1>7, <2>1, <2>4
  <2>6. bytesEncrypted' = y /\ (bytesEncrypted \div BlockBytes)' = p
    BY <1>1, <1>6, <2>1, <2>3
  <2>7. CounterOfBlock'
    BY <1>5, <2>5, <2>6 DEF CounterOfBlock
  <2>8. AtBlock'
    BY <1>1, <2>3, <2>6 DEF AtBlock
  <2>9. QED
    BY <2>1, <2>4, <2>5, <2>7, <2>8
<1>8. CASE count # B
  <2>1. PICK y \in Int : y = b + count
    BY <1>1
  <2>2. y = B * q + count /\ count \in Int /\ 0 <= count /\ count < B
    BY <1>1, <1>3, <1>8, <2>1
  <2>3. y \div B = q
    BY <2>2, DivModUnique
  <2>4. (bytesEncrypted \div BlockBytes)' = q /\ currentCounter' = currentCounter
    BY <1>1, <1>6, <1>8, <2>1, <2>3
  <2>5. CounterOfBlock'
    BY <1>4, <1>5, <2>4 DEF CounterOfBlock
  <2>6. AtBlock'
    BY <1>6, <1>8 DEF AtBlock
  <2>7. QED
    BY <1>4, <2>4, <2>5, <2>6
<1>9. QED
  BY <1>7, <1>8

(* EncryptBlock and EncryptPart keep the invariant, part by part. *)
LEMMA EncryptsKeeps ==
  ASSUME IInv, NEW count \in 1 .. BlockBytes, Encrypts(count)
  PROVE  IInv'
<1> DEFINE b == bytesEncrypted
<1>0. TypeOK /\ CounterOfBlock
  BY DEF IInv
<1>1. /\ BlockBytes \in Nat \ {0} /\ MemoryBytes \in Nat /\ b \in Nat
      /\ layout.in \in Nat /\ layout.out \in Nat /\ layout.back \in Nat
      /\ layout.length \in Nat /\ Input \in Nat /\ Output \in Nat
      /\ \A at \in {layout.in, layout.out, layout.back} :
           at + WholeBlocks(layout.length) <= MemoryBytes
  BY <1>0, Numbers
<1>2. /\ bytesEncrypted' = b + count /\ b + count <= layout.length
      /\ UNCHANGED <<layout, firstCounter, second, before, Input, Output>>
  BY DEF Encrypts, Input, Output
<1>3. \A k : Stream(k)' = Stream(k)
  BY <1>2, StreamUnchanged
<1>4. /\ WholeBlocks(b) = b /\ WholeBlocks(b + count) = b + BlockBytes
      /\ memory' \in [Address -> Byte]
      /\ \A a \in Address : a < Output + b \/ Output + b + BlockBytes <= a
                              => memory'[a] = memory[a]
      /\ Apart(Input, Output) =>
           \A k \in b .. (b + count) - 1 :
             memory'[Output + k] = Xor(memory[Input + k], Stream(k))
      /\ Input = Output =>
           \A k \in b .. (b + count) - 1 : memory'[Output + k] = 0
  BY <1>0, <1>2, EncryptsWrites
<1>5. WholeBlocks(layout.length) \in Nat /\ layout.length <= WholeBlocks(layout.length)
  BY <1>1, WholeBlocksUp
<1>6. /\ WritesWholeBlocks /\ OutputExact /\ CipherIntact /\ RoundTrip
  BY DEF IInv
<1>7. currentCounter' \in Block /\ CounterOfBlock' /\ AtBlock'
  BY <1>0, EncryptsCounts
<1>8. \A at \in {layout.in, layout.out, layout.back}, k \in 0 .. layout.length - 1 :
        at + k \in Address
  BY <1>1, <1>5 DEF Address
<1>9. TypeOK'
  BY <1>0, <1>1, <1>2, <1>4, <1>7 DEF TypeOK
<1>10. WritesWholeBlocks'
  <2>1. SUFFICES ASSUME NEW a \in Address
                 PROVE  \/ InOutput(a, layout.out,
                                    IF second THEN layout.length ELSE b + count)
                        \/ second /\ InOutput(a, layout.back, b + count)
                        \/ memory'[a] = before[a]
    BY <1>2 DEF WritesWholeBlocks, InOutput
  <2>2. /\ a \in Nat
        /\ \/ InOutput(a, layout.out, IF second THEN layout.length ELSE b)
           \/ second /\ InOutput(a, layout.back, b)
           \/ memory[a] = before[a]
    BY <1>1, <1>6 DEF WritesWholeBlocks, Address
  <2>3. CASE second
    BY <1>1, <1>4, <2>2, <2>3 DEF InOutput, Output
  <2>4. CASE ~second
    BY <1>1, <1>4, <2>2, <2>4 DEF InOutput, Output
  <2>5. QED
    BY <2>3, <2>4
<1>11. OutputExact'
  <2>1. ASSUME ~second, Apart(layout.in, layout.out), NEW k \in 0 .. (b + count) - 1
        PROVE  memory'[layout.out + k] = Xor(before[layout.in + k], Stream(k))
    <3>1. Input = layout.in /\ Output = layout.out
      BY <2>1 DEF Input, Output
    <3>2. CASE k < b
      <4>1. /\ k \in 0 .. b - 1 /\ layout.out + k \in Address
            /\ layout.out + k < Output + b
        BY <1>1, <1>2, <1>8, <3>1, <3>2
      <4>2. memory[layout.out + k] = Xor(before[layout.in + k], Stream(k))
        BY <1>6, <2>1, <4>1 DEF OutputExact
      <4>3. QED
        BY <1>4, <4>1, <4>2
    <3>3. CASE k >= b
      <4>1. k \in b .. (b + count) - 1 /\ k \in 0 .. layout.length - 1
        BY <1>1, <1>2, <3>3
      <4>2. layout.in + k \in Address
        BY <1>8, <4>1
      <4>3. ~InOutput(layout.in + k, layout.out, b)
        BY <1>1, <1>4, <2>1, <4>1 DEF InOutput, Apart
      <4>4. memory[layout.in + k] = before[layout.in + k]
        BY <1>6, <2>1, <4>2, <4>3 DEF WritesWholeBlocks
      <4>5. memory'[layout.out + k] = Xor(memory[layout.in + k], Stream(k))
        BY <1>4, <2>1, <3>1, <4>1
      <4>6. QED
        BY <4>4, <4>5
    <3>4. QED
      BY <1>1, <3>2, <3>3
  <2>2. ASSUME Input = Output, NEW k \in 0 .. (b + count) - 1
        PROVE  memory'[Output + k] = 0
    <3>1. CASE k < b
      <4>1. /\ k \in 0 .. b - 1 /\ k \in 0 .. layout.length - 1
            /\ Output + k < Output + b
        BY <1>1, <1>2, <3>1
      <4>2. Output + k \in Address
        BY <1>8, <4>1 DEF Output
      <4>3. memory[Output + k] = 0
        BY <1>6, <2>2, <4>1 DEF OutputExact
      <4>4. QED
        BY <1>4, <4>1, <4>2, <4>3
    <3>2. CASE k >= b
      BY <1>1, <1>4, <2>2, <3>2
    <3>3. QED
      BY <1>1, <3>1, <3>2
  <2>3. QED
    BY <1>2, <1>3, <2>1, <2>2 DEF OutputExact, Apart
<1>12. CipherIntact'
  <2>1. ASSUME second, Apart(layout.in, layout.out), Apart(layout.out, layout.back),
               NEW k \in b + count .. layout.length - 1
        PROVE  memory'[layout.out + k] = Xor(before[layout.in + k], Stream(k))
    <3>1. Input = layout.out /\ Output = layout.back
      BY <2>1 DEF Input, Output
    <3>2. k \in b .. layout.length - 1 /\ k \in 0 .. layout.length - 1
      BY <1>1
    <3>3. count = BlockBytes
      BY <1>1, <1>2, <3>2 DEF Encrypts
    <3>4. layout.out + k \in Address
      BY <1>8, <3>2
    <3>5. layout.out + k < Output + b \/ Output + b + BlockBytes <= layout.out + k
      BY <1>1, <2>1, <3>1, <3>3 DEF Apart
    <3>6. memory'[layout.out + k] = memory[layout.out + k]
      BY <1>4, <3>4, <3>5
    <3>7. memory[layout.out + k] = Xor(before[layout.in + k], Stream(k))
      BY <1>6, <2>1, <3>2 DEF CipherIntact
    <3>8. QED
      BY <3>6, <3>7
  <2>2. QED
    BY <1>2, <1>3, <2>1 DEF CipherIntact, Apart
<1>13. RoundTrip'
  <2>1. ASSUME second, Apart(layout.in, layout.out), Apart(layout.out, layout.back),
               NEW k \in 0 .. (b + count) - 1
        PROVE  memory'[layout.back + k] = before[layout.in + k]
    <3>1. Input = layout.out /\ Output = layout.back
      BY <2>1 DEF Input, Output
    <3>2. k \in 0 .. layout.length - 1
      BY <1>1, <1>2
    <3>3. layout.back + k \in Address /\ layout.in + k \in Address
      BY <1>8, <3>2
    <3>4. CASE k < b
      <4>1. k \in 0 .. b - 1 /\ layout.back + k < Output + b
        BY <1>1, <3>1, <3>4
      <4>2. memory[layout.back + k] = before[layout.in + k]
        BY <1>6, <2>1, <4>1 DEF RoundTrip
      <4>3. QED
        BY <1>4, <3>3, <4>1, <4>2
    <3>5. CASE k >= b
      <4>1. k \in b .. (b + count) - 1 /\ k \in b .. layout.length - 1
        BY <1>1, <1>2, <3>5
      <4>2. memory[layout.out + k] = Xor(before[layout.in + k], Stream(k))
        BY <1>6, <2>1, <4>1 DEF CipherIntact
      <4>3. memory'[layout.back + k] = Xor(memory[layout.out + k], Stream(k))
        BY <1>4, <2>1, <3>1, <4>1
      <4>4. before[layout.in + k] \in Byte /\ Stream(k) \in Byte
        <5>1. before \in [Address -> Byte]
          BY <1>0 DEF TypeOK
        <5>2. QED
          BY <1>0, <3>2, <3>3, <5>1, StreamByte DEF TypeOK
      <4>5. QED
        BY <4>2, <4>3, <4>4, XorBack
    <3>6. QED
      BY <1>1, <3>4, <3>5
  <2>2. QED
    BY <1>2, <2>1 DEF RoundTrip, Apart
<1>14. QED
  BY <1>7, <1>9, <1>10, <1>11, <1>12, <1>13 DEF IInv

(* CallAgain keeps it: the cipher text is what the second call will read. *)
LEMMA CallAgainKeeps ==
  ASSUME IInv, CallAgain
  PROVE  IInv'
<1>1. /\ TypeOK /\ WritesWholeBlocks /\ OutputExact
      /\ bytesEncrypted = layout.length /\ ~second
  BY DEF IInv, CallAgain
<1>2. /\ second' /\ second' = TRUE /\ bytesEncrypted' = 0
      /\ currentCounter' = firstCounter
      /\ UNCHANGED <<layout, firstCounter, memory, before>>
  BY DEF CallAgain
<1>3. BlockBytes \in Nat \ {0} /\ layout.length \in Nat
  BY <1>1, Numbers
<1>4. \A n : Counter(n)' = Counter(n) /\ Stream(n)' = Stream(n)
  BY <1>2, StreamUnchanged
<1>5. 0 \div BlockBytes = 0 /\ 0 % BlockBytes = 0
  <2>1. PICK B \in Nat \ {0} : BlockBytes = B
    BY <1>3
  <2>2. 0 \div B = 0 /\ 0 % B = 0
    OBVIOUS
  <2>3. QED
    BY <2>1, <2>2
<1>6. TypeOK'
  BY <1>1, <1>2, <1>3 DEF TypeOK
<1>7. AtBlock'
  BY <1>2, <1>5 DEF AtBlock
<1>8. CounterOfBlock'
  <2>1. Counter(0) = firstCounter
    BY <1>1, CounterUnfold DEF TypeOK
  <2>2. QED
    BY <1>2, <1>4, <1>5, <2>1 DEF CounterOfBlock
<1>9. WritesWholeBlocks'
  BY <1>1, <1>2 DEF WritesWholeBlocks, InOutput
<1>10. OutputExact'
  BY <1>2 DEF OutputExact
<1>11. CipherIntact'
  BY <1>1, <1>2, <1>4 DEF CipherIntact, OutputExact, Apart
<1>12. RoundTrip'
  BY <1>2 DEF RoundTrip
<1>13. QED
  BY <1>6, <1>7, <1>8, <1>9, <1>10, <1>11, <1>12 DEF IInv

(* The first call begins with the invariant. *)
LEMMA InitIInv == Init => IInv
<1>1. SUFFICES ASSUME Init PROVE IInv
  OBVIOUS
<1>2. /\ layout \in Layouts /\ firstCounter \in Block /\ currentCounter = firstCounter
      /\ second = FALSE /\ before = memory /\ bytesEncrypted = 0
  BY <1>1, CountersAssumption DEF Init
<1>3. /\ layout \in [in : Nat, out : Nat, back : Nat, length : Nat]
      /\ \A message \in Messages : layout.length <= Len(message)
  BY <1>2, LayoutsAssumption
<1>4. PICK message \in Messages :
        memory = [at \in Address |->
                    IF layout.in <= at /\ at < layout.in + layout.length
                    THEN message[at - layout.in + 1] ELSE Filler]
  BY <1>1 DEF Init
<1>5. memory \in [Address -> Byte]
  <2>1. ASSUME NEW at \in Address, layout.in <= at, at < layout.in + layout.length
        PROVE  message[at - layout.in + 1] \in Byte
    <3>1. message \in Seq(Byte) /\ layout.length <= Len(message)
      BY <1>3, MessagesAssumption
    <3>2. Len(message) \in Nat /\ at \in Nat /\ layout.in \in Nat /\ layout.length \in Nat
      BY <1>3, <3>1, MemoryAssumption DEF Address
    <3>3. at - layout.in + 1 \in 1 .. Len(message)
      BY <2>1, <3>1, <3>2
    <3>4. QED
      BY <3>1, <3>3
  <2>2. QED
    BY <1>4, <2>1, ByteNat DEF Filler
<1>6. TypeOK
  <2>1. bytesEncrypted \in 0 .. layout.length
    BY <1>2, <1>3
  <2>2. second \in BOOLEAN
    BY <1>2
  <2>3. QED
    BY <1>2, <1>5, <2>1, <2>2 DEF TypeOK
<1>7. 0 \div BlockBytes = 0 /\ 0 % BlockBytes = 0
  <2>1. PICK B \in Nat \ {0} : BlockBytes = B
    BY BlockBytesAssumption
  <2>2. 0 \div B = 0 /\ 0 % B = 0
    OBVIOUS
  <2>3. QED
    BY <2>1, <2>2
<1>8. AtBlock /\ CounterOfBlock
  <2>1. Counter(0) = firstCounter
    BY <1>2, CounterUnfold
  <2>2. QED
    BY <1>2, <1>7, <2>1 DEF AtBlock, CounterOfBlock
<1>9. WritesWholeBlocks /\ OutputExact /\ CipherIntact /\ RoundTrip
  BY <1>2 DEF WritesWholeBlocks, OutputExact, CipherIntact, RoundTrip
<1>10. QED
  BY <1>6, <1>8, <1>9 DEF IInv

(* Every step keeps the invariant, and so does a step that changes nothing. *)
LEMMA NextIInv == IInv /\ [Next]_vars => IInv'
<1>1. SUFFICES ASSUME IInv, [Next]_vars PROVE IInv'
  OBVIOUS
<1>2. TypeOK /\ AtBlock
  BY <1>1 DEF IInv
<1>3. CASE EncryptBlock \/ EncryptPart
  BY <1>1, <1>2, <1>3, BlockOrPart, EncryptsKeeps
<1>4. CASE CallAgain
  BY <1>1, <1>4, CallAgainKeeps
<1>5. CASE UNCHANGED vars
  <2>1. /\ \A n : Counter(n)' = Counter(n) /\ Stream(n)' = Stream(n)
        /\ UNCHANGED <<Input, Output>>
    BY <1>5, StreamUnchanged DEF vars, Input, Output
  <2>2. QED
    BY <1>1, <1>5, <2>1
    DEF vars, IInv, TypeOK, AtBlock, CounterOfBlock, WritesWholeBlocks, InOutput,
        OutputExact, CipherIntact, RoundTrip, Apart
<1>6. QED
  BY <1>1, <1>3, <1>4, <1>5 DEF Next, Step, Stopped

-----------------------------------------------------------------------------
(***************************************************************************)
(* The theorems.                                                           *)
(***************************************************************************)
(* The inductive invariant holds throughout. *)
THEOREM AlwaysIInv == Spec => []IInv
BY InitIInv, NextIInv, PTL DEF Spec

(* aesEncrypt's counter, bytes and positions stay in their types: a carry of *)
(* incrementCounter never leaves a byte wider than a byte.                   *)
THEOREM TypeCorrect == Spec => []TypeOK
<1>1. IInv => TypeOK
  BY DEF IInv
<1>2. QED
  BY <1>1, AlwaysIInv, PTL

(* incrementCounter: before block n the counter denotes the first one plus n, *)
(* modulo the numbers there are, so no counter comes twice before all have.   *)
THEOREM CounterAlwaysCounts == Spec => []CounterCounts
<1>1. IInv => CounterCounts
  <2>1. SUFFICES ASSUME IInv PROVE CounterCounts
    OBVIOUS
  <2>2. firstCounter \in Block /\ currentCounter = Counter(bytesEncrypted \div BlockBytes)
    BY <2>1 DEF IInv, TypeOK, CounterOfBlock
  <2>3. bytesEncrypted \div BlockBytes \in Nat
    <3>1. PICK b \in Nat, B \in Nat \ {0} : bytesEncrypted = b /\ BlockBytes = B
      BY <2>1, Numbers DEF IInv
    <3>2. b \div B \in Nat
      OBVIOUS
    <3>3. QED
      BY <3>1, <3>2
  <2>4. QED
    BY <2>2, <2>3, CounterNumber DEF CounterCounts
<1>2. QED
  BY <1>1, AlwaysIInv, PTL

(* aesEncrypt writes input exclusive or key stream when its output lies apart *)
(* from its input, and zeros when the two are one buffer.                     *)
THEOREM OutputAlwaysExact == Spec => []OutputExact
<1>1. IInv => OutputExact
  BY DEF IInv
<1>2. QED
  BY <1>1, AlwaysIInv, PTL

(* TestAes: what the second call has written is the message again. *)
THEOREM RoundTripAlways == Spec => []RoundTrip
<1>1. IInv => RoundTrip
  BY DEF IInv
<1>2. QED
  BY <1>1, AlwaysIInv, PTL

(* Nothing but the outputs, up to a whole block, is ever written. *)
THEOREM WritesOnlyWholeBlocks == Spec => []WritesWholeBlocks
<1>1. IInv => WritesWholeBlocks
  BY DEF IInv
<1>2. QED
  BY <1>1, AlwaysIInv, PTL

-----------------------------------------------------------------------------
(***************************************************************************)
(* The standard, step by step: what the operators of AesStandard return.   *)
(***************************************************************************)
Polynomials == SUBSET (0 .. 7)
Words       == [0 .. 3 -> Polynomials]

(* A table is the function it is made of. *)
LEMMA TableExact ==
  ASSUME NEW f
  PROVE  Standard!Table(f) = f
BY DEF Standard!Table

(* Sums and products of polynomials are polynomials. *)
LEMMA Sums ==
  ASSUME NEW p \in Polynomials, NEW q \in Polynomials
  PROVE  Standard!Plus(p, q) \in Polynomials
BY DEF Standard!Plus, Polynomials

(* A product is a polynomial. *)
LEMMA Products ==
  ASSUME NEW p, NEW q
  PROVE  Standard!Times(p, q) \in Polynomials
BY DEF Standard!Times, Polynomials

(* The S-box of the standard takes polynomials to polynomials. *)
LEMMA SubByteTyped == Standard!SubByte \in [Polynomials -> Polynomials]
<1> DEFINE S(q) == {i \in 0 .. 7 : Standard!IsOdd({d \in {0, 4, 5, 6, 7} : (i + d) % 8 \in q})}
           f == [p \in Standard!Polynomials |->
                   LET q == Standard!Reciprocal(p)
                   IN  Standard!Plus({0, 1, 5, 6}, S(q))]
<1>1. Standard!SubByte = f
  <2>1. Standard!SubByte = Standard!Table(f)
    BY DEF Standard!SubByte
  <2>2. QED
    BY <2>1, TableExact
<1>2. \A q : S(q) \in Polynomials
  BY DEF Polynomials
<1>3. {0, 1, 5, 6} \in Polynomials
  BY DEF Polynomials
<1> HIDE DEF S
<1>4. \A q : Standard!Plus({0, 1, 5, 6}, S(q)) \in Polynomials
  BY <1>2, <1>3, Sums
<1>5. Standard!Polynomials = Polynomials
  BY DEF Standard!Polynomials, Polynomials
<1>6. QED
  BY <1>1, <1>4, <1>5

(* So do the round constants. *)
LEMMA RoundConstants ==
  /\ \A j \in Nat : Standard!RoundConstant[j] \in Polynomials
  /\ Standard!RoundConstant[1] = {0}
  /\ \A j \in Nat : j >= 1 => Standard!RoundConstant[j + 1]
                               = Standard!Times({1}, Standard!RoundConstant[j])
<1> DEFINE step == [p \in Nat \X Polynomials |->
                      IF p[1] = 0 THEN {0} ELSE Standard!Times({1}, p[2])]
           Body(g) == [j \in Nat |->
                         IF j <= 1 THEN {0} ELSE Standard!Times({1}, g[j - 1])]
<1>1. {0} \in Polynomials
  BY DEF Polynomials
<1>2. step \in StepFunctions(Polynomials)
  BY <1>1, Products DEF StepFunctions
<1>3. PICK f : Solves(Polynomials, {0}, step, f)
  <2> HIDE DEF step
  <2>1. QED
    BY <1>1, <1>2, RecursionSolves
<1>4. f = Body(f)
  <2>1. f \in [Nat -> Polynomials] /\ f[0] = {0}
    BY <1>3 DEF Solves
  <2>2. ASSUME NEW j \in Nat, j # 0
        PROVE  f[j] = IF j <= 1 THEN {0} ELSE Standard!Times({1}, f[j - 1])
    <3>1. j - 1 \in Nat /\ f[j - 1] \in Polynomials /\ f[j] = step[<<j - 1, f[j - 1]>>]
      BY <2>1, <2>2, <1>3 DEF Solves
    <3>2. j - 1 = 0 <=> j <= 1
      BY <2>2
    <3>3. QED
      BY <3>1, <3>2
  <2>3. QED
    BY <2>1, <2>2
<1>5. Standard!RoundConstant = Body(Standard!RoundConstant)
  BY <1>4 DEF Standard!RoundConstant
<1>6. Standard!RoundConstant[0] = {0} /\ Standard!RoundConstant[1] = {0}
  BY <1>5
<1>7. \A j \in Nat : j >= 1 => Standard!RoundConstant[j + 1]
                                = Standard!Times({1}, Standard!RoundConstant[j])
  BY <1>5
<1>8. \A j \in Nat : Standard!RoundConstant[j] \in Polynomials
  <2>1. TAKE j \in Nat
  <2>2. CASE j <= 1
    BY <1>1, <1>5, <2>2
  <2>3. CASE ~(j <= 1)
    BY <1>5, <2>3, Products
  <2>4. QED
    BY <2>2, <2>3
<1>9. QED
  BY <1>6, <1>7, <1>8

(***************************************************************************)
(* The key expansion.  Word i from the one before it and the one eight     *)
(* before it; i counts from zero.                                          *)
(***************************************************************************)
Added(i, last) ==
  CASE i % 8 = 0 ->
         [r \in 0 .. 3 |->
            Standard!Plus(Standard!SubByte[last[(r + 1) % 4]],
                          IF r = 0 THEN Standard!RoundConstant[i \div 8] ELSE {})]
    [] i % 8 = 4 -> [r \in 0 .. 3 |-> Standard!SubByte[last[r]]]
    [] OTHER     -> last

Following(i, first, last) ==
  [r \in 0 .. 3 |-> Standard!Plus(first[r], Added(i, last)[r])]

\* E is the expansion of k.
Expands(k, E) ==
  /\ E \in [1 .. 60 -> Words]
  /\ \A j \in 1 .. 8 : E[j] = [r \in 0 .. 3 |-> k[4 * (j - 1) + r + 1]]
  /\ \A i \in 8 .. 59 : E[i + 1] = Following(i, E[i - 7], E[i])

(* A word is four polynomials. *)
LEMMA FollowingTyped ==
  ASSUME NEW i \in Nat, NEW first \in Words, NEW last \in Words
  PROVE  Following(i, first, last) \in Words
<1>1. {} \in Polynomials
  BY DEF Polynomials
<1>2. \A r \in 0 .. 3 : /\ (r + 1) % 4 \in 0 .. 3
                        /\ last[r] \in Polynomials /\ first[r] \in Polynomials
  BY DEF Words
<1>3. i \div 8 \in Nat
  <2>1. 8 \in Nat \ {0}
    OBVIOUS
  <2>2. QED
    OBVIOUS
<1>4. CASE i % 8 = 0
  <2>1. Added(i, last) =
         [r \in 0 .. 3 |->
            Standard!Plus(Standard!SubByte[last[(r + 1) % 4]],
                          IF r = 0 THEN Standard!RoundConstant[i \div 8] ELSE {})]
    BY <1>4 DEF Added
  <2>2. ASSUME NEW r \in 0 .. 3 PROVE Added(i, last)[r] \in Polynomials
    <3>1. PICK q \in Polynomials : q = Standard!SubByte[last[(r + 1) % 4]]
      BY <1>2, SubByteTyped
    <3>2. PICK c \in Polynomials : c = IF r = 0 THEN Standard!RoundConstant[i \div 8] ELSE {}
      BY <1>1, <1>3, RoundConstants
    <3>3. QED
      BY <2>1, <3>1, <3>2, Sums
  <2>3. QED
    BY <1>2, <2>2, Sums DEF Following, Words
<1>5. CASE i % 8 = 4
  <2>1. Added(i, last) = [r \in 0 .. 3 |-> Standard!SubByte[last[r]]]
    BY <1>5 DEF Added
  <2>2. \A r \in 0 .. 3 : Added(i, last)[r] \in Polynomials
    BY <1>2, <2>1, SubByteTyped
  <2>3. QED
    BY <1>2, <2>2, Sums DEF Following, Words
<1>6. CASE i % 8 # 0 /\ i % 8 # 4
  <2>1. Added(i, last) = last
    BY <1>6 DEF Added
  <2>2. QED
    BY <1>2, <2>1, Sums DEF Following, Words
<1>7. QED
  BY <1>4, <1>5, <1>6

(* The next word of the standard's expansion. *)
LEMMA NextWordExact ==
  ASSUME NEW words \in Seq(Words), NEW i \in Nat, Len(words) = i, i >= 8
  PROVE  /\ Standard!NextWord(words) = Following(i, words[i - 7], words[i])
         /\ Standard!NextWord(words) \in Words
<1>1. words[i - 7] \in Words /\ words[i] \in Words
  BY ElementOfSeq
<1>2. Standard!NextWord(words) = Standard!Table(Following(i, words[i - 7], words[i]))
  BY DEF Standard!NextWord, Following, Added
<1>3. PICK w \in Words : w = Following(i, words[i - 7], words[i])
  BY <1>1, FollowingTyped
<1>4. QED
  BY <1>2, <1>3, TableExact

\* The sequences of words the expansion goes through, from the key on.
KeyWords(k) == [j \in 1 .. 8 |-> [r \in 0 .. 3 |-> k[4 * (j - 1) + r + 1]]]
Sequences8  == {s \in Seq(Words) : Len(s) >= 8}
Longer(s)   == Append(s, Standard!NextWord(s))

(* A member more at the end of a sequence. *)
LEMMA OneMore ==
  ASSUME NEW S, NEW s \in Seq(S), NEW w \in S
  PROVE  /\ Append(s, w) \in Seq(S) /\ Len(Append(s, w)) = Len(s) + 1
         /\ \A j \in 1 .. Len(s) : Append(s, w)[j] = s[j]
         /\ Append(s, w)[Len(s) + 1] = w
  OBVIOUS

(* A word more. *)
LEMMA LongerExact ==
  ASSUME NEW s \in Sequences8
  PROVE  /\ Longer(s) \in Sequences8 /\ Len(Longer(s)) = Len(s) + 1
         /\ \A j \in 1 .. Len(s) : Longer(s)[j] = s[j]
         /\ Longer(s)[Len(s) + 1] = Following(Len(s), s[Len(s) - 7], s[Len(s)])
<1>1. s \in Seq(Words) /\ Len(s) \in Nat /\ Len(s) >= 8
  BY DEF Sequences8
<1>2. PICK w \in Words : /\ w = Standard!NextWord(s)
                         /\ w = Following(Len(s), s[Len(s) - 7], s[Len(s)])
  BY <1>1, NextWordExact
<1>3. PICK t : t = Append(s, w) /\ t = Longer(s)
  BY <1>2 DEF Longer
<1>4. /\ t \in Seq(Words) /\ Len(t) = Len(s) + 1
      /\ \A j \in 1 .. Len(s) : t[j] = s[j]
      /\ t[Len(s) + 1] = w
  <2>1. s \in Seq(Words) /\ w \in Words
    BY <1>1
  <2>2. /\ Append(s, w) \in Seq(Words) /\ Len(Append(s, w)) = Len(s) + 1
        /\ \A j \in 1 .. Len(s) : Append(s, w)[j] = s[j]
        /\ Append(s, w)[Len(s) + 1] = w
    BY <2>1, OneMore, Zenon
  <2>3. QED
    BY <1>3, <2>2, Zenon
<1>5. QED
  BY <1>1, <1>2, <1>3, <1>4 DEF Sequences8

(* The words of a key. *)
LEMMA KeyWordsTyped ==
  ASSUME NEW k \in [1 .. 32 -> Polynomials]
  PROVE  KeyWords(k) \in Sequences8 /\ Len(KeyWords(k)) = 8
<1>1. \A j \in 1 .. 8, r \in 0 .. 3 : 4 * (j - 1) + r + 1 \in 1 .. 32
  OBVIOUS
<1>2. PICK s \in [1 .. 8 -> Words] : s = KeyWords(k)
  BY <1>1 DEF KeyWords, Words
<1>3. s \in Seq(Words)
  <2>1. 8 \in Nat /\ s \in [1 .. 8 -> Words]
    OBVIOUS
  <2>2. s \in UNION {[1 .. n -> Words] : n \in Nat}
    BY <2>1
  <2>3. QED
    BY <2>2, SeqDef, Zenon
<1>4. Len(s) = 8
  <2>1. DOMAIN s = 1 .. 8 /\ DOMAIN s = 1 .. Len(s) /\ Len(s) \in Nat
    BY <1>3, LenProperties
  <2>2. QED
    BY <2>1
<1>5. s \in Sequences8
  <2>1. Len(s) >= 8
    BY <1>4
  <2>2. QED
    BY <1>3, <2>1, Zenon DEF Sequences8
<1>6. QED
  BY <1>2, <1>4, <1>5

\* The first m words of the expansion of k.
Grown(k, s, m) ==
  /\ s \in Sequences8 /\ Len(s) = m
  /\ \A j \in 1 .. 8 : s[j] = KeyWords(k)[j]
  /\ \A i \in 8 .. m - 1 : s[i + 1] = Following(i, s[i - 7], s[i])

(* And one more. *)
LEMMA GrownLonger ==
  ASSUME NEW k, NEW m \in Nat, NEW s, Grown(k, s, m)
  PROVE  Grown(k, Longer(s), m + 1)
<1>1. s \in Sequences8 /\ Len(s) = m /\ m >= 8
  BY DEF Grown, Sequences8
<1>2. PICK t : t = Longer(s)
  OBVIOUS
<1>3. /\ t \in Sequences8 /\ Len(t) = m + 1
      /\ \A j \in 1 .. m : t[j] = s[j]
      /\ t[m + 1] = Following(m, s[m - 7], s[m])
  BY <1>1, <1>2, LongerExact
<1>4. \A j \in 1 .. 8 : t[j] = KeyWords(k)[j]
  BY <1>1, <1>3 DEF Grown
<1>5. ASSUME NEW i \in 8 .. m
      PROVE  t[i + 1] = Following(i, t[i - 7], t[i])
  <2>1. t[i - 7] = s[i - 7] /\ t[i] = s[i]
    BY <1>1, <1>3
  <2>2. CASE i = m
    BY <1>3, <2>1, <2>2
  <2>3. CASE i # m
    <3>1. i \in 8 .. m - 1 /\ i + 1 \in 1 .. m
      BY <1>1, <2>3
    <3>2. s[i + 1] = Following(i, s[i - 7], s[i])
      BY <3>1 DEF Grown
    <3>3. QED
      BY <1>3, <2>1, <3>1, <3>2
  <2>4. QED
    BY <2>2, <2>3
<1>6. (m + 1) - 1 = m
  OBVIOUS
<1>7. QED
  BY <1>2, <1>3, <1>4, <1>5, <1>6 DEF Grown

UpToBody(k, g) ==
  [i \in 8 .. 60 |->
     IF i = 8 THEN KeyWords(k) ELSE Longer(g[i - 1])]

(* The recursion of the expansion has a solution. *)
LEMMA UpToExists ==
  ASSUME NEW k \in [1 .. 32 -> Polynomials]
  PROVE  \E g : g = UpToBody(k, g)
<1> DEFINE step == [p \in (0 .. 51) \X Sequences8 |-> Longer(p[2])]
<1>1. KeyWords(k) \in Sequences8
  BY KeyWordsTyped
<1>2. step \in [(0 .. 51) \X Sequences8 -> Sequences8]
  <2>1. \A p \in (0 .. 51) \X Sequences8 : Longer(p[2]) \in Sequences8
    BY LongerExact
  <2>2. QED
    BY <2>1
<1>3. \A i \in 0 .. 51, s \in Sequences8 : step[<<i, s>>] = Longer(s)
  OBVIOUS
<1> HIDE DEF step
<1>4. PICK f : SolvesUpTo(52, Sequences8, KeyWords(k), step, f)
  <2>1. PICK m \in Nat : m = 52 /\ step \in [(0 .. m - 1) \X Sequences8 -> Sequences8]
    BY <1>2
  <2>2. \E f : SolvesUpTo(m, Sequences8, KeyWords(k), step, f)
    BY <1>1, <2>1, BoundedRecursionSolves
  <2>3. QED
    BY <2>1, <2>2
<1>5. /\ f \in [0 .. 52 -> Sequences8] /\ f[0] = KeyWords(k)
      /\ \A i \in 1 .. 52 : f[i] = Longer(f[i - 1])
  <2>1. f \in [0 .. 52 -> Sequences8] /\ f[0] = KeyWords(k)
    BY <1>4 DEF SolvesUpTo
  <2>2. ASSUME NEW i \in 1 .. 52 PROVE f[i] = Longer(f[i - 1])
    <3>1. i - 1 \in 0 .. 51 /\ f[i - 1] \in Sequences8 /\ i \in 0 .. 52 /\ i # 0
      BY <2>1
    <3>2. f[i] = step[<<i - 1, f[i - 1]>>]
      BY <1>4, <3>1 DEF SolvesUpTo
    <3>3. QED
      BY <1>3, <3>1, <3>2
  <2>3. QED
    BY <2>1, <2>2
<1>6. PICK g : g = [i \in 8 .. 60 |-> f[i - 8]]
  OBVIOUS
<1>7. ASSUME NEW i \in 8 .. 60
      PROVE  g[i] = IF i = 8 THEN KeyWords(k) ELSE Longer(g[i - 1])
  <2>1. CASE i = 8
    BY <1>5, <1>6, <2>1
  <2>2. CASE i # 8
    <3>1. PICK j \in 1 .. 52 : j = i - 8 /\ i - 1 \in 8 .. 60 /\ (i - 1) - 8 = j - 1
      BY <2>2
    <3>2. QED
      BY <1>5, <1>6, <2>2, <3>1
  <2>3. QED
    BY <2>1, <2>2
<1>8. g = UpToBody(k, g)
  <2>1. g = [i \in 8 .. 60 |-> g[i]]
    BY <1>6
  <2>2. QED
    BY <1>7, <2>1 DEF UpToBody
<1>9. QED
  BY <1>8

(* What the standard's key expansion is. *)
LEMMA ExpansionExact ==
  ASSUME NEW k \in [1 .. 32 -> Polynomials]
  PROVE  Expands(k, Standard!Expansion(k))
<1> DEFINE up == CHOOSE g : g = UpToBody(k, g)
<1>1. up = UpToBody(k, up)
  BY UpToExists
<1>2. Standard!Expansion(k) = up[60]
  BY DEF Standard!Expansion, UpToBody, KeyWords, Longer
<1> HIDE DEF up
<1>3. up[8] = KeyWords(k) /\ \A i \in 9 .. 60 : up[i] = Longer(up[i - 1])
  BY <1>1 DEF UpToBody
<1>4. PICK E : E = up[60]
  OBVIOUS
<1> DEFINE S == {n \in Nat : n <= 52 => Grown(k, up[8 + n], 8 + n)}
<1>5. 0 \in S
  <2>1. Grown(k, KeyWords(k), 8)
    BY KeyWordsTyped DEF Grown
  <2>2. QED
    BY <1>3, <2>1
<1>6. ASSUME NEW n \in S PROVE n + 1 \in S
  <2>1. n \in Nat
    OBVIOUS
  <2>2. SUFFICES ASSUME n + 1 <= 52 PROVE Grown(k, up[8 + (n + 1)], 8 + (n + 1))
    BY <2>1
  <2>3. PICK m \in 8 .. 59 : m = 8 + n /\ m + 1 = 8 + (n + 1)
    BY <2>1, <2>2
  <2>4. Grown(k, up[m], m)
    BY <2>1, <2>2, <2>3
  <2>5. up[m + 1] = Longer(up[m])
    <3>1. m + 1 \in 9 .. 60 /\ (m + 1) - 1 = m
      OBVIOUS
    <3>2. QED
      BY <1>3, <3>1
  <2>6. PICK s : s = up[m]
    OBVIOUS
  <2>7. m \in Nat /\ Grown(k, s, m)
    BY <2>4, <2>6
  <2>8. Grown(k, Longer(s), m + 1)
    BY <2>7, GrownLonger
  <2>9. QED
    BY <2>3, <2>5, <2>6, <2>8
<1>7. S = Nat
  <2>1. S \in SUBSET Nat
    OBVIOUS
  <2> HIDE DEF S
  <2>2. QED
    BY <1>5, <1>6, <2>1, SetInduction
<1>8. Grown(k, up[8 + 52], 8 + 52)
  <2>1. 52 \in S
    BY <1>7
  <2>2. QED
    BY <2>1
<1>9. /\ E \in Sequences8 /\ Len(E) = 60
      /\ \A j \in 1 .. 8 : E[j] = KeyWords(k)[j]
      /\ \A i \in 8 .. 59 : E[i + 1] = Following(i, E[i - 7], E[i])
  <2>1. Grown(k, E, 60)
    BY <1>4, <1>8
  <2>2. QED
    BY <2>1 DEF Grown
<1>10. E \in [1 .. 60 -> Words]
  <2>1. E \in Seq(Words) /\ Len(E) = 60
    BY <1>9 DEF Sequences8
  <2>2. E \in [1 .. Len(E) -> Words]
    BY <2>1, LenProperties
  <2>3. QED
    BY <2>1, <2>2
<1>11. QED
  BY <1>2, <1>4, <1>9, <1>10 DEF Expands, KeyWords

(***************************************************************************)
(* The rounds of the standard, from the state after n of them.             *)
(***************************************************************************)
Matrix16 == [(0 .. 3) \X (0 .. 3) -> Polynomials]

\* What round n makes of a state.
RoundOf(words, s, n) ==
  LET shifted == Standard!Table(Standard!ShiftRows(Standard!SubBytes(s)))
  IN  Standard!AddRoundKey(IF n = 14 THEN shifted ELSE Standard!MixColumns(shifted),
                           words, n)

\* The states of a block that is encrypted.
Rounds(words, s, states) ==
  /\ states \in [0 .. 14 -> Matrix16]
  /\ states[0] = Standard!AddRoundKey(s, words, 0)
  /\ \A n \in 1 .. 14 : states[n] = RoundOf(words, states[n - 1], n)

(* Adding a round key gives a matrix, the sums with the words of the round. *)
LEMMA AddRoundKeyExact ==
  ASSUME NEW words \in [1 .. 60 -> Words], NEW s \in Matrix16, NEW n \in 0 .. 14
  PROVE  /\ Standard!AddRoundKey(s, words, n) \in Matrix16
         /\ \A row \in 0 .. 3, col \in 0 .. 3 :
              Standard!AddRoundKey(s, words, n)[<<row, col>>]
                = Standard!Plus(s[<<row, col>>], words[4 * n + col + 1][row])
<1> DEFINE f == [cell \in DOMAIN s |->
                   Standard!Plus(s[cell], words[4 * n + cell[2] + 1][cell[1]])]
<1>1. Standard!AddRoundKey(s, words, n) = f
  <2>1. Standard!AddRoundKey(s, words, n) = Standard!Table(f)
    BY DEF Standard!AddRoundKey
  <2>2. QED
    BY <2>1, TableExact
<1>2. DOMAIN s = (0 .. 3) \X (0 .. 3)
  BY DEF Matrix16
<1>3. ASSUME NEW cell \in (0 .. 3) \X (0 .. 3)
      PROVE  Standard!Plus(s[cell], words[4 * n + cell[2] + 1][cell[1]]) \in Polynomials
  <2>1. cell[1] \in 0 .. 3 /\ cell[2] \in 0 .. 3
    OBVIOUS
  <2>2. 4 * n + cell[2] + 1 \in 1 .. 60
    BY <2>1
  <2>3. words[4 * n + cell[2] + 1] \in Words
    BY <2>2
  <2>4. words[4 * n + cell[2] + 1][cell[1]] \in Polynomials
    BY <2>1, <2>3 DEF Words
  <2>5. s[cell] \in Polynomials
    BY DEF Matrix16
  <2>6. QED
    BY <2>4, <2>5, Sums
<1>4. f \in Matrix16
  BY <1>2, <1>3 DEF Matrix16
<1>5. \A row \in 0 .. 3, col \in 0 .. 3 :
        f[<<row, col>>] = Standard!Plus(s[<<row, col>>], words[4 * n + col + 1][row])
  BY <1>2
<1>6. QED
  BY <1>1, <1>4, <1>5

(* The substitution, the shift and the mixture of a matrix are matrices. *)
LEMMA LayersExact ==
  ASSUME NEW s \in Matrix16
  PROVE  /\ Standard!SubBytes(s) \in Matrix16
         /\ \A row \in 0 .. 3, col \in 0 .. 3 :
              /\ Standard!SubBytes(s)[<<row, col>>] = Standard!SubByte[s[<<row, col>>]]
              /\ Standard!ShiftRows(s)[<<row, col>>] = s[<<row, (col + row) % 4>>]
         /\ Standard!ShiftRows(s) \in Matrix16
         /\ Standard!MixColumns(s) \in Matrix16
<1>1. DOMAIN s = (0 .. 3) \X (0 .. 3)
  BY DEF Matrix16
<1>2. Standard!SubBytes(s) = [cell \in (0 .. 3) \X (0 .. 3) |-> Standard!SubByte[s[cell]]]
  BY <1>1 DEF Standard!SubBytes
<1>3. \A cell \in (0 .. 3) \X (0 .. 3) : s[cell] \in Polynomials
  BY DEF Matrix16
<1>4. Standard!SubBytes(s) \in Matrix16
  BY <1>2, <1>3, SubByteTyped DEF Matrix16
<1>5. Standard!ShiftRows(s)
        = [cell \in (0 .. 3) \X (0 .. 3) |-> s[<<cell[1], (cell[2] + cell[1]) % 4>>]]
  BY <1>1 DEF Standard!ShiftRows
<1>6. Standard!ShiftRows(s) \in Matrix16
  <2>1. ASSUME NEW cell \in (0 .. 3) \X (0 .. 3)
        PROVE  s[<<cell[1], (cell[2] + cell[1]) % 4>>] \in Polynomials
    <3>1. PICK row \in 0 .. 3, col \in 0 .. 3 : row = cell[1] /\ col = cell[2]
      OBVIOUS
    <3>2. (col + row) % 4 \in 0 .. 3
      OBVIOUS
    <3>3. <<row, (col + row) % 4>> \in (0 .. 3) \X (0 .. 3)
      BY <3>2
    <3>4. QED
      BY <1>3, <3>1, <3>3
  <2>2. QED
    BY <1>5, <2>1 DEF Matrix16
<1> DEFINE factor == <<{1}, {0, 1}, {0}, {0}>>
           term(cell, k) ==
             Standard!Times(factor[((k - cell[1] + 4) % 4) + 1], s[<<k, cell[2]>>])
<1>7. Standard!MixColumns(s)
        = [cell \in (0 .. 3) \X (0 .. 3) |->
             Standard!Plus(Standard!Plus(term(cell, 0), term(cell, 1)),
                           Standard!Plus(term(cell, 2), term(cell, 3)))]
  BY <1>1 DEF Standard!MixColumns
<1>8. \A cell, k : term(cell, k) \in Polynomials
  BY Products
<1> HIDE DEF term
<1>9. \A cell : Standard!Plus(Standard!Plus(term(cell, 0), term(cell, 1)),
                              Standard!Plus(term(cell, 2), term(cell, 3))) \in Polynomials
  BY <1>8, Sums
<1>10. Standard!MixColumns(s) \in Matrix16
  BY <1>7, <1>9 DEF Matrix16
<1>11. QED
  BY <1>2, <1>4, <1>5, <1>6, <1>10

(* A column of the mixture: each row begins its factors one further. *)
LEMMA MixColumnsExact ==
  ASSUME NEW s \in Matrix16, NEW col \in 0 .. 3
  PROVE  LET p(row) == s[<<row, col>>]
             x(row) == Standard!Times({1}, s[<<row, col>>])
             y(row) == Standard!Times({0, 1}, s[<<row, col>>])
             z(row) == Standard!Times({0}, s[<<row, col>>])
             mix == Standard!MixColumns(s)
         IN  /\ mix[<<0, col>>] = Standard!Plus(Standard!Plus(x(0), y(1)), Standard!Plus(z(2), z(3)))
             /\ mix[<<1, col>>] = Standard!Plus(Standard!Plus(z(0), x(1)), Standard!Plus(y(2), z(3)))
             /\ mix[<<2, col>>] = Standard!Plus(Standard!Plus(z(0), z(1)), Standard!Plus(x(2), y(3)))
             /\ mix[<<3, col>>] = Standard!Plus(Standard!Plus(y(0), z(1)), Standard!Plus(z(2), x(3)))
<1>1. DOMAIN s = (0 .. 3) \X (0 .. 3)
  BY DEF Matrix16
<1> DEFINE factor == <<{1}, {0, 1}, {0}, {0}>>
           term(cell, k) ==
             Standard!Times(factor[((k - cell[1] + 4) % 4) + 1], s[<<k, cell[2]>>])
           sum(cell) == Standard!Plus(Standard!Plus(term(cell, 0), term(cell, 1)),
                                      Standard!Plus(term(cell, 2), term(cell, 3)))
<1>2. Standard!MixColumns(s) = [cell \in (0 .. 3) \X (0 .. 3) |-> sum(cell)]
  BY <1>1 DEF Standard!MixColumns
<1>3. ASSUME NEW row \in 0 .. 3
      PROVE  Standard!MixColumns(s)[<<row, col>>] = sum(<<row, col>>)
  <2> HIDE DEF sum
  <2>1. QED
    BY <1>2
<1> DEFINE T(p, q) == Standard!Times(p, q)
           at(row, k) == factor[((k - row + 4) % 4) + 1]
<1>4. ASSUME NEW row \in 0 .. 3, NEW k \in 0 .. 3
      PROVE  term(<<row, col>>, k) = T(at(row, k), s[<<k, col>>])
  OBVIOUS
<1>5. factor[1] = {1} /\ factor[2] = {0, 1} /\ factor[3] = {0} /\ factor[4] = {0}
  OBVIOUS
<1> HIDE DEF term, factor, T
<1>6. 0 \in 0 .. 3 /\ 1 \in 0 .. 3 /\ 2 \in 0 .. 3 /\ 3 \in 0 .. 3
  OBVIOUS
<1>7. /\ term(<<0, col>>, 0) = T({1}, s[<<0, col>>])
      /\ term(<<0, col>>, 1) = T({0, 1}, s[<<1, col>>])
      /\ term(<<0, col>>, 2) = T({0}, s[<<2, col>>])
      /\ term(<<0, col>>, 3) = T({0}, s[<<3, col>>])
  <2>1. at(0, 0) = {1} /\ at(0, 1) = {0, 1} /\ at(0, 2) = {0} /\ at(0, 3) = {0}
    BY <1>5
  <2> HIDE DEF at
  <2>2. QED
    BY <2>1, <1>4, <1>6, Zenon
<1>8. /\ term(<<1, col>>, 0) = T({0}, s[<<0, col>>])
      /\ term(<<1, col>>, 1) = T({1}, s[<<1, col>>])
      /\ term(<<1, col>>, 2) = T({0, 1}, s[<<2, col>>])
      /\ term(<<1, col>>, 3) = T({0}, s[<<3, col>>])
  <2>1. at(1, 0) = {0} /\ at(1, 1) = {1} /\ at(1, 2) = {0, 1} /\ at(1, 3) = {0}
    BY <1>5
  <2> HIDE DEF at
  <2>2. QED
    BY <2>1, <1>4, <1>6, Zenon
<1>9. /\ term(<<2, col>>, 0) = T({0}, s[<<0, col>>])
      /\ term(<<2, col>>, 1) = T({0}, s[<<1, col>>])
      /\ term(<<2, col>>, 2) = T({1}, s[<<2, col>>])
      /\ term(<<2, col>>, 3) = T({0, 1}, s[<<3, col>>])
  <2>1. at(2, 0) = {0} /\ at(2, 1) = {0} /\ at(2, 2) = {1} /\ at(2, 3) = {0, 1}
    BY <1>5
  <2> HIDE DEF at
  <2>2. QED
    BY <2>1, <1>4, <1>6, Zenon
<1>10. /\ term(<<3, col>>, 0) = T({0, 1}, s[<<0, col>>])
       /\ term(<<3, col>>, 1) = T({0}, s[<<1, col>>])
       /\ term(<<3, col>>, 2) = T({0}, s[<<2, col>>])
       /\ term(<<3, col>>, 3) = T({1}, s[<<3, col>>])
  <2>1. at(3, 0) = {0, 1} /\ at(3, 1) = {0} /\ at(3, 2) = {0} /\ at(3, 3) = {1}
    BY <1>5
  <2> HIDE DEF at
  <2>2. QED
    BY <2>1, <1>4, <1>6, Zenon
<1>11. QED
  BY <1>3, <1>7, <1>8, <1>9, <1>10 DEF T

(* A round takes a matrix to a matrix. *)
LEMMA RoundTyped ==
  ASSUME NEW words \in [1 .. 60 -> Words], NEW s \in Matrix16, NEW n \in 0 .. 14
  PROVE  RoundOf(words, s, n) \in Matrix16
<1>1. PICK t \in Matrix16 : t = Standard!Table(Standard!ShiftRows(Standard!SubBytes(s)))
  BY LayersExact, TableExact
<1>2. PICK u \in Matrix16 : u = IF n = 14 THEN t ELSE Standard!MixColumns(t)
  BY LayersExact
<1>3. Standard!AddRoundKey(u, words, n) \in Matrix16
  BY AddRoundKeyExact
<1>4. QED
  BY <1>1, <1>2, <1>3 DEF RoundOf

AfterBody(words, s, g) ==
  [n \in 0 .. 14 |->
     IF n = 0 THEN Standard!AddRoundKey(s, words, 0)
     ELSE RoundOf(words, g[n - 1], n)]

(* The encryption of a block by the standard is the last of its states. *)
LEMMA CipherRounds ==
  ASSUME NEW words \in [1 .. 60 -> Words], NEW s \in Matrix16
  PROVE  \E states : Rounds(words, s, states) /\ Standard!Cipher(words, s) = states[14]
<1> DEFINE step == [p \in (0 .. 13) \X Matrix16 |-> RoundOf(words, p[2], p[1] + 1)]
           base == Standard!AddRoundKey(s, words, 0)
<1>1. base \in Matrix16
  <2>1. PICK n \in 0 .. 14 : n = 0
    OBVIOUS
  <2>2. Standard!AddRoundKey(s, words, n) \in Matrix16
    BY AddRoundKeyExact
  <2>3. QED
    BY <2>1, <2>2
<1>2. step \in [(0 .. 13) \X Matrix16 -> Matrix16]
  <2>1. ASSUME NEW p \in (0 .. 13) \X Matrix16
        PROVE  RoundOf(words, p[2], p[1] + 1) \in Matrix16
    <3>1. p[1] + 1 \in 0 .. 14 /\ p[2] \in Matrix16
      OBVIOUS
    <3>2. QED
      BY <3>1, RoundTyped
  <2>2. QED
    BY <2>1
<1>3. \A i \in 0 .. 13, t \in Matrix16 : step[<<i, t>>] = RoundOf(words, t, i + 1)
  OBVIOUS
<1> HIDE DEF step, base
<1>4. PICK f : SolvesUpTo(14, Matrix16, base, step, f)
  <2>1. PICK m \in Nat : m = 14 /\ step \in [(0 .. m - 1) \X Matrix16 -> Matrix16]
    BY <1>2
  <2>2. \E f : SolvesUpTo(m, Matrix16, base, step, f)
    BY <1>1, <2>1, BoundedRecursionSolves
  <2>3. QED
    BY <2>1, <2>2
<1>5. f \in [0 .. 14 -> Matrix16] /\ f[0] = base
  BY <1>4 DEF SolvesUpTo
<1>6. ASSUME NEW n \in 1 .. 14 PROVE f[n] = RoundOf(words, f[n - 1], n)
  <2>1. n - 1 \in 0 .. 13 /\ f[n - 1] \in Matrix16 /\ n \in 0 .. 14 /\ n # 0 /\ (n - 1) + 1 = n
    BY <1>5
  <2>2. f[n] = step[<<n - 1, f[n - 1]>>]
    BY <1>4, <2>1 DEF SolvesUpTo
  <2>3. QED
    BY <1>3, <2>1, <2>2
<1>7. f = AfterBody(words, s, f)
  <2>1. \A n \in 0 .. 14 : n = 0 \/ n \in 1 .. 14
    OBVIOUS
  <2>2. f = [n \in 0 .. 14 |-> f[n]]
    BY <1>5
  <2>3. QED
    BY <1>5, <1>6, <2>1, <2>2 DEF AfterBody, base
<1> DEFINE after == CHOOSE g : g = AfterBody(words, s, g)
<1>8. after = AfterBody(words, s, after)
  BY <1>7
<1>9. Standard!Cipher(words, s) = after[14]
  BY DEF Standard!Cipher, AfterBody, RoundOf
<1> HIDE DEF after
<1>10. after[0] = base /\ \A n \in 1 .. 14 : after[n] = RoundOf(words, after[n - 1], n)
  BY <1>8 DEF AfterBody, base
<1>11. after \in [0 .. 14 -> Matrix16]
  <2> DEFINE S == {n \in Nat : n <= 14 => after[n] \in Matrix16}
  <2>1. 0 \in S
    BY <1>1, <1>10
  <2>2. ASSUME NEW n \in S PROVE n + 1 \in S
    <3>1. SUFFICES ASSUME n + 1 <= 14 PROVE after[n + 1] \in Matrix16
      OBVIOUS
    <3>2. PICK k \in 1 .. 14 : k = n + 1 /\ k - 1 = n /\ after[n] \in Matrix16 /\ k \in 0 .. 14
      BY <3>1
    <3>3. RoundOf(words, after[n], k) \in Matrix16
      BY <3>2, RoundTyped
    <3>4. QED
      BY <1>10, <3>2, <3>3
  <2>3. S \in SUBSET Nat
    OBVIOUS
  <2>4. S = Nat
    <3> HIDE DEF S
    <3>1. QED
      BY <2>1, <2>2, <2>3, SetInduction
  <2>5. \A n \in 0 .. 14 : after[n] \in Matrix16
    BY <2>4
  <2>6. after = [n \in 0 .. 14 |-> after[n]]
    BY <1>8 DEF AfterBody
  <2>7. QED
    BY <2>5, <2>6
<1>12. Rounds(words, s, after)
  BY <1>10, <1>11 DEF Rounds, base
<1>13. QED
  BY <1>9, <1>12

-----------------------------------------------------------------------------
(***************************************************************************)
(* Octets as polynomials.                                                  *)
(***************************************************************************)
(* The powers of two up to the radix of an octet. *)
LEMMA OctetPowers ==
  /\ Pow2[0] = 1 /\ Pow2[1] = 2 /\ Pow2[2] = 4 /\ Pow2[3] = 8 /\ Pow2[4] = 16
  /\ Pow2[5] = 32 /\ Pow2[6] = 64 /\ Pow2[7] = 128 /\ Pow2[8] = 256
<1>1. /\ 0 + 1 = 1 /\ 1 + 1 = 2 /\ 2 + 1 = 3 /\ 3 + 1 = 4 /\ 4 + 1 = 5
      /\ 5 + 1 = 6 /\ 6 + 1 = 7 /\ 7 + 1 = 8
  OBVIOUS
<1>2. QED
  BY <1>1, Pow2Unfold

(* A byte is an octet. *)
LEMMA OctetByte == Byte = 0 .. 255
BY OctetPowers, OctetAssumption DEF Byte

(* The bits of an octet. *)
LEMMA OctetBits ==
  ASSUME NEW v
  PROVE  /\ Bit(v, 0) = (v \div 1) % 2 /\ Bit(v, 1) = (v \div 2) % 2
         /\ Bit(v, 2) = (v \div 4) % 2 /\ Bit(v, 3) = (v \div 8) % 2
         /\ Bit(v, 4) = (v \div 16) % 2 /\ Bit(v, 5) = (v \div 32) % 2
         /\ Bit(v, 6) = (v \div 64) % 2 /\ Bit(v, 7) = (v \div 128) % 2
BY OctetPowers, Zenon DEF Bit

(* The bits of an octet that are set. *)
LEMMA PolyTyped ==
  ASSUME NEW b
  PROVE  /\ Poly(b) \in Polynomials
         /\ \A k \in 0 .. 7 : k \in Poly(b) <=> Bit(b, k) = 1
         /\ \A k \in Poly(b) : k \in 0 .. 7
BY DEF Poly, Polynomials

(* Exclusive or is the sum of polynomials. *)
LEMMA PolyXor ==
  ASSUME NEW v \in Byte, NEW w \in Byte
  PROVE  Poly(Xor(v, w)) = Standard!Plus(Poly(v), Poly(w))
<1>1. v \in Nat /\ w \in Nat
  BY OctetByte
<1>2. ASSUME NEW k \in 0 .. 7
      PROVE  k \in Poly(Xor(v, w)) <=> ~(k \in Poly(v) <=> k \in Poly(w))
  <2>1. k \in Nat /\ k < ByteBits
    BY OctetAssumption
  <2>2. PICK a \in 0 .. 1 : a = Bit(v, k)
    BY <1>1, <2>1, LowStep
  <2>3. PICK b \in 0 .. 1 : b = Bit(w, k)
    BY <1>1, <2>1, LowStep
  <2>4. Bit(Xor(v, w), k) = (a + b) % 2
    BY <2>1, <2>2, <2>3, XorBits DEF XorBit
  <2>5. (a + b) % 2 = 1 <=> ~(a = 1 <=> b = 1)
    OBVIOUS
  <2>6. QED
    BY <2>2, <2>3, <2>4, <2>5, PolyTyped
<1>3. QED
  BY <1>2, PolyTyped DEF Standard!Plus

(* The standard counts a set as the module of finite sets does. *)
LEMMA Cardinalities ==
  ASSUME NEW S
  PROVE  Standard!Cardinality(S) = Cardinality(S)
BY DEF Standard!Cardinality, Cardinality

(* The parity of a set of up to three elements. *)
LEMMA OddOfThree ==
  ASSUME NEW x, NEW y, NEW z, x # y, x # z, y # z, NEW T, T \subseteq {x, y, z}
  PROVE  Standard!IsOdd(T) <=> ~(~(x \in T <=> y \in T) <=> z \in T)
<1>1. \A S : Cardinality(S) = 1 => Standard!IsOdd(S)
  BY Cardinalities DEF Standard!IsOdd
<1>2. \A S : Cardinality(S) = 2 => ~Standard!IsOdd(S)
  BY Cardinalities DEF Standard!IsOdd
<1>3. \A S : Cardinality(S) = 3 => Standard!IsOdd(S)
  BY Cardinalities DEF Standard!IsOdd
<1>4. \A S : Cardinality(S) = 0 => ~Standard!IsOdd(S)
  BY Cardinalities DEF Standard!IsOdd
<1>5. Cardinality({}) = 0
  BY FS_EmptySet
<1>6. \A a : Cardinality({a}) = 1 /\ IsFiniteSet({a})
  BY FS_Singleton
<1>7. ASSUME NEW a, NEW b, a # b
      PROVE  Cardinality({a, b}) = 2 /\ IsFiniteSet({a, b})
  <2>1. PICK S : S = {a}
    OBVIOUS
  <2>2. S \cup {b} = {a, b} /\ b \notin S
    BY <1>7, <2>1
  <2>3. IsFiniteSet(S) /\ Cardinality(S) = 1
    BY <1>6, <2>1
  <2>4. /\ IsFiniteSet(S \cup {b})
        /\ Cardinality(S \cup {b}) = Cardinality(S) + 1
    BY <2>2, <2>3, FS_AddElement
  <2>5. QED
    BY <2>2, <2>3, <2>4
<1>8. ASSUME NEW a, NEW b, NEW c, a # b, a # c, b # c
      PROVE  Cardinality({a, b, c}) = 3
  <2>1. PICK S : S = {a, b}
    OBVIOUS
  <2>2. S \cup {c} = {a, b, c} /\ c \notin S
    BY <1>8, <2>1
  <2>3. IsFiniteSet(S) /\ Cardinality(S) = 2
    BY <1>7, <1>8, <2>1
  <2>4. Cardinality(S \cup {c}) = Cardinality(S) + 1
    BY <2>2, <2>3, FS_AddElement
  <2>5. QED
    BY <2>2, <2>3, <2>4
<1>9. CASE x \in T /\ y \in T /\ z \in T
  <2>1. T = {x, y, z}
    BY <1>9
  <2>2. QED
    BY <1>3, <1>8, <1>9, <2>1
<1>10. CASE x \in T /\ y \in T /\ z \notin T
  <2>1. T = {x, y}
    BY <1>10
  <2>2. QED
    BY <1>2, <1>7, <1>10, <2>1
<1>11. CASE x \in T /\ y \notin T /\ z \in T
  <2>1. T = {x, z}
    BY <1>11
  <2>2. QED
    BY <1>2, <1>7, <1>11, <2>1
<1>12. CASE x \notin T /\ y \in T /\ z \in T
  <2>1. T = {y, z}
    BY <1>12
  <2>2. QED
    BY <1>2, <1>7, <1>12, <2>1
<1>13. CASE x \in T /\ y \notin T /\ z \notin T
  <2>1. T = {x}
    BY <1>13
  <2>2. QED
    BY <1>1, <1>6, <1>13, <2>1
<1>14. CASE x \notin T /\ y \in T /\ z \notin T
  <2>1. T = {y}
    BY <1>14
  <2>2. QED
    BY <1>1, <1>6, <1>14, <2>1
<1>15. CASE x \notin T /\ y \notin T /\ z \in T
  <2>1. T = {z}
    BY <1>15
  <2>2. QED
    BY <1>1, <1>6, <1>15, <2>1
<1>16. CASE x \notin T /\ y \notin T /\ z \notin T
  <2>1. T = {}
    BY <1>16
  <2>2. QED
    BY <1>4, <1>5, <1>16, <2>1
<1>17. QED
  BY <1>9, <1>10, <1>11, <1>12, <1>13, <1>14, <1>15, <1>16

(* The powers of x that a product with a polynomial below x^2 needs. *)
LEMMA PowerTableExact ==
  /\ \A m \in 0 .. 7 : Standard!PowerTable[m] = {m}
  /\ Standard!PowerTable[8] = {0, 1, 3, 4}
<1> DEFINE Up(S) == {i + 1 : i \in S}
           Next1(S) == IF 8 \in Up(S) THEN Standard!Plus(Up(S), {8, 4, 3, 1, 0}) ELSE Up(S)
           V == SUBSET Nat
           step == [p \in (0 .. 13) \X V |-> Next1(p[2])]
           Body(g) == [k \in 0 .. 14 |->
                         IF k = 0 THEN {0}
                         ELSE LET up == {i + 1 : i \in g[k - 1]}
                              IN  IF 8 \in up THEN Standard!Plus(up, {8, 4, 3, 1, 0}) ELSE up]
<1>1. \A S \in V : Next1(S) \in V
  BY DEF Standard!Plus
<1>2. {0} \in V
  OBVIOUS
<1>3. step \in [(0 .. 13) \X V -> V]
  <2> HIDE DEF Next1, V
  <2>1. \A p \in (0 .. 13) \X V : Next1(p[2]) \in V
    BY <1>1
  <2>2. QED
    BY <2>1
<1>4. \A i \in 0 .. 13, S \in V : step[<<i, S>>] = Next1(S)
  <2> HIDE DEF Next1, V
  <2>1. QED
    OBVIOUS
<1> HIDE DEF step, V
<1>5. PICK f : SolvesUpTo(14, V, {0}, step, f)
  <2>1. PICK m \in Nat : m = 14 /\ step \in [(0 .. m - 1) \X V -> V]
    BY <1>3
  <2>2. \E f : SolvesUpTo(m, V, {0}, step, f)
    BY <1>2, <2>1, BoundedRecursionSolves
  <2>3. QED
    BY <2>1, <2>2
<1>6. f \in [0 .. 14 -> V] /\ f[0] = {0}
  BY <1>5 DEF SolvesUpTo
<1>7. ASSUME NEW k \in 1 .. 14 PROVE f[k] = Next1(f[k - 1])
  <2>1. k - 1 \in 0 .. 13 /\ f[k - 1] \in V /\ k \in 0 .. 14 /\ k # 0
    BY <1>6
  <2>2. f[k] = step[<<k - 1, f[k - 1]>>]
    BY <1>5, <2>1 DEF SolvesUpTo
  <2>3. QED
    BY <1>4, <2>1, <2>2
<1>8. f = Body(f)
  <2> DEFINE g == [k \in 0 .. 14 |-> IF k = 0 THEN {0} ELSE Next1(f[k - 1])]
  <2>1. g = Body(f)
    OBVIOUS
  <2>2. f = g
    <3> HIDE DEF Next1
    <3>1. \A k \in 0 .. 14 : k = 0 \/ k \in 1 .. 14
      OBVIOUS
    <3>2. QED
      BY <1>6, <1>7, <3>1
  <2>3. QED
    BY <2>1, <2>2
<1>9. Standard!Power = Body(Standard!Power)
  BY <1>8 DEF Standard!Power
<1>10. PICK h : h = Standard!Power
  OBVIOUS
<1>11. h = Body(h)
  BY <1>9, <1>10
<1>12. h[0] = {0} /\ \A k \in 1 .. 14 : h[k] = Next1(h[k - 1])
  <2>1. \A k \in 0 .. 14 : h[k] = Body(h)[k]
    BY <1>11, Zenon
  <2>2. h[0] = {0}
    BY <2>1
  <2>3. ASSUME NEW k \in 1 .. 14
        PROVE  h[k] = Next1(h[k - 1])
    <3>1. k \in 0 .. 14 /\ k # 0
      OBVIOUS
    <3>2. QED
      BY <2>1, <3>1, Zenon
  <2>4. QED
    BY <2>2, <2>3
<1>13. \A m \in 0 .. 6 : Next1({m}) = {m + 1}
  OBVIOUS
<1>14. Next1({7}) = {0, 1, 3, 4}
  BY DEF Standard!Plus
<1> HIDE DEF Next1
<1>15. /\ h[1] = Next1(h[0]) /\ h[2] = Next1(h[1]) /\ h[3] = Next1(h[2]) /\ h[4] = Next1(h[3])
       /\ h[5] = Next1(h[4]) /\ h[6] = Next1(h[5]) /\ h[7] = Next1(h[6]) /\ h[8] = Next1(h[7])
  BY <1>12
<1>16. /\ Next1({0}) = {1} /\ Next1({1}) = {2} /\ Next1({2}) = {3} /\ Next1({3}) = {4}
       /\ Next1({4}) = {5} /\ Next1({5}) = {6} /\ Next1({6}) = {7}
  BY <1>13
<1>17. /\ h[0] = {0} /\ h[1] = {1} /\ h[2] = {2} /\ h[3] = {3} /\ h[4] = {4} /\ h[5] = {5}
       /\ h[6] = {6} /\ h[7] = {7} /\ h[8] = {0, 1, 3, 4}
  <2>1. h[0] = {0}
    BY <1>12
  <2>2. h[1] = {1}
    BY <2>1, <1>15, <1>16, Zenon
  <2>3. h[2] = {2}
    BY <2>2, <1>15, <1>16, Zenon
  <2>4. h[3] = {3}
    BY <2>3, <1>15, <1>16, Zenon
  <2>5. h[4] = {4}
    BY <2>4, <1>15, <1>16, Zenon
  <2>6. h[5] = {5}
    BY <2>5, <1>15, <1>16, Zenon
  <2>7. h[6] = {6}
    BY <2>6, <1>15, <1>16, Zenon
  <2>8. h[7] = {7}
    BY <2>7, <1>15, <1>16, Zenon
  <2>9. h[8] = {0, 1, 3, 4}
    BY <2>8, <1>15, <1>14, Zenon
  <2>10. QED
    BY <2>1, <2>2, <2>3, <2>4, <2>5, <2>6, <2>7, <2>8, <2>9, Zenon
<1>18. Standard!PowerTable = h
  BY <1>10, TableExact DEF Standard!PowerTable
<1>19. QED
  BY <1>17, <1>18

(* The product with a factor of degree at most one: x^8 comes back as       *)
(* x^4 + x^3 + x + 1.                                                       *)
LEMMA TimesExact ==
  ASSUME NEW F, F \subseteq {0, 1}, NEW p \in Polynomials, NEW k \in 0 .. 7
  PROVE  k \in Standard!Times(F, p)
           <=> ~(~((0 \in F /\ k \in p) <=> (1 \in F /\ k - 1 \in p))
                 <=> (1 \in F /\ 7 \in p /\ k \in {0, 1, 3, 4}))
<1> DEFINE T == {ij \in F \X p : k \in Standard!PowerTable[ij[1] + ij[2]]}
<1>1. k \in Standard!Times(F, p) <=> Standard!IsOdd(T)
  BY DEF Standard!Times
<1>2. PICK x, y, z : x = <<0, k>> /\ y = <<1, k - 1>> /\ z = <<1, 7>>
  OBVIOUS
<1>3. \A j \in p : j \in 0 .. 7
  BY DEF Polynomials
<1>4. ASSUME NEW i \in F, NEW j \in p
      PROVE  k \in Standard!PowerTable[i + j]
               <=> IF i = 0 THEN j = k
                   ELSE IF j = 7 THEN k \in {0, 1, 3, 4} ELSE j = k - 1
  <2>1. j \in 0 .. 7 /\ (i = 0 \/ i = 1)
    BY <1>3
  <2>2. CASE i = 0
    <3>1. i + j = j
      BY <2>1, <2>2
    <3>2. Standard!PowerTable[j] = {j}
      BY <2>1, PowerTableExact
    <3>3. QED
      BY <2>2, <3>1, <3>2
  <2>3. CASE i = 1 /\ j = 7
    <3>1. i + j = 8
      BY <2>3
    <3>2. QED
      BY <2>3, <3>1, PowerTableExact
  <2>4. CASE i = 1 /\ j # 7
    <3>1. PICK m \in 0 .. 7 : m = i + j /\ (m = k <=> j = k - 1)
      BY <2>1, <2>4
    <3>2. Standard!PowerTable[m] = {m}
      BY PowerTableExact
    <3>3. QED
      BY <2>4, <3>1, <3>2
  <2>5. QED
    BY <2>1, <2>2, <2>3, <2>4
<1>5. T \subseteq {x, y, z}
  <2>1. ASSUME NEW i \in F, NEW j \in p, k \in Standard!PowerTable[i + j]
        PROVE  <<i, j>> \in {x, y, z}
    BY <1>2, <1>4, <2>1
  <2>2. ASSUME NEW e \in T PROVE e \in {x, y, z}
    <3>1. e \in F \X p /\ k \in Standard!PowerTable[e[1] + e[2]]
      OBVIOUS
    <3>2. e[1] \in F /\ e[2] \in p /\ e = <<e[1], e[2]>>
      BY <3>1
    <3>3. QED
      BY <2>1, <3>1, <3>2
  <2>3. QED
    BY <2>2
<1>6. x \in T <=> 0 \in F /\ k \in p
  <2>1. x \in F \X p <=> 0 \in F /\ k \in p
    BY <1>2
  <2>2. x[1] = 0 /\ x[2] = k
    BY <1>2
  <2>3. 0 \in F /\ k \in p => k \in Standard!PowerTable[0 + k]
    BY <1>4
  <2>4. QED
    BY <2>1, <2>2, <2>3
<1>7. y \in T <=> 1 \in F /\ k - 1 \in p
  <2>1. y \in F \X p <=> 1 \in F /\ k - 1 \in p
    BY <1>2
  <2>2. y[1] = 1 /\ y[2] = k - 1 /\ k - 1 # 7
    BY <1>2
  <2>3. 1 \in F /\ k - 1 \in p => k \in Standard!PowerTable[1 + (k - 1)]
    BY <1>4, <2>2
  <2>4. QED
    BY <2>1, <2>2, <2>3
<1>8. z \in T <=> 1 \in F /\ 7 \in p /\ k \in {0, 1, 3, 4}
  <2>1. z \in F \X p <=> 1 \in F /\ 7 \in p
    BY <1>2
  <2>2. z[1] = 1 /\ z[2] = 7
    BY <1>2
  <2>3. 1 \in F /\ 7 \in p => (k \in Standard!PowerTable[1 + 7] <=> k \in {0, 1, 3, 4})
    BY <1>4
  <2>4. QED
    BY <2>1, <2>2, <2>3
<1>9. x # y /\ x # z /\ y # z
  <2>1. k - 1 # 7
    OBVIOUS
  <2>2. QED
    BY <1>2, <2>1
<1> HIDE DEF T
<1>10. Standard!IsOdd(T) <=> ~(~(x \in T <=> y \in T) <=> z \in T)
  BY <1>5, <1>9, OddOfThree
<1>11. QED
  BY <1>1, <1>6, <1>7, <1>8, <1>10

(* The three factors of the mixture: one, x, and x + 1. *)
LEMMA Factors ==
  ASSUME NEW p \in Polynomials
  PROVE  /\ Standard!Times({0}, p) = p
         /\ \A k \in 0 .. 7 : k \in Standard!Times({1}, p)
                                <=> ~(k - 1 \in p <=> (7 \in p /\ k \in {0, 1, 3, 4}))
         /\ Standard!Times({0, 1}, p) = Standard!Plus(p, Standard!Times({1}, p))
<1>1. \A F, k : k \in Standard!Times(F, p) => k \in 0 .. 7
  BY DEF Standard!Times
<1>2. \A k \in p : k \in 0 .. 7
  BY DEF Polynomials
<1>3. ASSUME NEW k \in 0 .. 7 PROVE k \in Standard!Times({0}, p) <=> k \in p
  <2>1. PICK F : F = {0}
    OBVIOUS
  <2>2. F \subseteq {0, 1} /\ 0 \in F /\ 1 \notin F
    BY <2>1
  <2>3. QED
    BY <2>1, <2>2, TimesExact
<1>4. ASSUME NEW k \in 0 .. 7
      PROVE  k \in Standard!Times({1}, p)
               <=> ~(k - 1 \in p <=> (7 \in p /\ k \in {0, 1, 3, 4}))
  <2>1. PICK F : F = {1}
    OBVIOUS
  <2>2. F \subseteq {0, 1} /\ 0 \notin F /\ 1 \in F
    BY <2>1
  <2>3. QED
    BY <2>1, <2>2, TimesExact
<1>5. ASSUME NEW k \in 0 .. 7
      PROVE  k \in Standard!Times({0, 1}, p)
               <=> ~(~(k \in p <=> k - 1 \in p) <=> (7 \in p /\ k \in {0, 1, 3, 4}))
  <2>1. PICK F : F = {0, 1}
    OBVIOUS
  <2>2. F \subseteq {0, 1} /\ 0 \in F /\ 1 \in F
    BY <2>1
  <2>3. QED
    BY <2>1, <2>2, TimesExact
<1>6. Standard!Times({0}, p) = p
  BY <1>1, <1>2, <1>3
<1>7. Standard!Times({0, 1}, p) = Standard!Plus(p, Standard!Times({1}, p))
  BY <1>1, <1>2, <1>4, <1>5 DEF Standard!Plus
<1>8. QED
  BY <1>4, <1>6, <1>7

(* The bits of a byte shifted left, those of the reduction, and no bits. *)
LEMMA ShiftedBits ==
  ASSUME NEW b \in Byte
  PROVE  /\ (2 * b) % 256 \in Byte /\ 27 \in Byte /\ 0 \in Byte
         /\ \A k \in 0 .. 7 : k \in Poly((2 * b) % 256) <=> k - 1 \in Poly(b)
         /\ Poly(27) = {0, 1, 3, 4} /\ Poly(0) = {}
         /\ b >= 128 <=> 7 \in Poly(b)
<1>1. b \in 0 .. 255
  BY OctetByte
<1>2. PICK d \in 0 .. 255 : d = (2 * b) % 256
  BY <1>1
<1>3. d = IF b >= 128 THEN 2 * b - 256 ELSE 2 * b
  <2>1. CASE b >= 128
    <3>1. PICK e \in 0 .. 255 : e = 2 * b - 256
      BY <1>1, <2>1
    <3>2. 2 * b = 256 * 1 + e
      BY <1>1, <3>1
    <3>3. QED
      BY <1>2, <2>1, <3>1, <3>2
  <2>2. CASE b < 128
    <3>1. 2 * b \in 0 .. 255
      BY <1>1, <2>2
    <3>2. (2 * b) % 256 = 2 * b
      BY <3>1
    <3>3. QED
      BY <1>1, <1>2, <2>2, <3>2
  <2>3. QED
    BY <1>1, <2>1, <2>2
<1>4. \A k : k \in 0 .. 7 <=> k \in {0, 1, 2, 3, 4, 5, 6, 7}
  OBVIOUS
<1>5. -1 \notin Poly(b)
  BY PolyTyped
<1>6. /\ (d \div 1) % 2 = 0 /\ (d \div 2) % 2 = (b \div 1) % 2
      /\ (d \div 4) % 2 = (b \div 2) % 2 /\ (d \div 8) % 2 = (b \div 4) % 2
      /\ (d \div 16) % 2 = (b \div 8) % 2 /\ (d \div 32) % 2 = (b \div 16) % 2
      /\ (d \div 64) % 2 = (b \div 32) % 2 /\ (d \div 128) % 2 = (b \div 64) % 2
      /\ ((b \div 128) % 2 = 1 <=> b >= 128)
  <2>1. (d \div 1) % 2 = 0
    BY <1>1, <1>3
  <2>2. (d \div 2) % 2 = (b \div 1) % 2
    BY <1>1, <1>3
  <2>3. (d \div 4) % 2 = (b \div 2) % 2
    BY <1>1, <1>3
  <2>4. (d \div 8) % 2 = (b \div 4) % 2
    BY <1>1, <1>3
  <2>5. (d \div 16) % 2 = (b \div 8) % 2
    BY <1>1, <1>3
  <2>6. (d \div 32) % 2 = (b \div 16) % 2
    BY <1>1, <1>3
  <2>7. (d \div 64) % 2 = (b \div 32) % 2
    BY <1>1, <1>3
  <2>8. (d \div 128) % 2 = (b \div 64) % 2
    BY <1>1, <1>3
  <2>9. (b \div 128) % 2 = 1 <=> b >= 128
    BY <1>1
  <2>10. QED
    BY <2>1, <2>2, <2>3, <2>4, <2>5, <2>6, <2>7, <2>8, <2>9
<1>7. /\ Bit(d, 0) = 0 /\ Bit(d, 1) = Bit(b, 0) /\ Bit(d, 2) = Bit(b, 1)
      /\ Bit(d, 3) = Bit(b, 2) /\ Bit(d, 4) = Bit(b, 3) /\ Bit(d, 5) = Bit(b, 4)
      /\ Bit(d, 6) = Bit(b, 5) /\ Bit(d, 7) = Bit(b, 6)
      /\ (Bit(b, 7) = 1 <=> b >= 128)
  <2>1. /\ Bit(d, 0) = (d \div 1) % 2 /\ Bit(d, 1) = (d \div 2) % 2
        /\ Bit(d, 2) = (d \div 4) % 2 /\ Bit(d, 3) = (d \div 8) % 2
        /\ Bit(d, 4) = (d \div 16) % 2 /\ Bit(d, 5) = (d \div 32) % 2
        /\ Bit(d, 6) = (d \div 64) % 2 /\ Bit(d, 7) = (d \div 128) % 2
    BY OctetBits
  <2>2. /\ Bit(b, 0) = (b \div 1) % 2 /\ Bit(b, 1) = (b \div 2) % 2
        /\ Bit(b, 2) = (b \div 4) % 2 /\ Bit(b, 3) = (b \div 8) % 2
        /\ Bit(b, 4) = (b \div 16) % 2 /\ Bit(b, 5) = (b \div 32) % 2
        /\ Bit(b, 6) = (b \div 64) % 2 /\ Bit(b, 7) = (b \div 128) % 2
    BY OctetBits
  <2>3. QED
    BY <1>6, <2>1, <2>2
<1>8. \A k \in 0 .. 7 : k \in Poly(d) <=> k - 1 \in Poly(b)
  <2>1. /\ 0 - 1 = -1 /\ 1 - 1 = 0 /\ 2 - 1 = 1 /\ 3 - 1 = 2 /\ 4 - 1 = 3
        /\ 5 - 1 = 4 /\ 6 - 1 = 5 /\ 7 - 1 = 6
    OBVIOUS
  <2>2. QED
    BY <1>4, <1>5, <1>7, <2>1, PolyTyped
<1>9. 7 \in Poly(b) <=> b >= 128
  BY <1>7, PolyTyped
<1>10. Poly(27) = {0, 1, 3, 4}
  <2>1. PICK w : w = 27
    OBVIOUS
  <2>2. /\ (w \div 1) % 2 = 1 /\ (w \div 2) % 2 = 1 /\ (w \div 4) % 2 = 0
        /\ (w \div 8) % 2 = 1 /\ (w \div 16) % 2 = 1 /\ (w \div 32) % 2 = 0
        /\ (w \div 64) % 2 = 0 /\ (w \div 128) % 2 = 0
    BY <2>1
  <2>3. /\ Bit(w, 0) = 1 /\ Bit(w, 1) = 1 /\ Bit(w, 2) = 0 /\ Bit(w, 3) = 1
        /\ Bit(w, 4) = 1 /\ Bit(w, 5) = 0 /\ Bit(w, 6) = 0 /\ Bit(w, 7) = 0
    BY <2>2, OctetBits, Zenon
  <2>4. \A k : k \in Poly(w) <=> k \in {0, 1, 3, 4}
    BY <1>4, <2>3, PolyTyped
  <2>5. QED
    BY <2>1, <2>4
<1>11. Poly(0) = {}
  <2>1. PICK w : w = 0
    OBVIOUS
  <2>2. /\ (w \div 1) % 2 = 0 /\ (w \div 2) % 2 = 0 /\ (w \div 4) % 2 = 0
        /\ (w \div 8) % 2 = 0 /\ (w \div 16) % 2 = 0 /\ (w \div 32) % 2 = 0
        /\ (w \div 64) % 2 = 0 /\ (w \div 128) % 2 = 0
    BY <2>1
  <2>3. /\ Bit(w, 0) = 0 /\ Bit(w, 1) = 0 /\ Bit(w, 2) = 0 /\ Bit(w, 3) = 0
        /\ Bit(w, 4) = 0 /\ Bit(w, 5) = 0 /\ Bit(w, 6) = 0 /\ Bit(w, 7) = 0
    BY <2>2, OctetBits, Zenon
  <2>4. \A k : k \notin Poly(w)
    BY <1>4, <2>3, PolyTyped
  <2>5. QED
    BY <2>1, <2>4
<1>12. 27 \in Byte /\ 0 \in Byte /\ d \in Byte
  BY OctetByte
<1>13. QED
  BY <1>2, <1>8, <1>9, <1>10, <1>11, <1>12

(* xtime is the product with x. *)
LEMMA XtimeExact ==
  ASSUME NEW b \in Byte
  PROVE  Xtime(b) \in Byte /\ Poly(Xtime(b)) = Standard!Times({1}, Poly(b))
<1>1. PICK d \in Byte : d = (2 * b) % 256
  BY ShiftedBits
<1>2. PICK c \in Byte : c = IF b >= 128 THEN 27 ELSE 0
  BY ShiftedBits
<1>3. Xtime(b) = Xor(d, c)
  BY <1>1, <1>2 DEF Xtime
<1>4. Xor(d, c) \in Byte /\ Poly(Xor(d, c)) = Standard!Plus(Poly(d), Poly(c))
  BY XorByte, PolyXor
<1>5. \A k \in 0 .. 7 : k \in Poly(d) <=> k - 1 \in Poly(b)
  BY <1>1, ShiftedBits
<1>6. Poly(c) = IF 7 \in Poly(b) THEN {0, 1, 3, 4} ELSE {}
  BY <1>2, ShiftedBits
<1>7. \A k \in 0 .. 7 : k \in Standard!Times({1}, Poly(b))
                          <=> ~(k - 1 \in Poly(b) <=> (7 \in Poly(b) /\ k \in {0, 1, 3, 4}))
  BY PolyTyped, Factors
<1>8. \A k \in 0 .. 7 : k \in Standard!Plus(Poly(d), Poly(c))
                          <=> k \in Standard!Times({1}, Poly(b))
  BY <1>5, <1>6, <1>7 DEF Standard!Plus
<1>9. Standard!Plus(Poly(d), Poly(c)) \in Polynomials /\ Standard!Times({1}, Poly(b)) \in Polynomials
  BY PolyTyped, Sums, Products
<1>10. Standard!Plus(Poly(d), Poly(c)) = Standard!Times({1}, Poly(b))
  BY <1>8, <1>9 DEF Polynomials
<1>11. QED
  BY <1>3, <1>4, <1>10

(* The entries of the S-box are bytes. *)
LEMMA SBoxTyped ==
  ASSUME NEW b \in Byte
  PROVE  SBox(b) \in Byte
<1>1. b \in 0 .. 255
  BY OctetByte
<1>2. SBox(b) \in 0 .. 255
  BY <1>1, SMTT(60) DEF SBox, SBoxBytes
<1>3. QED
  BY <1>2, OctetByte

(* The round constants of the code: x^0 to x^6. *)
LEMMA RconExact ==
  ASSUME NEW j \in 1 .. 7
  PROVE  Rcon[j] \in Byte /\ Poly(Rcon[j]) = Standard!RoundConstant[j]
<1>1. \A k : k \in 0 .. 7 <=> k \in {0, 1, 2, 3, 4, 5, 6, 7}
  OBVIOUS
<1>2. Poly(1) = {0}
  <2>1. PICK w : w = 1
    OBVIOUS
  <2>2. /\ (w \div 1) % 2 = 1 /\ (w \div 2) % 2 = 0 /\ (w \div 4) % 2 = 0
        /\ (w \div 8) % 2 = 0 /\ (w \div 16) % 2 = 0 /\ (w \div 32) % 2 = 0
        /\ (w \div 64) % 2 = 0 /\ (w \div 128) % 2 = 0
    BY <2>1
  <2>3. /\ Bit(w, 0) = 1 /\ Bit(w, 1) = 0 /\ Bit(w, 2) = 0 /\ Bit(w, 3) = 0
        /\ Bit(w, 4) = 0 /\ Bit(w, 5) = 0 /\ Bit(w, 6) = 0 /\ Bit(w, 7) = 0
    BY <2>2, OctetBits, Zenon
  <2>4. \A k : k \in Poly(w) <=> k \in {0}
    BY <1>1, <2>3, PolyTyped
  <2>5. QED
    BY <2>1, <2>4
<1>3. ASSUME NEW b \in 1 .. 64, NEW m \in 0 .. 6, Poly(b) = {m}
      PROVE  Poly(2 * b) = {m + 1}
  <2>1. PICK c : c = 2 * b /\ (2 * b) % 256 = c
    OBVIOUS
  <2>2. b \in Byte
    BY OctetByte
  <2>3. \A k \in 0 .. 7 : k \in Poly(c) <=> k - 1 \in Poly(b)
    BY <2>1, <2>2, ShiftedBits
  <2>4. \A k : k \in Poly(c) <=> k = m + 1
    BY <1>3, <2>3, PolyTyped
  <2>5. QED
    BY <2>1, <2>4
<1>4. /\ 2 * 1 = 2 /\ 2 * 2 = 4 /\ 2 * 4 = 8 /\ 2 * 8 = 16 /\ 2 * 16 = 32 /\ 2 * 32 = 64
      /\ 0 + 1 = 1 /\ 1 + 1 = 2 /\ 2 + 1 = 3 /\ 3 + 1 = 4 /\ 4 + 1 = 5 /\ 5 + 1 = 6 /\ 6 + 1 = 7
  OBVIOUS
<1>5. Poly(2) = {1}
  BY <1>2, <1>3, <1>4
<1>6. Poly(4) = {2}
  BY <1>5, <1>3, <1>4
<1>7. Poly(8) = {3}
  BY <1>6, <1>3, <1>4
<1>8. Poly(16) = {4}
  BY <1>7, <1>3, <1>4
<1>9. Poly(32) = {5}
  BY <1>8, <1>3, <1>4
<1>10. Poly(64) = {6}
  BY <1>9, <1>3, <1>4
<1>11. ASSUME NEW m \in 0 .. 6 PROVE Standard!Times({1}, {m}) = {m + 1}
  <2>1. PICK p \in Polynomials : p = {m}
    <3>1. m \in 0 .. 7
      OBVIOUS
    <3>2. {m} \in Polynomials
      BY <3>1, Zenon DEF Polynomials
    <3>3. QED
      BY <3>2
  <2>2. \A k \in 0 .. 7 : k \in Standard!Times({1}, p)
                            <=> ~(k - 1 \in p <=> (7 \in p /\ k \in {0, 1, 3, 4}))
    BY Factors
  <2>3. \A k \in 0 .. 7 : k \in Standard!Times({1}, p) <=> k = m + 1
    BY <2>1, <2>2
  <2>4. Standard!Times({1}, p) \in Polynomials
    BY Products
  <2>5. \A k : k \in Standard!Times({1}, p) <=> k = m + 1
    BY <2>3, <2>4 DEF Polynomials
  <2>6. QED
    BY <2>1, <2>5
<1> DEFINE C == Standard!RoundConstant
<1>12. C[1] = {0}
  BY RoundConstants
<1>13. \A n \in 1 .. 6 : C[n + 1] = Standard!Times({1}, C[n])
  BY RoundConstants
<1> HIDE DEF C
<1>14. /\ C[2] = Standard!Times({1}, C[1]) /\ C[3] = Standard!Times({1}, C[2])
       /\ C[4] = Standard!Times({1}, C[3]) /\ C[5] = Standard!Times({1}, C[4])
       /\ C[6] = Standard!Times({1}, C[5]) /\ C[7] = Standard!Times({1}, C[6])
  BY <1>4, <1>13
<1>15. /\ Standard!Times({1}, {0}) = {1} /\ Standard!Times({1}, {1}) = {2}
       /\ Standard!Times({1}, {2}) = {3} /\ Standard!Times({1}, {3}) = {4}
       /\ Standard!Times({1}, {4}) = {5} /\ Standard!Times({1}, {5}) = {6}
  BY <1>4, <1>11
<1>16. /\ C[2] = {1} /\ C[3] = {2} /\ C[4] = {3} /\ C[5] = {4} /\ C[6] = {5} /\ C[7] = {6}
  BY <1>12, <1>14, <1>15
<1>17. /\ Rcon[1] = 1 /\ Rcon[2] = 2 /\ Rcon[3] = 4 /\ Rcon[4] = 8 /\ Rcon[5] = 16
       /\ Rcon[6] = 32 /\ Rcon[7] = 64
  BY DEF Rcon
<1>18. j = 1 \/ j = 2 \/ j = 3 \/ j = 4 \/ j = 5 \/ j = 6 \/ j = 7
  OBVIOUS
<1>19. Poly(Rcon[j]) = C[j]
  <2>1. CASE j = 1
    BY <1>2, <1>12, <1>17, <2>1
  <2>2. CASE j = 2
    BY <1>5, <1>16, <1>17, <2>2
  <2>3. CASE j = 3
    BY <1>6, <1>16, <1>17, <2>3
  <2>4. CASE j = 4
    BY <1>7, <1>16, <1>17, <2>4
  <2>5. CASE j = 5
    BY <1>8, <1>16, <1>17, <2>5
  <2>6. CASE j = 6
    BY <1>9, <1>16, <1>17, <2>6
  <2>7. CASE j = 7
    BY <1>10, <1>16, <1>17, <2>7
  <2>8. QED
    BY <1>18, <2>1, <2>2, <2>3, <2>4, <2>5, <2>6, <2>7
<1>20. Rcon[j] \in Byte
  BY <1>17, <1>18, OctetByte
<1>21. QED
  BY <1>19, <1>20 DEF C

(***************************************************************************)
(* The words of the key schedule.                                          *)
(***************************************************************************)
ByteWords   == [0 .. 3 -> Byte]
PolyWord(w) == [r \in 0 .. 3 |-> Poly(w[r])]

(* The operations on words, and what they are of polynomials. *)
LEMMA WordsExact ==
  ASSUME NEW v \in ByteWords, NEW w \in ByteWords
  PROVE  /\ XorWords(v, w) \in ByteWords /\ SubWord(w) \in ByteWords /\ RotWord(w) \in ByteWords
         /\ PolyWord(w) \in Words
         /\ \A r \in 0 .. 3 :
              /\ PolyWord(w)[r] = Poly(w[r])
              /\ Poly(XorWords(v, w)[r]) = Standard!Plus(Poly(v[r]), Poly(w[r]))
              /\ Poly(SubWord(w)[r]) = Standard!SubByte[Poly(w[r])]
              /\ RotWord(w)[r] = w[(r + 1) % 4]
<1>1. \A r \in 0 .. 3 : v[r] \in Byte /\ w[r] \in Byte /\ (r + 1) % 4 \in 0 .. 3
  BY DEF ByteWords
<1>2. XorWords(v, w) = [r \in 0 .. 3 |-> Xor(v[r], w[r])]
  BY DEF XorWords
<1>3. SubWord(w) = [r \in 0 .. 3 |-> SBox(w[r])]
  BY DEF SubWord
<1>4. RotWord(w) = [r \in 0 .. 3 |-> w[(r + 1) % 4]]
  BY DEF RotWord
<1>5. XorWords(v, w) \in ByteWords
  BY <1>1, <1>2, XorByte DEF ByteWords
<1>6. SubWord(w) \in ByteWords
  BY <1>1, <1>3, SBoxTyped DEF ByteWords
<1>7. RotWord(w) \in ByteWords
  BY <1>1, <1>4 DEF ByteWords
<1>8. PolyWord(w) \in Words
  BY PolyTyped DEF PolyWord, Words
<1>9. ASSUME NEW r \in 0 .. 3
      PROVE  Poly(XorWords(v, w)[r]) = Standard!Plus(Poly(v[r]), Poly(w[r]))
  <2>1. PICK a \in Byte, b \in Byte : a = v[r] /\ b = w[r]
    BY <1>1
  <2>2. XorWords(v, w)[r] = Xor(a, b)
    BY <1>2, <2>1
  <2>3. QED
    BY <2>1, <2>2, PolyXor
<1>10. ASSUME NEW r \in 0 .. 3
       PROVE  Poly(SubWord(w)[r]) = Standard!SubByte[Poly(w[r])]
  BY <1>1, <1>3, SBoxAssumption
<1>11. QED
  BY <1>4, <1>5, <1>6, <1>7, <1>8, <1>9, <1>10 DEF PolyWord

(* The word of a round constant. *)
LEMMA RconWordExact ==
  ASSUME NEW i \in 0 .. 6
  PROVE  /\ RconWord(i) \in ByteWords
         /\ \A r \in 0 .. 3 :
              Poly(RconWord(i)[r]) = IF r = 0 THEN Standard!RoundConstant[i + 1] ELSE {}
<1>1. PICK j \in 1 .. 7 : j = i + 1
  OBVIOUS
<1>2. RconWord(i) = [r \in 0 .. 3 |-> IF r = 0 THEN Rcon[j] ELSE 0]
  BY <1>1 DEF RconWord
<1>3. PICK c \in Byte : c = Rcon[j] /\ Poly(c) = Standard!RoundConstant[j]
  BY RconExact
<1>4. 0 \in Byte /\ Poly(0) = {}
  BY <1>3, ShiftedBits
<1>5. QED
  BY <1>1, <1>2, <1>3, <1>4 DEF ByteWords

(* The word that is added to the word eight before. *)
LEMMA TempExact ==
  ASSUME NEW i \in 8 .. 59, NEW last \in ByteWords
  PROVE  /\ Temp(last, i) \in ByteWords
         /\ \A r \in 0 .. 3 : Poly(Temp(last, i)[r]) = Added(i, PolyWord(last))[r]
<1>1. PICK pw \in Words : pw = PolyWord(last) /\ \A r \in 0 .. 3 : pw[r] = Poly(last[r])
  BY WordsExact
<1>2. CASE i % 8 = 0
  <2>1. PICK n \in 0 .. 6 : n = (i \div 8) - 1 /\ n + 1 = i \div 8
    OBVIOUS
  <2>2. PICK rc \in ByteWords : /\ rc = RconWord(n)
                                /\ \A r \in 0 .. 3 :
                                     Poly(rc[r]) = IF r = 0 THEN Standard!RoundConstant[n + 1] ELSE {}
    BY RconWordExact
  <2>3. PICK rot \in ByteWords : /\ rot = RotWord(last)
                                 /\ \A r \in 0 .. 3 : rot[r] = last[(r + 1) % 4]
    BY WordsExact
  <2>4. PICK sub \in ByteWords : /\ sub = SubWord(rot)
                                 /\ \A r \in 0 .. 3 : Poly(sub[r]) = Standard!SubByte[Poly(rot[r])]
    BY WordsExact
  <2>5. Temp(last, i) = XorWords(sub, rc)
    BY <1>2, <2>1, <2>2, <2>3, <2>4 DEF Temp, NumberKeyWords
  <2>6. /\ XorWords(sub, rc) \in ByteWords
        /\ \A r \in 0 .. 3 : Poly(XorWords(sub, rc)[r]) = Standard!Plus(Poly(sub[r]), Poly(rc[r]))
    BY WordsExact
  <2>7. Added(i, pw)
          = [r \in 0 .. 3 |->
               Standard!Plus(Standard!SubByte[pw[(r + 1) % 4]],
                             IF r = 0 THEN Standard!RoundConstant[i \div 8] ELSE {})]
    BY <1>2 DEF Added
  <2>8. \A r \in 0 .. 3 : (r + 1) % 4 \in 0 .. 3
    OBVIOUS
  <2>9. ASSUME NEW r \in 0 .. 3
        PROVE  Poly(Temp(last, i)[r]) = Added(i, pw)[r]
    <3>1. PICK q \in 0 .. 3 : q = (r + 1) % 4
      BY <2>8
    <3>2. Poly(sub[r]) = Standard!SubByte[pw[q]]
      BY <1>1, <2>3, <2>4, <3>1
    <3>3. Poly(rc[r]) = IF r = 0 THEN Standard!RoundConstant[i \div 8] ELSE {}
      BY <2>1, <2>2
    <3>4. QED
      BY <2>5, <2>6, <2>7, <3>1, <3>2, <3>3
  <2>10. QED
    BY <1>1, <2>5, <2>6, <2>9
<1>3. CASE i % 8 = 4
  <2>1. Temp(last, i) = SubWord(last)
    BY <1>3 DEF Temp, NumberKeyWords
  <2>2. Added(i, pw) = [r \in 0 .. 3 |-> Standard!SubByte[pw[r]]]
    BY <1>3 DEF Added
  <2>3. QED
    BY <1>1, <2>1, <2>2, WordsExact
<1>4. CASE i % 8 # 0 /\ i % 8 # 4
  <2>1. Temp(last, i) = last /\ Added(i, pw) = pw
    BY <1>4 DEF Temp, Added, NumberKeyWords
  <2>2. QED
    BY <1>1, <2>1
<1>5. QED
  BY <1>2, <1>3, <1>4

(* A word that is generated is the next one of the standard. *)
LEMMA GeneratedExact ==
  ASSUME NEW i \in 8 .. 59, NEW first \in ByteWords, NEW last \in ByteWords
  PROVE  /\ XorWords(first, Temp(last, i)) \in ByteWords
         /\ PolyWord(XorWords(first, Temp(last, i)))
              = Following(i, PolyWord(first), PolyWord(last))
<1>1. PICK t \in ByteWords : /\ t = Temp(last, i)
                             /\ \A r \in 0 .. 3 : Poly(t[r]) = Added(i, PolyWord(last))[r]
  BY TempExact
<1>2. PICK w \in ByteWords : /\ w = XorWords(first, t)
                             /\ \A r \in 0 .. 3 : Poly(w[r]) = Standard!Plus(Poly(first[r]), Poly(t[r]))
  BY WordsExact
<1>3. PolyWord(w) = [r \in 0 .. 3 |-> Poly(w[r])]
  BY DEF PolyWord
<1>4. \A r \in 0 .. 3 : PolyWord(first)[r] = Poly(first[r])
  BY DEF PolyWord
<1>5. Following(i, PolyWord(first), PolyWord(last))
        = [r \in 0 .. 3 |-> Standard!Plus(PolyWord(first)[r], Added(i, PolyWord(last))[r])]
  BY DEF Following
<1>6. QED
  BY <1>1, <1>2, <1>3, <1>4, <1>5

-----------------------------------------------------------------------------
(***************************************************************************)
(* The layers of a round.                                                  *)
(***************************************************************************)
ByteBlocks == [0 .. 15 -> Byte]

(* A block as a matrix, cell by cell. *)
LEMMA MatrixCells ==
  ASSUME NEW s
  PROVE  /\ Matrix(s) \in Matrix16
         /\ \A row \in 0 .. 3, col \in 0 .. 3 :
              /\ Matrix(s)[<<row, col>>] = Poly(s[4 * col + row])
              /\ 4 * col + row \in 0 .. 15
<1>1. Matrix(s) = [cell \in (0 .. 3) \X (0 .. 3) |-> Poly(s[4 * cell[2] + cell[1]])]
  BY DEF Matrix
<1>2. Matrix(s) \in Matrix16
  BY <1>1, PolyTyped DEF Matrix16
<1>3. ASSUME NEW row \in 0 .. 3, NEW col \in 0 .. 3
      PROVE  Matrix(s)[<<row, col>>] = Poly(s[4 * col + row])
  <2>1. PICK e : e = <<row, col>>
    OBVIOUS
  <2>2. e \in (0 .. 3) \X (0 .. 3) /\ e[1] = row /\ e[2] = col
    BY <2>1
  <2>3. QED
    BY <1>1, <2>1, <2>2
<1>4. QED
  BY <1>2, <1>3

(* Matrices that agree in every row and column are the same. *)
LEMMA MatricesEqual ==
  ASSUME NEW m1 \in Matrix16, NEW m2 \in Matrix16,
         \A row \in 0 .. 3, col \in 0 .. 3 : m1[<<row, col>>] = m2[<<row, col>>]
  PROVE  m1 = m2
<1>1. ASSUME NEW e \in (0 .. 3) \X (0 .. 3) PROVE m1[e] = m2[e]
  <2>1. e[1] \in 0 .. 3 /\ e[2] \in 0 .. 3 /\ e = <<e[1], e[2]>>
    OBVIOUS
  <2>2. QED
    BY <2>1
<1>2. QED
  BY <1>1 DEF Matrix16

(* Row and column of a byte of a block. *)
LEMMA CellOfByte ==
  ASSUME NEW row \in 0 .. 3, NEW col \in 0 .. 3
  PROVE  /\ (4 * col + row) % 4 = row /\ (4 * col + row) \div 4 = col
         /\ ((4 * col + row) + 4 * row) % 16 = 4 * ((col + row) % 4) + row
<1>1. PICK k \in 0 .. 15 : k = 4 * col + row
  OBVIOUS
<1>2. k % 4 = row /\ k \div 4 = col
  BY <1>1
<1>3. (col + row) % 4 = IF col + row >= 4 THEN col + row - 4 ELSE col + row
  OBVIOUS
<1>4. (k + 4 * row) % 16 = IF k + 4 * row >= 16 THEN k + 4 * row - 16 ELSE k + 4 * row
  BY <1>1
<1>5. k + 4 * row >= 16 <=> col + row >= 4
  BY <1>1
<1>6. QED
  BY <1>1, <1>2, <1>3, <1>4, <1>5

(* The substitution. *)
LEMMA SubBytesExact ==
  ASSUME NEW s \in ByteBlocks
  PROVE  /\ SubBytes(s) \in ByteBlocks
         /\ Matrix(SubBytes(s)) = Standard!SubBytes(Matrix(s))
<1>1. SubBytes(s) = [k \in 0 .. 15 |-> SBox(s[k])]
  BY DEF SubBytes
<1>2. SubBytes(s) \in ByteBlocks
  BY <1>1, SBoxTyped DEF ByteBlocks
<1>3. ASSUME NEW row \in 0 .. 3, NEW col \in 0 .. 3
      PROVE  Matrix(SubBytes(s))[<<row, col>>] = Standard!SubBytes(Matrix(s))[<<row, col>>]
  <2>1. PICK k \in 0 .. 15 : k = 4 * col + row
    OBVIOUS
  <2>2. PICK b \in Byte : b = s[k]
    BY DEF ByteBlocks
  <2>3. Matrix(SubBytes(s))[<<row, col>>] = Poly(SBox(b)) /\ Matrix(s)[<<row, col>>] = Poly(b)
    BY <1>1, <2>1, <2>2, MatrixCells
  <2>4. Standard!SubBytes(Matrix(s))[<<row, col>>] = Standard!SubByte[Matrix(s)[<<row, col>>]]
    BY MatrixCells, LayersExact
  <2>5. QED
    BY <2>3, <2>4, SBoxAssumption
<1>4. QED
  BY <1>2, <1>3, MatrixCells, LayersExact, MatricesEqual

(* The shift of the rows. *)
LEMMA ShiftRowsExact ==
  ASSUME NEW s \in ByteBlocks
  PROVE  /\ ShiftRows(s) \in ByteBlocks
         /\ Matrix(ShiftRows(s)) = Standard!ShiftRows(Matrix(s))
<1>1. ShiftRows(s) = [k \in 0 .. 15 |-> s[(k + 4 * (k % 4)) % 16]]
  BY DEF ShiftRows
<1>2. ShiftRows(s) \in ByteBlocks
  <2>1. \A k \in 0 .. 15 : (k + 4 * (k % 4)) % 16 \in 0 .. 15
    OBVIOUS
  <2>2. QED
    BY <1>1, <2>1 DEF ByteBlocks
<1>3. ASSUME NEW row \in 0 .. 3, NEW col \in 0 .. 3
      PROVE  Matrix(ShiftRows(s))[<<row, col>>] = Standard!ShiftRows(Matrix(s))[<<row, col>>]
  <2>1. PICK k \in 0 .. 15 : k = 4 * col + row /\ k % 4 = row
    BY CellOfByte
  <2>2. PICK to \in 0 .. 3 : to = (col + row) % 4
    OBVIOUS
  <2>3. (k + 4 * (k % 4)) % 16 = 4 * to + row
    BY <2>1, <2>2, CellOfByte
  <2>4. PICK t : t = ShiftRows(s) /\ t[k] = s[4 * to + row]
    BY <1>1, <2>3
  <2>5. Matrix(t)[<<row, col>>] = Poly(t[4 * col + row])
    BY MatrixCells
  <2>6. Matrix(ShiftRows(s))[<<row, col>>] = Poly(s[4 * to + row])
    BY <2>1, <2>4, <2>5
  <2>7. Standard!ShiftRows(Matrix(s))[<<row, col>>] = Matrix(s)[<<row, to>>]
    <3>1. PICK m \in Matrix16 : m = Matrix(s)
      BY MatrixCells
    <3>2. Standard!ShiftRows(m)[<<row, col>>] = m[<<row, (col + row) % 4>>]
      BY LayersExact
    <3>3. QED
      BY <2>2, <3>1, <3>2
  <2>8. QED
    BY <2>6, <2>7, MatrixCells
<1>4. QED
  BY <1>2, <1>3, MatrixCells, LayersExact, MatricesEqual

(* Four sums of a column, as the code adds them up. *)
LEMMA SumOfFive ==
  ASSUME NEW a \in Byte, NEW b \in Byte, NEW d \in Byte, NEW e \in Byte, NEW f \in Byte
  PROVE  LET x == Xor(a, Xor(b, Xor(d, Xor(e, f))))
         IN  /\ x \in Byte
             /\ Poly(x) = Standard!Plus(Poly(a), Standard!Plus(Poly(b),
                            Standard!Plus(Poly(d), Standard!Plus(Poly(e), Poly(f)))))
<1>1. PICK x1 \in Byte : x1 = Xor(e, f) /\ Poly(x1) = Standard!Plus(Poly(e), Poly(f))
  BY XorByte, PolyXor
<1>2. PICK x2 \in Byte : x2 = Xor(d, x1) /\ Poly(x2) = Standard!Plus(Poly(d), Poly(x1))
  BY XorByte, PolyXor
<1>3. PICK x3 \in Byte : x3 = Xor(b, x2) /\ Poly(x3) = Standard!Plus(Poly(b), Poly(x2))
  BY XorByte, PolyXor
<1>4. PICK x4 \in Byte : x4 = Xor(a, x3) /\ Poly(x4) = Standard!Plus(Poly(a), Poly(x3))
  BY XorByte, PolyXor
<1>5. QED
  BY <1>1, <1>2, <1>3, <1>4

(* Sums may be taken in any order. *)
LEMMA PlusAssociates ==
  ASSUME NEW p, NEW q, NEW r
  PROVE  Standard!Plus(Standard!Plus(p, q), r) = Standard!Plus(p, Standard!Plus(q, r))
BY DEF Standard!Plus

(* The four bytes of a mixed column. *)
LEMMA MixColumnExact ==
  ASSUME NEW c \in ByteWords
  PROVE  LET p(r) == Poly(c[r])
             x(r) == Standard!Times({1}, Poly(c[r]))
             plus(u, v) == Standard!Plus(u, v)
         IN  /\ MixColumn(c) \in ByteWords
             /\ Poly(MixColumn(c)[0]) = plus(x(0), plus(p(1), plus(x(1), plus(p(2), p(3)))))
             /\ Poly(MixColumn(c)[1]) = plus(p(0), plus(x(1), plus(p(2), plus(x(2), p(3)))))
             /\ Poly(MixColumn(c)[2]) = plus(p(0), plus(p(1), plus(x(2), plus(p(3), x(3)))))
             /\ Poly(MixColumn(c)[3]) = plus(p(0), plus(x(0), plus(p(1), plus(p(2), x(3)))))
<1>1. PICK x \in ByteWords : \A r \in 0 .. 3 : /\ x[r] = Xtime(c[r])
                                               /\ Poly(x[r]) = Standard!Times({1}, Poly(c[r]))
  <2>1. PICK y : y = [r \in 0 .. 3 |-> Xtime(c[r])]
    OBVIOUS
  <2>2. \A r \in 0 .. 3 : /\ Xtime(c[r]) \in Byte
                          /\ Poly(Xtime(c[r])) = Standard!Times({1}, Poly(c[r]))
    BY XtimeExact DEF ByteWords
  <2>3. y \in ByteWords
    BY <2>1, <2>2 DEF ByteWords
  <2>4. QED
    BY <2>1, <2>2, <2>3
<1>2. /\ c[0] \in Byte /\ c[1] \in Byte /\ c[2] \in Byte /\ c[3] \in Byte
      /\ x[0] \in Byte /\ x[1] \in Byte /\ x[2] \in Byte /\ x[3] \in Byte
  BY DEF ByteWords
<1> DEFINE sum(a, b, d, e, f) == Xor(a, Xor(b, Xor(d, Xor(e, f))))
<1>3. /\ MixColumn(c)[0] = sum(x[0], c[1], x[1], c[2], c[3])
      /\ MixColumn(c)[1] = sum(c[0], x[1], c[2], x[2], c[3])
      /\ MixColumn(c)[2] = sum(c[0], c[1], x[2], c[3], x[3])
      /\ MixColumn(c)[3] = sum(c[0], x[0], c[1], c[2], x[3])
      /\ DOMAIN MixColumn(c) = 0 .. 3 /\ MixColumn(c) = [r \in 0 .. 3 |-> MixColumn(c)[r]]
  <2>1. /\ x[0] = Xtime(c[0]) /\ x[1] = Xtime(c[1]) /\ x[2] = Xtime(c[2]) /\ x[3] = Xtime(c[3])
    BY <1>1
  <2>2. QED
    BY <2>1 DEF MixColumn
<1>4. /\ sum(x[0], c[1], x[1], c[2], c[3]) \in Byte /\ sum(c[0], x[1], c[2], x[2], c[3]) \in Byte
      /\ sum(c[0], c[1], x[2], c[3], x[3]) \in Byte /\ sum(c[0], x[0], c[1], c[2], x[3]) \in Byte
  BY <1>2, SumOfFive
<1>5. MixColumn(c) \in ByteWords
  <2>1. \A r \in 0 .. 3 : r = 0 \/ r = 1 \/ r = 2 \/ r = 3
    OBVIOUS
  <2>2. \A r \in 0 .. 3 : MixColumn(c)[r] \in Byte
    BY <1>3, <1>4, <2>1
  <2>3. QED
    BY <1>3, <2>2 DEF ByteWords
<1> DEFINE poly(a, b, d, e, f) ==
             Standard!Plus(Poly(a), Standard!Plus(Poly(b),
               Standard!Plus(Poly(d), Standard!Plus(Poly(e), Poly(f)))))
<1>6. PICK c0 \in Byte, c1 \in Byte, c2 \in Byte, c3 \in Byte,
           x0 \in Byte, x1 \in Byte, x2 \in Byte, x3 \in Byte :
        /\ c0 = c[0] /\ c1 = c[1] /\ c2 = c[2] /\ c3 = c[3]
        /\ x0 = x[0] /\ x1 = x[1] /\ x2 = x[2] /\ x3 = x[3]
  BY <1>2
<1>7. /\ Poly(sum(x0, c1, x1, c2, c3)) = poly(x0, c1, x1, c2, c3)
      /\ Poly(sum(c0, x1, c2, x2, c3)) = poly(c0, x1, c2, x2, c3)
      /\ Poly(sum(c0, c1, x2, c3, x3)) = poly(c0, c1, x2, c3, x3)
      /\ Poly(sum(c0, x0, c1, c2, x3)) = poly(c0, x0, c1, c2, x3)
  <2>1. Poly(sum(x0, c1, x1, c2, c3)) = poly(x0, c1, x1, c2, c3)
    BY SumOfFive
  <2>2. Poly(sum(c0, x1, c2, x2, c3)) = poly(c0, x1, c2, x2, c3)
    BY SumOfFive
  <2>3. Poly(sum(c0, c1, x2, c3, x3)) = poly(c0, c1, x2, c3, x3)
    BY SumOfFive
  <2>4. Poly(sum(c0, x0, c1, c2, x3)) = poly(c0, x0, c1, c2, x3)
    BY SumOfFive
  <2>5. QED
    BY <2>1, <2>2, <2>3, <2>4
<1> HIDE DEF sum
<1>8. /\ Poly(x[0]) = Standard!Times({1}, Poly(c[0])) /\ Poly(x[1]) = Standard!Times({1}, Poly(c[1]))
      /\ Poly(x[2]) = Standard!Times({1}, Poly(c[2])) /\ Poly(x[3]) = Standard!Times({1}, Poly(c[3]))
  BY <1>1
<1>9. QED
  BY <1>3, <1>5, <1>6, <1>7, <1>8

(* The mixture of the columns. *)
LEMMA MixColumnsOfBytes ==
  ASSUME NEW s \in ByteBlocks
  PROVE  /\ MixColumns(s) \in ByteBlocks
         /\ Matrix(MixColumns(s)) = Standard!MixColumns(Matrix(s))
<1>1. ASSUME NEW row \in 0 .. 3, NEW col \in 0 .. 3
      PROVE  /\ MixColumns(s)[4 * col + row] \in Byte
             /\ Poly(MixColumns(s)[4 * col + row]) = Standard!MixColumns(Matrix(s))[<<row, col>>]
  <2>1. PICK c : c = [r \in 0 .. 3 |-> s[4 * col + r]]
    OBVIOUS
  <2>2. c \in ByteWords
    <3>1. \A r \in 0 .. 3 : 4 * col + r \in 0 .. 15
      OBVIOUS
    <3>2. QED
      BY <2>1, <3>1 DEF ByteWords, ByteBlocks
  <2>3. MixColumns(s)[4 * col + row] = MixColumn(c)[row]
    <3>1. PICK k \in 0 .. 15 : k = 4 * col + row /\ k % 4 = row /\ k \div 4 = col
      BY CellOfByte
    <3>2. MixColumns(s)[k] = MixColumn([r \in 0 .. 3 |-> s[4 * (k \div 4) + r]])[k % 4]
      BY DEF MixColumns
    <3>3. QED
      BY <2>1, <3>1, <3>2
  <2>4. PICK m \in Matrix16 : m = Matrix(s)
    BY MatrixCells
  <2>5. \A r \in 0 .. 3 : m[<<r, col>>] = Poly(c[r]) /\ m[<<r, col>>] \in Polynomials
    <3>1. \A r \in 0 .. 3 : c[r] = s[4 * col + r]
      BY <2>1
    <3>2. \A r \in 0 .. 3 : m[<<r, col>>] = Poly(s[4 * col + r])
      BY <2>4, MatrixCells
    <3>3. QED
      BY <3>1, <3>2, PolyTyped
  <2> DEFINE plus(u, v) == Standard!Plus(u, v)
             x(r) == Standard!Times({1}, Poly(c[r]))
             p(r) == Poly(c[r])
             mix == Standard!MixColumns(m)
  <2>6. \A r \in 0 .. 3 :
          /\ Standard!Times({1}, m[<<r, col>>]) = x(r)
          /\ Standard!Times({0}, m[<<r, col>>]) = p(r)
          /\ Standard!Times({0, 1}, m[<<r, col>>]) = plus(p(r), x(r))
    BY <2>5, Factors
  <2>7. /\ mix[<<0, col>>] = plus(plus(x(0), plus(p(1), x(1))), plus(p(2), p(3)))
        /\ mix[<<1, col>>] = plus(plus(p(0), x(1)), plus(plus(p(2), x(2)), p(3)))
        /\ mix[<<2, col>>] = plus(plus(p(0), p(1)), plus(x(2), plus(p(3), x(3))))
        /\ mix[<<3, col>>] = plus(plus(plus(p(0), x(0)), p(1)), plus(p(2), x(3)))
    BY <2>6, MixColumnsExact
  <2>8. /\ MixColumn(c) \in ByteWords
        /\ Poly(MixColumn(c)[0]) = plus(x(0), plus(p(1), plus(x(1), plus(p(2), p(3)))))
        /\ Poly(MixColumn(c)[1]) = plus(p(0), plus(x(1), plus(p(2), plus(x(2), p(3)))))
        /\ Poly(MixColumn(c)[2]) = plus(p(0), plus(p(1), plus(x(2), plus(p(3), x(3)))))
        /\ Poly(MixColumn(c)[3]) = plus(p(0), plus(x(0), plus(p(1), plus(p(2), x(3)))))
    BY <2>2, MixColumnExact
  <2>9. \A u, v, w : plus(plus(u, v), w) = plus(u, plus(v, w))
    BY PlusAssociates
  <2> HIDE DEF plus, x, p, mix
  <2>10. /\ mix[<<0, col>>] = Poly(MixColumn(c)[0])
         /\ mix[<<1, col>>] = Poly(MixColumn(c)[1])
         /\ mix[<<2, col>>] = Poly(MixColumn(c)[2])
         /\ mix[<<3, col>>] = Poly(MixColumn(c)[3])
    BY <2>7, <2>8, <2>9
  <2>11. row = 0 \/ row = 1 \/ row = 2 \/ row = 3
    OBVIOUS
  <2>12. Poly(MixColumn(c)[row]) = mix[<<row, col>>]
    BY <2>10, <2>11
  <2>13. MixColumn(c)[row] \in Byte
    BY <2>8 DEF ByteWords
  <2>14. QED
    BY <2>3, <2>4, <2>12, <2>13 DEF mix
<1>2. MixColumns(s) \in ByteBlocks
  <2>1. ASSUME NEW k \in 0 .. 15 PROVE MixColumns(s)[k] \in Byte
    <3>1. PICK row \in 0 .. 3, col \in 0 .. 3 : k = 4 * col + row
      <4>1. k % 4 \in 0 .. 3 /\ k \div 4 \in 0 .. 3 /\ k = 4 * (k \div 4) + (k % 4)
        OBVIOUS
      <4>2. QED
        BY <4>1
    <3>2. QED
      BY <1>1, <3>1
  <2>2. MixColumns(s) = [k \in 0 .. 15 |-> MixColumns(s)[k]]
    BY DEF MixColumns
  <2>3. QED
    BY <2>1, <2>2 DEF ByteBlocks
<1>3. PICK t : t = MixColumns(s)
  OBVIOUS
<1>4. PICK m \in Matrix16 : m = Standard!MixColumns(Matrix(s))
  BY MatrixCells, LayersExact
<1>5. \A row \in 0 .. 3, col \in 0 .. 3 : Matrix(t)[<<row, col>>] = m[<<row, col>>]
  BY <1>1, <1>3, <1>4, MatrixCells
<1>6. Matrix(t) \in Matrix16
  BY MatrixCells
<1>7. Matrix(t) = m
  BY <1>5, <1>6, MatricesEqual
<1>8. QED
  BY <1>2, <1>3, <1>4, <1>7

\* The words of the code are those of the standard.
WordsMatch(words) ==
  /\ roundKeys \in [0 .. 59 -> ByteWords]
  /\ words \in [1 .. 60 -> Words]
  /\ \A i \in 0 .. 59, r \in 0 .. 3 : Poly(roundKeys[i][r]) = words[i + 1][r]

(* The addition of a round key. *)
LEMMA AddRoundKeyOfBytes ==
  ASSUME NEW words, WordsMatch(words), NEW s \in ByteBlocks, NEW n \in 0 .. 14
  PROVE  /\ AddRoundKey(s, n) \in ByteBlocks
         /\ Matrix(AddRoundKey(s, n)) = Standard!AddRoundKey(Matrix(s), words, n)
<1>1. /\ words \in [1 .. 60 -> Words] /\ roundKeys \in [0 .. 59 -> ByteWords]
      /\ \A i \in 0 .. 59, r \in 0 .. 3 : Poly(roundKeys[i][r]) = words[i + 1][r]
  BY DEF WordsMatch
<1>2. PICK t : t = AddRoundKey(s, n)
  OBVIOUS
<1>3. t = [k \in 0 .. 15 |-> Xor(s[k], roundKeys[4 * n + (k \div 4)][k % 4])]
  BY <1>2 DEF AddRoundKey, NumberStateColumns
<1>4. ASSUME NEW k \in 0 .. 15
      PROVE  /\ t[k] \in Byte
             /\ Poly(t[k]) = Standard!Plus(Poly(s[k]), words[4 * n + (k \div 4) + 1][k % 4])
  <2>1. PICK i \in 0 .. 59, r \in 0 .. 3 : i = 4 * n + (k \div 4) /\ r = k % 4
    <3>1. 4 * n + (k \div 4) \in 0 .. 59 /\ k % 4 \in 0 .. 3
      OBVIOUS
    <3>2. QED
      BY <3>1
  <2>2. PICK w \in Byte : w = roundKeys[i][r] /\ Poly(w) = words[i + 1][r]
    BY <1>1 DEF ByteWords
  <2>3. PICK b \in Byte : b = s[k]
    BY DEF ByteBlocks
  <2>4. Xor(b, w) \in Byte /\ Poly(Xor(b, w)) = Standard!Plus(Poly(b), Poly(w))
    BY XorByte, PolyXor
  <2>5. t[k] = Xor(b, w)
    BY <1>3, <2>1, <2>2, <2>3
  <2>6. QED
    BY <2>1, <2>2, <2>3, <2>4, <2>5
<1>5. t \in ByteBlocks
  BY <1>3, <1>4 DEF ByteBlocks
<1>6. PICK m \in Matrix16 : m = Matrix(s)
  BY MatrixCells
<1>7. PICK a \in Matrix16 : /\ a = Standard!AddRoundKey(m, words, n)
                            /\ \A row \in 0 .. 3, col \in 0 .. 3 :
                                 a[<<row, col>>] = Standard!Plus(m[<<row, col>>],
                                                                 words[4 * n + col + 1][row])
  BY <1>1, AddRoundKeyExact
<1>8. ASSUME NEW row \in 0 .. 3, NEW col \in 0 .. 3
      PROVE  Matrix(t)[<<row, col>>] = a[<<row, col>>]
  <2>1. PICK k \in 0 .. 15 : k = 4 * col + row /\ k % 4 = row /\ k \div 4 = col
    BY CellOfByte
  <2>2. Matrix(t)[<<row, col>>] = Poly(t[k]) /\ m[<<row, col>>] = Poly(s[k])
    BY <1>6, <2>1, MatrixCells
  <2>3. QED
    BY <1>4, <1>7, <2>1, <2>2
<1>9. Matrix(t) \in Matrix16
  BY MatrixCells
<1>10. Matrix(t) = a
  BY <1>8, <1>9, MatricesEqual
<1>11. QED
  BY <1>2, <1>5, <1>6, <1>7, <1>10

(* A round of the code is a round of the standard. *)
LEMMA RoundOfBytes ==
  ASSUME NEW words, WordsMatch(words), NEW s \in ByteBlocks
  PROVE  /\ \A n \in 1 .. 13 :
              /\ AddRoundKey(MixColumns(ShiftRows(SubBytes(s))), n) \in ByteBlocks
              /\ Matrix(AddRoundKey(MixColumns(ShiftRows(SubBytes(s))), n))
                   = RoundOf(words, Matrix(s), n)
         /\ AddRoundKey(ShiftRows(SubBytes(s)), 14) \in ByteBlocks
         /\ Matrix(AddRoundKey(ShiftRows(SubBytes(s)), 14)) = RoundOf(words, Matrix(s), 14)
<1>1. PICK b \in ByteBlocks : b = SubBytes(s) /\ Matrix(b) = Standard!SubBytes(Matrix(s))
  BY SubBytesExact
<1>2. PICK c \in ByteBlocks : c = ShiftRows(b) /\ Matrix(c) = Standard!ShiftRows(Matrix(b))
  BY ShiftRowsExact
<1>3. PICK d \in ByteBlocks : d = MixColumns(c) /\ Matrix(d) = Standard!MixColumns(Matrix(c))
  BY MixColumnsOfBytes
<1>4. Standard!Table(Standard!ShiftRows(Standard!SubBytes(Matrix(s)))) = Matrix(c)
  BY <1>1, <1>2, TableExact
<1>5. ASSUME NEW n \in 1 .. 13
      PROVE  /\ AddRoundKey(d, n) \in ByteBlocks
             /\ Matrix(AddRoundKey(d, n)) = RoundOf(words, Matrix(s), n)
  <2>1. n \in 0 .. 14 /\ n # 14
    OBVIOUS
  <2>2. /\ AddRoundKey(d, n) \in ByteBlocks
        /\ Matrix(AddRoundKey(d, n)) = Standard!AddRoundKey(Matrix(d), words, n)
    BY <2>1, AddRoundKeyOfBytes
  <2>3. QED
    BY <1>3, <1>4, <2>1, <2>2 DEF RoundOf
<1>6. /\ AddRoundKey(c, 14) \in ByteBlocks
      /\ Matrix(AddRoundKey(c, 14)) = RoundOf(words, Matrix(s), 14)
  <2>1. PICK n \in 0 .. 14 : n = 14
    OBVIOUS
  <2>2. /\ AddRoundKey(c, n) \in ByteBlocks
        /\ Matrix(AddRoundKey(c, n)) = Standard!AddRoundKey(Matrix(c), words, n)
    BY AddRoundKeyOfBytes
  <2>3. QED
    BY <1>4, <2>1, <2>2 DEF RoundOf
<1>7. QED
  BY <1>1, <1>2, <1>3, <1>5, <1>6

-----------------------------------------------------------------------------
(***************************************************************************)
(* The block cipher: its invariant, and that it is AES.                    *)
(***************************************************************************)
\* The states of the standard while a block is encrypted.
States(words, s) ==
  CHOOSE states : Rounds(words, s, states) /\ Standard!Cipher(words, s) = states[14]

KeyWordsOf == Expansion[PolyKey(key)]

\* Blocks are encrypted when the schedule is complete; between the rounds the
\* output is the state of the standard.
InCall ==
  /\ iWord < NumberRoundKeysInWords => counter = <<>> /\ iRound = 0
  /\ iRound > 0 =>
       /\ counter # <<>>
       /\ Matrix(output) = States(KeyWordsOf, Matrix(counter))[iRound - 1]
  /\ iRound = 0 /\ counter # <<>> =>
       Matrix(output) = Encryption(PolyKey(key), Matrix(counter))

BlockIInv == BlockTypeOK /\ RoundKeysExact /\ InCall

(* Keys and blocks of bytes are keys and blocks of the standard. *)
LEMMA PolyKeyTyped ==
  ASSUME NEW k \in Keys
  PROVE  /\ PolyKey(k) \in [1 .. 32 -> Polynomials] /\ PolyKey(k) \in PolyKeys
         /\ \A j \in 1 .. 32 : PolyKey(k)[j] = Poly(k[j - 1])
BY PolyTyped DEF PolyKey, PolyKeys, NumberKeyWords

(* The table of the expansions. *)
LEMMA ExpansionTable ==
  ASSUME NEW k \in Keys
  PROVE  Expands(PolyKey(k), Expansion[PolyKey(k)])
<1> DEFINE f == [p \in PolyKeys |-> Standard!Expansion(p)]
<1>1. Expansion = f
  <2>1. Expansion = Standard!Table(f)
    BY DEF Expansion
  <2>2. QED
    BY <2>1, TableExact
<1>2. PICK p \in [1 .. 32 -> Polynomials] : p = PolyKey(k) /\ p \in PolyKeys
  BY PolyKeyTyped
<1>3. f[p] = Standard!Expansion(p)
  BY <1>2
<1>4. QED
  BY <1>1, <1>2, <1>3, ExpansionExact

(* The table of the encryptions. *)
LEMMA EncryptionTable ==
  ASSUME NEW k \in Keys, NEW c \in Blocks
  PROVE  Encryption(PolyKey(k), Matrix(c))
           = Standard!Cipher(Expansion[PolyKey(k)], Matrix(c))
<1> DEFINE f == [km \in PolyKeys \X Matrices |->
                   Standard!Cipher(Expansion[km[1]], km[2])]
<1>1. Encrypted = f
  <2>1. Encrypted = Standard!Table(f)
    BY DEF Encrypted
  <2>2. QED
    BY <2>1, TableExact
<1>2. PICK p \in PolyKeys : p = PolyKey(k)
  BY PolyKeyTyped
<1>3. PICK m \in Matrices : m = Matrix(c)
  BY DEF Matrices
<1>4. f[<<p, m>>] = Standard!Cipher(Expansion[p], m)
  <2>1. PICK km : km = <<p, m>>
    OBVIOUS
  <2>2. km \in PolyKeys \X Matrices /\ km[1] = p /\ km[2] = m
    BY <2>1
  <2>3. f[km] = Standard!Cipher(Expansion[km[1]], km[2])
    BY <2>2
  <2>4. QED
    BY <2>1, <2>3, <2>2
<1>5. QED
  BY <1>1, <1>2, <1>3, <1>4 DEF Encryption

(* The chosen states are those of the standard. *)
LEMMA StatesExact ==
  ASSUME NEW k \in Keys, NEW c \in Blocks
  PROVE  LET words == Expansion[PolyKey(k)]
             states == States(words, Matrix(c))
         IN  /\ Rounds(words, Matrix(c), states)
             /\ Encryption(PolyKey(k), Matrix(c)) = states[14]
<1>1. PICK words \in [1 .. 60 -> Words] : words = Expansion[PolyKey(k)]
  BY ExpansionTable DEF Expands
<1>2. PICK m \in Matrix16 : m = Matrix(c)
  BY MatrixCells
<1>3. \E states : Rounds(words, m, states) /\ Standard!Cipher(words, m) = states[14]
  BY CipherRounds
<1>4. Rounds(words, m, States(words, m)) /\ Standard!Cipher(words, m) = States(words, m)[14]
  BY <1>3 DEF States
<1>5. QED
  BY <1>1, <1>2, <1>4, EncryptionTable

(* A matrix is not the empty sequence; neither is a block. *)
LEMMA NotEmpty ==
  /\ \A s : Matrix(s) # <<>>
  /\ <<>> \notin Blocks
<1>1. DOMAIN <<>> = {}
  OBVIOUS
<1>2. ASSUME NEW s PROVE Matrix(s) # <<>>
  <2>1. DOMAIN Matrix(s) = (0 .. 3) \X (0 .. 3)
    BY DEF Matrix
  <2>2. <<0, 0>> \in (0 .. 3) \X (0 .. 3)
    OBVIOUS
  <2>3. DOMAIN Matrix(s) # {}
    BY <2>1, <2>2
  <2>4. QED
    BY <1>1, <2>3
<1>3. ASSUME NEW c \in Blocks PROVE c # <<>>
  <2>1. DOMAIN c = 0 .. 15 /\ 0 \in 0 .. 15
    BY BlocksAssumption
  <2>2. QED
    BY <1>1, <2>1
<1>4. QED
  BY <1>2, <1>3

(* With the schedule complete the words of the code are the standard's. *)
LEMMA ScheduleComplete ==
  ASSUME BlockIInv, iWord = NumberRoundKeysInWords
  PROVE  WordsMatch(KeyWordsOf)
<1>1. NumberRoundKeysInWords = 60
  BY DEF NumberRoundKeysInWords, NumberStateColumns, NumberRounds
<1>2. key \in Keys /\ roundKeys \in [0 .. 59 -> ByteWords]
  BY <1>1 DEF BlockIInv, BlockTypeOK, ByteWords
<1>3. KeyWordsOf \in [1 .. 60 -> Words]
  BY <1>2, ExpansionTable DEF Expands, KeyWordsOf
<1>4. \A i \in 0 .. 59, r \in 0 .. 3 : Poly(roundKeys[i][r]) = KeyWordsOf[i + 1][r]
  <2>1. iWord - 1 = 59
    BY <1>1
  <2>2. QED
    BY <2>1 DEF BlockIInv, RoundKeysExact, KeyWordsOf
<1>5. QED
  BY <1>2, <1>3, <1>4 DEF WordsMatch

(* The sizes of the schedule. *)
LEMMA Sizes ==
  /\ NumberRoundKeysInWords = 60 /\ NumberKeyWords = 8 /\ NumberStateColumns = 4
  /\ NumberRounds = 14
BY DEF NumberRoundKeysInWords, NumberStateColumns, NumberRounds, NumberKeyWords

(* Type correctness, over the words of the proof. *)
LEMMA BlockTyped ==
  BlockTypeOK <=> /\ key \in Keys
                  /\ roundKeys \in [0 .. 59 -> ByteWords]
                  /\ iWord \in 0 .. 60
                  /\ counter \in Blocks \cup {<<>>}
                  /\ output \in ByteBlocks
                  /\ iRound \in 0 .. 14
<1>1. NumberRoundKeysInWords - 1 = 59
  BY Sizes
<1>2. QED
  BY <1>1, Sizes DEF BlockTypeOK, ByteWords, ByteBlocks

(* The same of the next state. *)
LEMMA BlockTypedNext ==
  ASSUME key' \in Keys, roundKeys' \in [0 .. 59 -> ByteWords], iWord' \in 0 .. 60,
         counter' \in Blocks \cup {<<>>}, output' \in ByteBlocks, iRound' \in 0 .. 14
  PROVE  BlockTypeOK'
<1>1. NumberRoundKeysInWords - 1 = 59
  BY Sizes
<1>2. QED
  BY <1>1, Sizes DEF BlockTypeOK, ByteWords, ByteBlocks

(* At the beginning nothing is made. *)
LEMMA BlockInitIInv == BlockInit => BlockIInv
<1> SUFFICES ASSUME BlockInit PROVE BlockIInv
  OBVIOUS
<1>1. 0 \in Byte
  BY OctetByte
<1>2. Zeros(4) \in ByteWords /\ Zeros(16) \in ByteBlocks
  <2>1. 4 - 1 = 3 /\ 16 - 1 = 15
    OBVIOUS
  <2>2. QED
    BY <1>1, <2>1 DEF Zeros, ByteWords, ByteBlocks
<1>3. roundKeys \in [0 .. 59 -> ByteWords]
  <2>1. NumberRoundKeysInWords - 1 = 59
    BY Sizes
  <2>2. roundKeys = [i \in 0 .. 59 |-> Zeros(4)]
    BY <2>1 DEF BlockInit
  <2> HIDE DEF Zeros
  <2>3. QED
    BY <1>2, <2>2
<1>4. BlockTypeOK
  BY <1>2, <1>3, BlockTyped DEF BlockInit
<1>5. RoundKeysExact
  BY DEF BlockInit, RoundKeysExact
<1>6. InCall
  <2>1. counter = <<>> /\ iRound = 0
    BY DEF BlockInit
  <2>2. QED
    BY <2>1 DEF InCall
<1>7. QED
  BY <1>4, <1>5, <1>6 DEF BlockIInv

(* A word is copied from the key. *)
LEMMA CopyKeyWordKeeps ==
  ASSUME BlockIInv, CopyKeyWord
  PROVE  BlockIInv'
<1>1. /\ key \in Keys /\ roundKeys \in [0 .. 59 -> ByteWords] /\ iWord \in 0 .. 60
      /\ output \in ByteBlocks
  BY BlockTyped DEF BlockIInv
<1>2. PICK n \in 0 .. 7 : n = iWord
  <2>1. iWord < 8
    BY Sizes DEF CopyKeyWord
  <2>2. QED
    BY <1>1, <2>1
<1>3. counter = <<>> /\ iRound = 0
  <2>1. iWord < NumberRoundKeysInWords
    BY <1>2, Sizes
  <2>2. QED
    BY <2>1 DEF BlockIInv, InCall
<1>4. PICK w : w = [r \in 0 .. 3 |-> key[4 * n + r]]
  OBVIOUS
<1>5. /\ roundKeys' = [roundKeys EXCEPT ![n] = w]
      /\ iWord' = n + 1
      /\ key' = key /\ counter' = counter /\ output' = output /\ iRound' = iRound
  BY <1>4, <1>2 DEF CopyKeyWord
<1>6. key \in [0 .. 31 -> Byte]
  <2>1. 4 * NumberKeyWords - 1 = 31
    BY Sizes
  <2>2. QED
    BY <1>1, <2>1, KeysAssumption
<1>7. w \in ByteWords
  <2>1. \A r \in 0 .. 3 : 4 * n + r \in 0 .. 31
    OBVIOUS
  <2>2. QED
    BY <1>4, <1>6, <2>1 DEF ByteWords
<1>8. BlockTypeOK'
  <2>1. roundKeys' \in [0 .. 59 -> ByteWords]
    BY <1>1, <1>5, <1>7
  <2>2. iWord' \in 0 .. 60
    BY <1>5
  <2>3. QED
    <3>1. counter' \in Blocks \cup {<<>>} /\ iRound' \in 0 .. 14
      BY <1>5, <1>3
    <3>2. QED
      BY <1>1, <1>5, <2>1, <2>2, <3>1, BlockTypedNext
<1>9. \A r \in 0 .. 3 : Poly(w[r]) = Expansion[PolyKey(key)][n + 1][r]
  <2>1. PICK E : E = Expansion[PolyKey(key)]
    OBVIOUS
  <2>2. PICK pk : pk = PolyKey(key)
    OBVIOUS
  <2>3. Expands(pk, E)
    BY <1>1, <2>1, <2>2, ExpansionTable
  <2>4. E[n + 1] = [r \in 0 .. 3 |-> pk[4 * n + r + 1]]
    <3>1. PICK j \in 1 .. 8 : j = n + 1 /\ j - 1 = n
      OBVIOUS
    <3>2. E[j] = [r \in 0 .. 3 |-> pk[4 * (j - 1) + r + 1]]
      BY <2>3 DEF Expands
    <3>3. QED
      BY <3>1, <3>2
  <2>5. ASSUME NEW r \in 0 .. 3 PROVE pk[4 * n + r + 1] = Poly(key[4 * n + r])
    <3>1. PICK j \in 1 .. 32 : j = 4 * n + r + 1 /\ j - 1 = 4 * n + r
      OBVIOUS
    <3>2. pk[j] = Poly(key[j - 1])
      BY <1>1, <2>2, PolyKeyTyped
    <3>3. QED
      BY <3>1, <3>2
  <2>6. QED
    BY <1>4, <2>1, <2>4, <2>5
<1>10. RoundKeysExact'
  <2>1. ASSUME NEW i \in 0 .. iWord' - 1, NEW r \in 0 .. 3
        PROVE  Poly(roundKeys'[i][r]) = Expansion[PolyKey(key')][i + 1][r]
    <3>1. i \in 0 .. n
      BY <1>5
    <3>2. CASE i = n
      <4>1. roundKeys'[i] = w
        BY <1>1, <1>5, <3>2
      <4>2. QED
        BY <1>5, <1>9, <3>2, <4>1
    <3>3. CASE i # n
      <4>1. i \in 0 .. n - 1 /\ roundKeys'[i] = roundKeys[i]
        BY <1>1, <1>5, <3>1, <3>3
      <4>2. Poly(roundKeys[i][r]) = Expansion[PolyKey(key)][i + 1][r]
        BY <1>2, <4>1 DEF BlockIInv, RoundKeysExact
      <4>3. QED
        BY <1>5, <4>1, <4>2
    <3>4. QED
      BY <3>2, <3>3
  <2>2. QED
    BY <2>1 DEF RoundKeysExact
<1>11. InCall'
  BY <1>5, <1>3 DEF InCall
<1>12. QED
  BY <1>8, <1>10, <1>11 DEF BlockIInv

(* A word is generated. *)
LEMMA GenerateWordKeeps ==
  ASSUME BlockIInv, GenerateWord
  PROVE  BlockIInv'
<1>1. /\ key \in Keys /\ roundKeys \in [0 .. 59 -> ByteWords] /\ iWord \in 0 .. 60
      /\ output \in ByteBlocks
  BY BlockTyped DEF BlockIInv
<1>2. PICK n \in 8 .. 59 : n = iWord
  <2>1. 8 <= iWord /\ iWord < 60
    BY Sizes DEF GenerateWord
  <2>2. QED
    BY <1>1, <2>1
<1>3. counter = <<>> /\ iRound = 0
  <2>1. iWord < NumberRoundKeysInWords
    BY <1>2, Sizes
  <2>2. QED
    BY <2>1 DEF BlockIInv, InCall
<1>4. PICK first \in ByteWords, last \in ByteWords :
        first = roundKeys[n - 8] /\ last = roundKeys[n - 1]
  <2>1. n - 8 \in 0 .. 59 /\ n - 1 \in 0 .. 59
    OBVIOUS
  <2>2. QED
    BY <1>1, <2>1
<1>5. PICK w \in ByteWords : /\ w = XorWords(first, Temp(last, n))
                             /\ PolyWord(w) = Following(n, PolyWord(first), PolyWord(last))
  BY GeneratedExact
<1>6. /\ roundKeys' = [roundKeys EXCEPT ![n] = w]
      /\ iWord' = n + 1
      /\ key' = key /\ counter' = counter /\ output' = output /\ iRound' = iRound
  BY <1>4, <1>5, <1>2, Sizes DEF GenerateWord
<1>7. BlockTypeOK'
  <2>1. roundKeys' \in [0 .. 59 -> ByteWords]
    BY <1>1, <1>5, <1>6
  <2>2. iWord' \in 0 .. 60
    BY <1>6
  <2>3. QED
    <3>1. counter' \in Blocks \cup {<<>>} /\ iRound' \in 0 .. 14
      BY <1>6, <1>3
    <3>2. QED
      BY <1>1, <1>6, <2>1, <2>2, <3>1, BlockTypedNext
<1>8. \A r \in 0 .. 3 : Poly(w[r]) = Expansion[PolyKey(key)][n + 1][r]
  <2>1. PICK E : E = Expansion[PolyKey(key)]
    OBVIOUS
  <2>2. Expands(PolyKey(key), E)
    BY <1>1, <2>1, ExpansionTable
  <2>3. E[n + 1] = Following(n, E[n - 7], E[n])
    BY <1>1, <2>2 DEF Expands
  <2>4. ASSUME NEW i \in 0 .. n - 1
        PROVE  E[i + 1] = PolyWord(roundKeys[i])
    <3>1. E[i + 1] \in Words
      <4>1. i + 1 \in 1 .. 60
        OBVIOUS
      <4>2. QED
        BY <2>2, <4>1 DEF Expands
    <3>2. \A r \in 0 .. 3 : Poly(roundKeys[i][r]) = E[i + 1][r]
      BY <1>2, <2>1 DEF BlockIInv, RoundKeysExact
    <3>3. PICK e \in Words : e = E[i + 1]
      BY <3>1
    <3>4. e = [r \in 0 .. 3 |-> e[r]]
      BY DEF Words
    <3>5. QED
      BY <3>2, <3>3, <3>4 DEF PolyWord
  <2>5. E[n - 7] = PolyWord(first)
    <3>1. PICK i \in 0 .. n - 1 : i = n - 8 /\ i + 1 = n - 7
      OBVIOUS
    <3>2. QED
      BY <1>4, <2>4, <3>1
  <2>6. E[n] = PolyWord(last)
    <3>1. PICK i \in 0 .. n - 1 : i = n - 1 /\ i + 1 = n
      OBVIOUS
    <3>2. QED
      BY <1>4, <2>4, <3>1
  <2>7. E[n + 1] = PolyWord(w)
    BY <1>5, <2>3, <2>5, <2>6
  <2>8. QED
    BY <2>1, <2>7 DEF PolyWord
<1>9. RoundKeysExact'
  <2>1. ASSUME NEW i \in 0 .. iWord' - 1, NEW r \in 0 .. 3
        PROVE  Poly(roundKeys'[i][r]) = Expansion[PolyKey(key')][i + 1][r]
    <3>1. i \in 0 .. n
      BY <1>6
    <3>2. CASE i = n
      <4>1. roundKeys'[i] = w
        BY <1>1, <1>6, <3>2
      <4>2. QED
        BY <1>6, <1>8, <3>2, <4>1
    <3>3. CASE i # n
      <4>1. i \in 0 .. n - 1 /\ roundKeys'[i] = roundKeys[i]
        BY <1>1, <1>6, <3>1, <3>3
      <4>2. Poly(roundKeys[i][r]) = Expansion[PolyKey(key)][i + 1][r]
        BY <1>2, <4>1 DEF BlockIInv, RoundKeysExact
      <4>3. QED
        BY <1>6, <4>1, <4>2
    <3>4. QED
      BY <3>2, <3>3
  <2>2. QED
    BY <2>1 DEF RoundKeysExact
<1>10. InCall'
  BY <1>6, <1>3 DEF InCall
<1>11. QED
  BY <1>7, <1>9, <1>10 DEF BlockIInv

(* A call changes neither the key nor the words. *)
LEMMA ScheduleKept ==
  ASSUME RoundKeysExact, UNCHANGED <<key, roundKeys, iWord>>
  PROVE  RoundKeysExact'
BY DEF RoundKeysExact

(* A call begins. *)
LEMMA StartBlockKeeps ==
  ASSUME BlockIInv, StartBlock
  PROVE  BlockIInv'
<1>1. /\ key \in Keys /\ roundKeys \in [0 .. 59 -> ByteWords] /\ iWord = 60
      /\ iWord = NumberRoundKeysInWords
  BY Sizes, BlockTyped DEF StartBlock, BlockIInv
<1>2. PICK c \in Blocks : c = counter'
  BY DEF StartBlock
<1>3. /\ key' = key /\ roundKeys' = roundKeys /\ iWord' = iWord
      /\ output' = AddRoundKey(c, 0) /\ iRound' = 1
  BY <1>2 DEF StartBlock
<1>4. PICK words : words = KeyWordsOf
  OBVIOUS
<1>5. WordsMatch(words)
  BY <1>1, <1>4, ScheduleComplete
<1>6. c \in ByteBlocks
  BY BlocksAssumption DEF ByteBlocks
<1>7. /\ AddRoundKey(c, 0) \in ByteBlocks
      /\ Matrix(AddRoundKey(c, 0)) = Standard!AddRoundKey(Matrix(c), words, 0)
  <2>1. PICK n \in 0 .. 14 : n = 0
    OBVIOUS
  <2>2. /\ AddRoundKey(c, n) \in ByteBlocks
        /\ Matrix(AddRoundKey(c, n)) = Standard!AddRoundKey(Matrix(c), words, n)
    BY <1>5, <1>6, AddRoundKeyOfBytes
  <2>3. QED
    BY <2>1, <2>2
<1>8. BlockTypeOK'
  <2>1. iWord' \in 0 .. 60 /\ counter' \in Blocks \cup {<<>>} /\ iRound' \in 0 .. 14
    BY <1>1, <1>2, <1>3
  <2>2. QED
    BY <1>1, <1>3, <1>7, <2>1, BlockTypedNext
<1>9. States(words, Matrix(c))[0] = Standard!AddRoundKey(Matrix(c), words, 0)
  BY <1>1, <1>4, StatesExact DEF Rounds, KeyWordsOf
<1>10. InCall'
  <2>1. c # <<>>
    BY NotEmpty
  <2>2. KeyWordsOf' = words
    BY <1>3, <1>4 DEF KeyWordsOf
  <2>3. 1 - 1 = 0 /\ 1 > 0
    OBVIOUS
  <2>4. Matrix(output') = States(words, Matrix(c))[0]
    BY <1>3, <1>7, <1>9
  <2>5. QED
    BY <1>1, <1>2, <1>3, <2>1, <2>2, <2>3, <2>4 DEF InCall
<1>11. RoundKeysExact'
  BY <1>3, ScheduleKept DEF BlockIInv
<1>12. QED
  BY <1>8, <1>10, <1>11 DEF BlockIInv

(* Where a round finds the system. *)
LEMMA BeforeRound ==
  ASSUME BlockIInv, iRound # 0
  PROVE  /\ key \in Keys /\ roundKeys \in [0 .. 59 -> ByteWords] /\ iWord \in 0 .. 60
         /\ counter \in Blocks /\ counter # <<>> /\ output \in ByteBlocks /\ iRound \in 1 .. 14
         /\ WordsMatch(KeyWordsOf)
         /\ Rounds(KeyWordsOf, Matrix(counter), States(KeyWordsOf, Matrix(counter)))
         /\ Encryption(PolyKey(key), Matrix(counter)) = States(KeyWordsOf, Matrix(counter))[14]
         /\ Matrix(output) = States(KeyWordsOf, Matrix(counter))[iRound - 1]
<1>1. /\ key \in Keys /\ roundKeys \in [0 .. 59 -> ByteWords] /\ iWord \in 0 .. 60
      /\ counter \in Blocks \cup {<<>>} /\ output \in ByteBlocks /\ iRound \in 0 .. 14
  BY BlockTyped DEF BlockIInv
<1>2. iRound > 0 /\ iRound \in 1 .. 14
  BY <1>1
<1>3. iWord = NumberRoundKeysInWords
  <2>1. ~(iWord < NumberRoundKeysInWords)
    BY DEF BlockIInv, InCall
  <2>2. ~(iWord < 60)
    BY <2>1, Sizes
  <2>3. iWord \in 0 .. 60
    BY <1>1
  <2>4. iWord = 60
    BY <2>2, <2>3
  <2>5. QED
    BY <2>4, Sizes
<1>4. WordsMatch(KeyWordsOf)
  BY <1>3, ScheduleComplete
<1>5. counter # <<>> /\ Matrix(output) = States(KeyWordsOf, Matrix(counter))[iRound - 1]
  BY <1>2 DEF BlockIInv, InCall
<1>6. counter \in Blocks
  BY <1>1, <1>5
<1>7. /\ Rounds(KeyWordsOf, Matrix(counter), States(KeyWordsOf, Matrix(counter)))
      /\ Encryption(PolyKey(key), Matrix(counter)) = States(KeyWordsOf, Matrix(counter))[14]
  BY <1>1, <1>6, StatesExact DEF KeyWordsOf
<1>8. QED
  BY <1>1, <1>2, <1>4, <1>5, <1>6, <1>7

(* A round but the last. *)
LEMMA RoundKeeps ==
  ASSUME BlockIInv, Round
  PROVE  BlockIInv'
<1>1. iRound # 0
  BY DEF Round
<1>2. PICK words, c, states :
        words = KeyWordsOf /\ c = Matrix(counter) /\ states = States(words, c)
  OBVIOUS
<1>3. /\ key \in Keys /\ roundKeys \in [0 .. 59 -> ByteWords] /\ iWord \in 0 .. 60
      /\ counter \in Blocks /\ counter # <<>> /\ output \in ByteBlocks /\ iRound \in 1 .. 14
      /\ WordsMatch(words) /\ Rounds(words, c, states)
      /\ Matrix(output) = states[iRound - 1]
  BY <1>1, <1>2, BeforeRound
<1>4. PICK n \in 1 .. 13 : n = iRound
  BY <1>3, Sizes DEF Round
<1>5. /\ output' = AddRoundKey(MixColumns(ShiftRows(SubBytes(output))), n)
      /\ iRound' = n + 1
      /\ key' = key /\ roundKeys' = roundKeys /\ iWord' = iWord /\ counter' = counter
  BY <1>4 DEF Round
<1>6. output' \in ByteBlocks /\ Matrix(output') = RoundOf(words, Matrix(output), n)
  <2>1. output \in ByteBlocks /\ WordsMatch(words)
    BY <1>3
  <2>2. /\ AddRoundKey(MixColumns(ShiftRows(SubBytes(output))), n) \in ByteBlocks
        /\ Matrix(AddRoundKey(MixColumns(ShiftRows(SubBytes(output))), n))
             = RoundOf(words, Matrix(output), n)
    BY <2>1, RoundOfBytes
  <2>3. output' = AddRoundKey(MixColumns(ShiftRows(SubBytes(output))), n)
    BY <1>5
  <2>4. QED
    BY <2>2, <2>3
<1>7. RoundOf(words, Matrix(output), n) = states[n]
  <2>1. n \in 1 .. 14
    OBVIOUS
  <2>2. states[n] = RoundOf(words, states[n - 1], n)
    BY <1>3, <2>1 DEF Rounds
  <2>3. QED
    BY <1>3, <1>4, <2>2
<1>8. BlockTypeOK'
  <2>1. counter' \in Blocks \cup {<<>>} /\ iRound' \in 0 .. 14
    BY <1>3, <1>5
  <2>2. QED
    BY <1>3, <1>5, <1>6, <2>1, BlockTypedNext
<1>9. RoundKeysExact'
  BY <1>5, ScheduleKept DEF BlockIInv
<1>10. InCall'
  <2>1. KeyWordsOf' = words
    BY <1>2, <1>5 DEF KeyWordsOf
  <2>2. (n + 1) - 1 = n /\ n + 1 > 0 /\ n + 1 # 0
    OBVIOUS
  <2>3. ~(iWord' < NumberRoundKeysInWords)
    BY <1>4, <1>5 DEF BlockIInv, InCall
  <2>4. Matrix(output') = States(KeyWordsOf', Matrix(counter'))[iRound' - 1]
    BY <1>2, <1>5, <1>6, <1>7, <2>1, <2>2
  <2>5. counter' # <<>> /\ iRound' # 0
    BY <1>3, <1>5, <2>2
  <2>6. QED
    BY <2>3, <2>4, <2>5 DEF InCall
<1>11. QED
  BY <1>8, <1>9, <1>10 DEF BlockIInv

(* The last round. *)
LEMMA LastRoundKeeps ==
  ASSUME BlockIInv, LastRound
  PROVE  BlockIInv'
<1>1. iRound = 14 /\ iRound # 0
  BY Sizes DEF LastRound
<1>2. PICK words, c, states :
        words = KeyWordsOf /\ c = Matrix(counter) /\ states = States(words, c)
  OBVIOUS
<1>3. /\ key \in Keys /\ roundKeys \in [0 .. 59 -> ByteWords] /\ iWord \in 0 .. 60
      /\ counter \in Blocks /\ counter # <<>> /\ output \in ByteBlocks
      /\ WordsMatch(words) /\ Rounds(words, c, states)
      /\ Encryption(PolyKey(key), c) = states[14]
      /\ Matrix(output) = states[iRound - 1]
  BY <1>1, <1>2, BeforeRound
<1>4. Matrix(output) = states[13]
  <2>1. iRound - 1 = 13
    BY <1>1
  <2>2. QED
    BY <1>3, <2>1
<1>5. /\ output' = AddRoundKey(ShiftRows(SubBytes(output)), 14)
      /\ iRound' = 0
      /\ key' = key /\ roundKeys' = roundKeys /\ iWord' = iWord /\ counter' = counter
  BY <1>1 DEF LastRound
<1>6. output' \in ByteBlocks /\ Matrix(output') = RoundOf(words, Matrix(output), 14)
  BY <1>3, <1>5, RoundOfBytes
<1>7. RoundOf(words, Matrix(output), 14) = states[14]
  <2>1. PICK n \in 1 .. 14 : n = 14 /\ n - 1 = 13
    OBVIOUS
  <2>2. states[n] = RoundOf(words, states[n - 1], n)
    BY <1>3, <2>1 DEF Rounds
  <2>3. QED
    BY <1>4, <2>1, <2>2
<1>8. BlockTypeOK'
  <2>1. counter' \in Blocks \cup {<<>>} /\ iRound' \in 0 .. 14
    BY <1>3, <1>5
  <2>2. QED
    BY <1>3, <1>5, <1>6, <2>1, BlockTypedNext
<1>9. RoundKeysExact'
  BY <1>5, ScheduleKept DEF BlockIInv
<1>10. InCall'
  <2>1. ~(iWord' < NumberRoundKeysInWords)
    BY <1>1, <1>5 DEF BlockIInv, InCall
  <2>2. Matrix(output') = Encryption(PolyKey(key'), Matrix(counter'))
    BY <1>2, <1>3, <1>5, <1>6, <1>7
  <2>3. ~(iRound' > 0)
    BY <1>5
  <2>4. QED
    BY <2>1, <2>2, <2>3 DEF InCall
<1>11. QED
  BY <1>8, <1>9, <1>10 DEF BlockIInv

(* Every step keeps the invariant. *)
LEMMA BlockNextIInv == BlockIInv /\ [BlockNext]_blockVars => BlockIInv'
<1> SUFFICES ASSUME BlockIInv, [BlockNext]_blockVars PROVE BlockIInv'
  OBVIOUS
<1>1. CASE CopyKeyWord
  BY <1>1, CopyKeyWordKeeps
<1>2. CASE GenerateWord
  BY <1>2, GenerateWordKeeps
<1>3. CASE StartBlock
  BY <1>3, StartBlockKeeps
<1>4. CASE Round
  BY <1>4, RoundKeeps
<1>5. CASE LastRound
  BY <1>5, LastRoundKeeps
<1>6. CASE UNCHANGED blockVars
  <2>1. /\ key' = key /\ roundKeys' = roundKeys /\ iWord' = iWord
        /\ counter' = counter /\ output' = output /\ iRound' = iRound
    BY <1>6 DEF blockVars
  <2>2. BlockTypeOK'
    BY <2>1 DEF BlockIInv, BlockTypeOK
  <2>3. RoundKeysExact'
    BY <2>1, ScheduleKept DEF BlockIInv
  <2>4. InCall'
    BY <2>1 DEF BlockIInv, InCall, KeyWordsOf
  <2>5. QED
    BY <2>2, <2>3, <2>4 DEF BlockIInv
<1>7. QED
  BY <1>1, <1>2, <1>3, <1>4, <1>5, <1>6 DEF BlockNext

(* The invariant of the block cipher holds in every state. *)
THEOREM BlockAlwaysIInv == BlockSpec => []BlockIInv
BY BlockInitIInv, BlockNextIInv, PTL DEF BlockSpec

(* The schedule and the rounds stay within their buffers and their types:   *)
(* GenerateRoundKeys writes sixty words, and aesEncryptBlock reads fifteen   *)
(* round keys of them.                                                      *)
THEOREM BlockTypeCorrect == BlockSpec => []BlockTypeOK
<1>1. BlockIInv => BlockTypeOK
  BY DEF BlockIInv
<1>2. QED
  BY <1>1, BlockAlwaysIInv, PTL

(* The words GenerateRoundKeys has made are those of the key expansion of   *)
(* FIPS 197, for every key.                                                 *)
THEOREM RoundKeysAlwaysExact == BlockSpec => []RoundKeysExact
<1>1. BlockIInv => RoundKeysExact
  BY DEF BlockIInv
<1>2. QED
  BY <1>1, BlockAlwaysIInv, PTL

(* aesEncryptBlock implements the block cipher a caller relies on: the      *)
(* block begun is encrypted as FIPS 197 encrypts it under the key, for      *)
(* every key and sequence of blocks.                                        *)
THEOREM BlockImplementation == BlockSpec => ImplementsAes
<1>1. BlockInit => Abstract!Init
  BY DEF BlockInit, Abstract!Init, PolyKeys
<1>2. ASSUME BlockIInv, BlockIInv', [BlockNext]_blockVars
      PROVE  [Abstract!Next]_(Abstract!vars)
  <2>1. CASE CopyKeyWord
    BY <2>1 DEF CopyKeyWord, Abstract!vars
  <2>2. CASE GenerateWord
    BY <2>2 DEF GenerateWord, Abstract!vars
  <2>3. CASE StartBlock
    <3>1. /\ iRound = 0 /\ counter' \in Blocks /\ iRound' = 1 /\ key' = key
      BY <2>3 DEF StartBlock
    <3>2. Matrix(counter') \in Matrices /\ counter' # <<>> /\ Matrix(output) # <<>>
      BY <3>1, NotEmpty DEF Matrices
    <3>3. Abstract!Begin
      BY <3>1, <3>2 DEF Abstract!Begin
    <3>4. QED
      BY <3>3 DEF Abstract!Next
  <2>4. CASE Round
    <3>1. /\ iRound # 0 /\ iRound' # 0 /\ key' = key /\ counter' = counter
      <4>1. iRound \in 1 .. 14
        BY <2>4, <1>2, BeforeRound DEF Round
      <4>2. QED
        BY <2>4, <4>1 DEF Round
    <3>2. QED
      BY <3>1 DEF Abstract!vars
  <2>5. CASE LastRound
    <3>1. iRound # 0 /\ iRound' = 0 /\ key' = key /\ counter' = counter
      BY <2>5, Sizes DEF LastRound
    <3>2. counter # <<>> /\ Matrix(counter) # <<>>
      BY <1>2, <3>1, BeforeRound, NotEmpty
    <3>3. Matrix(output') = Encryption(PolyKey(key), Matrix(counter))
      BY <1>2, <3>1, <3>2 DEF BlockIInv, InCall
    <3>4. Abstract!Encrypt
      BY <3>1, <3>2, <3>3 DEF Abstract!Encrypt
    <3>5. QED
      BY <3>4 DEF Abstract!Next
  <2>6. CASE UNCHANGED blockVars
    BY <2>6 DEF blockVars, Abstract!vars
  <2>7. QED
    BY <1>2, <2>1, <2>2, <2>3, <2>4, <2>5, <2>6 DEF BlockNext
<1>3. QED
  BY <1>1, <1>2, BlockAlwaysIInv, PTL DEF BlockSpec, ImplementsAes, Abstract!Spec
=============================================================================
