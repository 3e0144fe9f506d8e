----------------------- MODULE MontgomeryInverseProofs -----------------------
(***************************************************************************)
(* Theorems about compute_montgomery_inverse, for any radix and any        *)
(* moduli: the coefficients are those of Bezout's identity, the registers  *)
(* that end the loops can be read, and the digit returned is the negative  *)
(* inverse of an odd modulus.                                              *)
(***************************************************************************)
EXTENDS MontgomeryInverse, BigNumArithProofs, TLAPS

-----------------------------------------------------------------------------
(***************************************************************************)
(* The arithmetic of the halvings on integers.                             *)
(***************************************************************************)
(* The even numbers and the odd ones. *)
Evens == {2 * k : k \in Int}
Odds  == {2 * k + 1 : k \in Int}

(* w is the combination of N and Q with the coefficients a and b. *)
Combines(a, b, N, Q, w) == a * N + b * Q = w

(* Every integer is even or odd, and not both. *)
LEMMA Parity ==
  ASSUME NEW k \in Int
  PROVE  /\ k \in Evens <=> k % 2 = 0
         /\ k \in Odds <=> k % 2 = 1
         /\ k \in Evens <=> ~(k \in Odds)
<1>1. k \in Evens <=> k % 2 = 0
  <2>1. ASSUME NEW j \in Int, k = 2 * j PROVE k % 2 = 0
    BY <2>1
  <2>2. k % 2 = 0 => k = 2 * (k \div 2) /\ k \div 2 \in Int
    OBVIOUS
  <2>3. QED
    BY <2>1, <2>2 DEF Evens
<1>2. k \in Odds <=> k % 2 = 1
  <2>1. ASSUME NEW j \in Int, k = 2 * j + 1 PROVE k % 2 = 1
    BY <2>1
  <2>2. k % 2 = 1 => k = 2 * (k \div 2) + 1 /\ k \div 2 \in Int
    OBVIOUS
  <2>3. QED
    BY <2>1, <2>2 DEF Odds
<1>3. k % 2 \in 0 .. 1
  OBVIOUS
<1>4. QED
  BY <1>1, <1>2, <1>3

(* When N is odd, Q even and the combination even, the first coefficient is  *)
(* even; the second is even, or Q and N are added and taken and both become  *)
(* even.  Either way their halves combine to half the number.                *)
LEMMA HalvesCombine ==
  ASSUME NEW N \in Odds, NEW Q \in Evens, NEW a \in Int, NEW b \in Int,
         NEW w \in Int, Combines(a, b, N, Q, 2 * w)
  PROVE  /\ a \in Evens
         /\ b \in Evens => \E a1 \in Int, b1 \in Int :
              a = 2 * a1 /\ b = 2 * b1 /\ Combines(a1, b1, N, Q, w)
         /\ b \in Odds => \E a1 \in Int, b1 \in Int :
              a + Q = 2 * a1 /\ b - N = 2 * b1 /\ Combines(a1, b1, N, Q, w)
<1>1. PICK t \in Int : N = 2 * t + 1
  BY DEF Odds
<1>2. PICK P \in Int : Q = 2 * P
  BY DEF Evens
<1>3. a * N + b * Q = 2 * w
  BY DEF Combines
<1>4. PICK y1 \in Int, y2 \in Int, y3 \in Int, y4 \in Int, y5 \in Int :
        /\ y1 = a * N /\ y2 = b * Q /\ y3 = a * t /\ y4 = b * P /\ y5 = P * N
  BY <1>1, <1>2
<1>5. y1 = 2 * y3 + a
  <2>1. a * (2 * t + 1) = 2 * (a * t) + a
    OBVIOUS
  <2>2. QED
    BY <1>1, <1>4, <2>1
<1>6. y2 = 2 * y4
  <2>1. b * (2 * P) = 2 * (b * P)
    OBVIOUS
  <2>2. QED
    BY <1>2, <1>4, <2>1
<1>7. PICK a0 \in Int : a0 = w - y4 - y3
  OBVIOUS
<1>8. a = 2 * a0
  BY <1>3, <1>4, <1>5, <1>6, <1>7
<1>9. a0 * N + y4 = w
  <2>1. (2 * a0) * N = 2 * (a0 * N)
    BY <1>1
  <2>2. PICK z \in Int : z = a0 * N
    BY <1>1
  <2>3. y1 = 2 * z
    BY <1>4, <1>8, <2>1, <2>2
  <2>4. 2 * z + 2 * y4 = 2 * w
    BY <1>3, <1>4, <1>6, <2>3
  <2>5. z + y4 = w
    BY <2>4
  <2>6. QED
    BY <2>2, <2>5
<1>10. ASSUME b \in Evens
       PROVE  \E a1 \in Int, b1 \in Int :
                a = 2 * a1 /\ b = 2 * b1 /\ Combines(a1, b1, N, Q, w)
  <2>1. PICK b1 \in Int : b = 2 * b1
    BY <1>10 DEF Evens
  <2>2. b1 * Q = y4
    <3>1. b1 * (2 * P) = (2 * b1) * P
      OBVIOUS
    <3>2. QED
      BY <1>2, <1>4, <2>1, <3>1
  <2>3. Combines(a0, b1, N, Q, w)
    BY <1>9, <2>2 DEF Combines
  <2>4. QED
    BY <1>8, <2>1, <2>3
<1>11. ASSUME b \in Odds
       PROVE  \E a1 \in Int, b1 \in Int :
                a + Q = 2 * a1 /\ b - N = 2 * b1 /\ Combines(a1, b1, N, Q, w)
  <2>1. PICK s \in Int : b = 2 * s + 1
    BY <1>11 DEF Odds
  <2>2. PICK a1 \in Int, b1 \in Int : a1 = a0 + P /\ b1 = s - t
    OBVIOUS
  <2>3. a + Q = 2 * a1 /\ b - N = 2 * b1
    BY <1>1, <1>2, <1>8, <2>1, <2>2
  <2>4. a1 * N = a0 * N + y5
    <3>1. N \in Int
      BY <1>1
    <3>2. (a0 + P) * N = a0 * N + P * N
      BY <3>1
    <3>3. QED
      BY <1>4, <2>2, <3>2
  <2>5. b1 * Q = y4 - y5
    <3>1. (s - t) * (2 * P) = (2 * s + 1) * P - P * (2 * t + 1)
      OBVIOUS
    <3>2. QED
      BY <1>1, <1>2, <1>4, <2>1, <2>2, <3>1
  <2>6. Combines(a1, b1, N, Q, w)
    <3>1. PICK z \in Int : z = a0 * N
      BY <1>1
    <3>2. a1 * N + b1 * Q = (z + y5) + (y4 - y5)
      BY <2>4, <2>5, <3>1
    <3>3. QED
      BY <1>9, <3>1, <3>2 DEF Combines
  <2>7. QED
    BY <2>3, <2>6
<1>12. QED
  BY <1>8, <1>10, <1>11 DEF Evens

(* The difference of two numbers has the differences of their coefficients. *)
LEMMA DifferencesCombine ==
  ASSUME NEW N \in Int, NEW Q \in Int, NEW a \in Int, NEW b \in Int, NEW c \in Int,
         NEW d \in Int, NEW u1 \in Int, NEW v1 \in Int,
         Combines(a, b, N, Q, u1), Combines(c, d, N, Q, v1)
  PROVE  Combines(a - c, b - d, N, Q, u1 - v1)
<1>1. /\ (a - c) * N = a * N - c * N
      /\ (b - d) * Q = b * Q - d * Q
  OBVIOUS
<1>2. PICK y1 \in Int, y2 \in Int, y3 \in Int, y4 \in Int :
        y1 = a * N /\ y2 = b * Q /\ y3 = c * N /\ y4 = d * Q
  OBVIOUS
<1>3. y1 + y2 = u1 /\ y3 + y4 = v1
  BY <1>2 DEF Combines
<1>4. (y1 - y3) + (y2 - y4) = u1 - v1
  BY <1>3
<1>5. QED
  BY <1>1, <1>2, <1>4 DEF Combines

(* Half of an even number of a digit, or of an odd one and the radix, is a *)
(* number of a digit.                                                      *)
LEMMA HalfInDigit ==
  ASSUME NEW Q \in Evens, Q > 0, NEW c \in 0 .. Q - 1
  PROVE  c \div 2 \in 0 .. Q - 1 /\ (c + Q) \div 2 \in 0 .. Q - 1
<1>1. PICK P \in Int : Q = 2 * P
  BY DEF Evens
<1>2. QED
  BY <1>1

-----------------------------------------------------------------------------
(***************************************************************************)
(* The objects: b, 1, the parity of a number and its half.                 *)
(***************************************************************************)
(* The radix is an even number of its own type. *)
LEMMA EvenRadix == DigitRadix \in Evens /\ DigitRadix \in Nat /\ DigitRadix >= 2
<1>1. DigitBits - 1 \in Nat /\ (DigitBits - 1) + 1 = DigitBits
  BY DigitBitsAssumption
<1>2. PICK P \in Int : P = Pow2[DigitBits - 1]
  BY <1>1, Pow2Unfold
<1>3. DigitRadix = 2 * P
  BY <1>1, <1>2, Pow2Unfold DEF DigitRadix
<1>4. QED
  BY <1>2, <1>3, RadixAtLeastTwo DEF Evens

(* A = 1. *)
LEMMA OneExact == Proper(One) /\ Value(One) = 1
<1>1. Safe(BigNumDefault)
  BY DefaultExact DEF Proper
<1>2. Proper(One) /\ Value(One) = 1 % DigitRadix
  BY <1>1, AssignDigitExact DEF One
<1>3. PICK Q \in Nat : DigitRadix = Q /\ Q >= 2
  BY RadixAtLeastTwo
<1>4. 1 % Q = 1
  BY <1>3
<1>5. QED
  BY <1>2, <1>3, <1>4

(* b = 1; b <<= DigitBits. *)
LEMMA RadixExact == Proper(Radix) /\ Value(Radix) = DigitRadix
<1>1. ~IsZero(One)
  BY OneExact, ProperValue DEF IsZero
<1>2. DigitBits \in Nat
  BY DigitBitsAssumption
<1>3. Proper(Radix) /\ Value(Radix) = Value(One) * Pow2[DigitBits]
  BY <1>1, <1>2, OneExact, ShlExact DEF Radix
<1>4. PICK Q \in Nat : DigitRadix = Q
  BY RadixAtLeastTwo
<1>5. 1 * Q = Q
  OBVIOUS
<1>6. QED
  BY <1>3, <1>4, <1>5, OneExact DEF DigitRadix

(* isEven looks at the first digit, whatever the sign and the length. *)
LEMMA IsEvenExact ==
  ASSUME NEW x, Proper(x)
  PROVE  /\ Value(x) \in Int
         /\ IsEven(x) <=> Value(x) \in Evens
         /\ IsOdd(x) <=> Value(x) \in Odds
<1>1. PICK P \in Int : DigitRadix = 2 * P
  BY EvenRadix DEF Evens
<1>2. PICK m \in Nat : m = Magnitude(x)
  BY ProperValue
<1>3. /\ Value(x) \in Int /\ (Value(x) < 0 => Value(x) = -m)
      /\ (Value(x) >= 0 => Value(x) = m) /\ (Value(x) = 0 <=> x.used = 0)
  BY <1>2, ProperValue
<1>4. PICK d \in Int, k \in Int : x.dig[0] = d /\ m = d + (2 * P) * k
  <2>1. x.size > 0 /\ x.size \in Nat
    BY Fields DEF Proper, Safe
  <2>2. Words(x)[0] = x.dig[0]
    BY <2>1 DEF Words
  <2>3. Words(x)[0] = (m \div 1) % DigitRadix
    BY <1>2, DigitOf, Weights DEF Proper
  <2>4. m \div 1 = m
    OBVIOUS
  <2>5. PICK Q \in Nat \ {0} : DigitRadix = Q
    BY EvenRadix
  <2>6. m \in Int
    OBVIOUS
  <2>7. m % Q \in 0 .. Q - 1 /\ \E j \in Int : m = (m % Q) + Q * j
    BY <2>6, RemainderSplit
  <2>8. PICK j \in Int : m = (m % Q) + Q * j
    BY <2>7
  <2>9. m % Q \in Int /\ x.dig[0] = m % Q
    BY <2>2, <2>3, <2>4, <2>5, <2>7
  <2>10. Q = 2 * P
    BY <1>1, <2>5
  <2>11. QED
    BY <2>8, <2>9, <2>10
<1>5. m % 2 = d % 2
  <2>1. PICK j \in Int : j = P * k
    OBVIOUS
  <2>2. (2 * P) * k = 2 * (P * k)
    OBVIOUS
  <2>3. m = d + 2 * j
    BY <1>4, <2>1, <2>2
  <2>4. QED
    BY <2>3
<1>6. PICK w \in Int : w = Value(x)
  BY <1>3
<1>7. w % 2 = m % 2
  BY <1>3, <1>6
<1>8. IsEven(x) <=> w % 2 = 0
  <2>1. IsZero(x) => w % 2 = 0
    BY <1>3, <1>6 DEF IsZero
  <2>2. QED
    BY <1>4, <1>5, <1>7, <2>1 DEF IsEven
<1>9. QED
  BY <1>6, <1>8, Parity DEF IsOdd

(* divideByTwo halves an even number of either sign, and a number that is not *)
(* negative but for its lowest bit.                                           *)
LEMMA HalfExact ==
  ASSUME NEW x, Proper(x)
  PROVE  /\ Proper(DivideByTwo(x)) /\ Value(DivideByTwo(x)) \in Int
         /\ Value(x) >= 0 => Value(DivideByTwo(x)) = Value(x) \div 2
         /\ \A k \in Int : Value(x) = 2 * k => Value(DivideByTwo(x)) = k
<1>1. PICK m \in Nat : m = Magnitude(x)
  BY ProperValue
<1>2. /\ Value(x) \in Int /\ (x.neg <=> Value(x) < 0) /\ (Value(x) < 0 => Value(x) = -m)
      /\ (Value(x) >= 0 => Value(x) = m)
  BY <1>1, ProperValue
<1>3. Proper(DivideByTwo(x)) /\ Value(DivideByTwo(x)) = IF x.neg THEN -(m \div 2)
                                                                ELSE m \div 2
  BY <1>1, DivideByTwoExact DEF Signed
<1>4. Value(DivideByTwo(x)) \in Int
  BY <1>3, ProperValue
<1>5. ASSUME NEW k \in Int, Value(x) = 2 * k PROVE Value(DivideByTwo(x)) = k
  <2>1. CASE x.neg
    <3>1. m = 2 * (-k)
      BY <1>2, <1>5, <2>1
    <3>2. m \div 2 = -k
      BY <3>1
    <3>3. QED
      BY <1>3, <2>1, <3>2
  <2>2. CASE ~x.neg
    <3>1. m = 2 * k
      BY <1>2, <1>5, <2>2
    <3>2. QED
      BY <1>3, <2>2, <3>1
  <2>3. QED
    BY <2>1, <2>2
<1>6. QED
  BY <1>2, <1>3, <1>4, <1>5

(* What becomes of a pair of coefficients: they stay numbers in their form,  *)
(* the first stays in a digit, and for an odd modulus they stay coefficients *)
(* of a number that is halved.                                               *)
LEMMA HalvedExact ==
  ASSUME Proper(n), NEW first, Proper(first), NEW second, Proper(second)
  PROVE  LET z == Halved(first, second)
         IN  /\ Proper(z[1]) /\ Proper(z[2])
             /\ Value(first) \in Digit => Value(z[1]) \in Digit
             /\ \A w \in Int :
                  Odd /\ Combines(Value(first), Value(second), Value(n), DigitRadix, 2 * w)
                  => Combines(Value(z[1]), Value(z[2]), Value(n), DigitRadix, w)
<1> DEFINE z == Halved(first, second)
           f == IF IsOdd(first) \/ IsOdd(second) THEN AddEq(first, Radix) ELSE first
           s == IF IsOdd(first) \/ IsOdd(second) THEN SubEq(second, n) ELSE second
<1>1. PICK N \in Int, Q \in Nat, a \in Int, b \in Int :
        /\ N = Value(n) /\ Q = DigitRadix /\ a = Value(first) /\ b = Value(second)
        /\ Q \in Evens /\ Q > 0
  BY ProperValue, EvenRadix
<1>2. z[1] = DivideByTwo(f) /\ z[2] = DivideByTwo(s)
  BY DEF Halved
<1> HIDE DEF z
<1>3. /\ Proper(AddEq(first, Radix)) /\ Value(AddEq(first, Radix)) = a + Q
      /\ Proper(SubEq(second, n)) /\ Value(SubEq(second, n)) = b - N
  BY <1>1, RadixExact, AddExact, SubtractExact
<1>4. (IsOdd(first) <=> a \in Odds) /\ (IsOdd(second) <=> b \in Odds)
  BY <1>1, IsEvenExact
<1>5. /\ Proper(f) /\ Value(f) = IF a \in Odds \/ b \in Odds THEN a + Q ELSE a
      /\ Proper(s) /\ Value(s) = IF a \in Odds \/ b \in Odds THEN b - N ELSE b
  BY <1>1, <1>3, <1>4
<1> HIDE DEF f, s
<1>6. Proper(z[1]) /\ Proper(z[2])
  BY <1>2, <1>5, HalfExact
<1>7. ASSUME Value(first) \in Digit PROVE Value(z[1]) \in Digit
  <2>1. a \in 0 .. Q - 1
    BY <1>1, <1>7 DEF Digit
  <2>2. a \div 2 \in 0 .. Q - 1 /\ (a + Q) \div 2 \in 0 .. Q - 1
    BY <1>1, <2>1, HalfInDigit
  <2>3. Value(f) >= 0 /\ Value(f) \in {a, a + Q}
    BY <1>1, <1>5, <2>1
  <2>4. Value(z[1]) = Value(f) \div 2
    BY <1>2, <1>5, <2>3, HalfExact
  <2>5. QED
    BY <1>1, <2>2, <2>3, <2>4 DEF Digit
<1>8. ASSUME NEW w \in Int, Odd, Combines(a, b, N, Q, 2 * w)
      PROVE  Combines(Value(z[1]), Value(z[2]), N, Q, w)
  <2>1. N \in Odds
    BY <1>1, <1>8, Parity DEF Odd
  <2>2. /\ a \in Evens
        /\ b \in Evens => \E a1 \in Int, b1 \in Int :
             a = 2 * a1 /\ b = 2 * b1 /\ Combines(a1, b1, N, Q, w)
        /\ b \in Odds => \E a1 \in Int, b1 \in Int :
             a + Q = 2 * a1 /\ b - N = 2 * b1 /\ Combines(a1, b1, N, Q, w)
    <3>1. Q \in Evens
      BY <1>1
    <3>2. QED
      BY <1>8, <2>1, <3>1, HalvesCombine
  <2>3. ~(a \in Odds) /\ (b \in Evens <=> ~(b \in Odds))
    BY <2>2, Parity
  <2>4. PICK a1 \in Int, b1 \in Int :
          Value(f) = 2 * a1 /\ Value(s) = 2 * b1 /\ Combines(a1, b1, N, Q, w)
    BY <1>5, <2>2, <2>3
  <2>5. Value(z[1]) = a1 /\ Value(z[2]) = b1
    BY <1>2, <1>5, <2>4, HalfExact
  <2>6. QED
    BY <2>4, <2>5
<1>9. QED
  BY <1>1, <1>6, <1>7, <1>8 DEF z

-----------------------------------------------------------------------------
(***************************************************************************)
(* The inductive invariant.                                                *)
(***************************************************************************)
(* Every number is in its form, n and u are not negative. *)
Objects ==
  /\ \A x \in {n, u, v, A, B, C, D} : Proper(x)
  /\ Value(n) \in Nat /\ Value(u) \in Nat

(* Where the call is; it never comes to the exception. *)
Place == pc \in {"reduce", "check", "mod", "done"} /\ inverse \in Digit

(* v is the part of b that is not halved away yet, all of it when the loops end. *)
VIsPower ==
  /\ \E j \in 0 .. DigitBits : Value(v) = Pow2[j]
  /\ pc # "reduce" => Value(v) = 1

(* C is not negative and below b, but for its negation at the end. *)
CInDigit == (IF pc = "mod" THEN -Value(C) ELSE Value(C)) \in Digit

(* k is -n^-1 modulo b. *)
IsNegativeInverse(k) == \E j \in Int : Value(k) * Value(n) + 1 = DigitRadix * j

(* Reducing the negated C keeps what Bezout's identity made of it. *)
Negated == Odd /\ pc \in {"mod", "done"} => IsNegativeInverse(C)

(* Together they are inductive. *)
IInv ==
  /\ Objects /\ Place /\ VIsPower /\ CInDigit
  /\ Bezout /\ Negated
  /\ pc = "done" => inverse = Value(C)

(* The names of the conjuncts of Objects. *)
LEMMA Named ==
  ASSUME IInv
  PROVE  /\ Proper(n) /\ Proper(u) /\ Proper(v)
         /\ Proper(A) /\ Proper(B) /\ Proper(C) /\ Proper(D)
         /\ Value(n) \in Nat /\ Value(u) \in Nat
         /\ Value(A) \in Int /\ Value(B) \in Int /\ Value(C) \in Int /\ Value(D) \in Int
         /\ Value(v) \in Int
BY ProperValue DEF IInv, Objects

(* The identities as combinations. *)
LEMMA BezoutCombines ==
  /\ Bezout <=> (Odd /\ pc \in {"reduce", "check"} =>
       /\ Combines(Value(A), Value(B), Value(n), DigitRadix, Value(u))
       /\ Combines(Value(C), Value(D), Value(n), DigitRadix, Value(v)))
  /\ Bezout' <=> (Odd' /\ pc' \in {"reduce", "check"} =>
       /\ Combines(Value(A'), Value(B'), Value(n'), DigitRadix, Value(u'))
       /\ Combines(Value(C'), Value(D'), Value(n'), DigitRadix, Value(v')))
BY DEF Bezout, Combines

(* An odd power of two is 1. *)
LEMMA OddPower ==
  ASSUME NEW j \in 0 .. DigitBits
  PROVE  /\ Pow2[j] \in Nat \ {0}
         /\ Pow2[j] \in Odds => Pow2[j] = 1
         /\ Pow2[j] \in Evens =>
              j - 1 \in 0 .. DigitBits /\ Pow2[j] = 2 * Pow2[j - 1]
<1>1. DigitBits \in Nat /\ j \in Nat
  BY DigitBitsAssumption
<1>2. PICK w \in Nat \ {0} : w = Pow2[j]
  BY <1>1, Pow2Unfold
<1>3. CASE j = 0
  <2>1. w = 1
    BY <1>2, <1>3, Pow2Unfold
  <2>2. 1 \in Odds /\ ~(1 \in Evens)
    BY Parity
  <2>3. QED
    BY <1>2, <2>1, <2>2
<1>4. CASE j > 0
  <2>1. j - 1 \in Nat /\ (j - 1) + 1 = j /\ j - 1 \in 0 .. DigitBits
    BY <1>1, <1>4
  <2>2. Pow2[j] = 2 * Pow2[j - 1] /\ Pow2[j - 1] \in Int
    BY <2>1, Pow2Unfold
  <2>3. w \in Evens
    BY <1>2, <2>2 DEF Evens
  <2>4. ~(w \in Odds)
    BY <2>3, Parity
  <2>5. QED
    BY <1>2, <2>1, <2>2, <2>4
<1>5. QED
  BY <1>1, <1>3, <1>4

(* What the call starts from. *)
LEMMA InitIInv ==
  ASSUME Init
  PROVE  IInv
<1>1. PICK k \in Moduli : n = Represent(k)
  BY DEF Init
<1>2. k \in Nat
  BY ModuliAssumption
<1>3. Proper(n) /\ Value(n) = k
  BY <1>1, <1>2, RepresentExact
<1>4. /\ pc = "reduce" /\ u = n /\ v = Radix /\ A = One /\ D = One
      /\ B = BigNumDefault /\ C = BigNumDefault /\ inverse = 0
  BY DEF Init
<1>5. Objects
  BY <1>2, <1>3, <1>4, OneExact, RadixExact, DefaultExact DEF Objects
<1>6. PICK Q \in Nat : Q = DigitRadix /\ Q >= 2
  BY EvenRadix
<1>7. 0 \in Digit
  BY <1>6 DEF Digit
<1>8. VIsPower
  <2>1. DigitBits \in 0 .. DigitBits
    BY DigitBitsAssumption
  <2>2. QED
    BY <1>4, <2>1, RadixExact DEF VIsPower, DigitRadix
<1>9. Bezout
  <2>1. 1 * k + 0 * Q = k /\ 0 * k + 1 * Q = Q
    BY <1>2
  <2>2. QED
    BY <1>3, <1>4, <1>6, <2>1, OneExact, DefaultExact, RadixExact DEF Bezout
<1>10. QED
  BY <1>4, <1>5, <1>7, <1>8, <1>9, DefaultExact DEF IInv, Place, CInDigit, Negated

(* while( u.isEven() ) *)
LEMMA HalveUKeeps ==
  ASSUME IInv, HalveU
  PROVE  IInv'
<1>1. /\ pc = "reduce" /\ IsEven(u) /\ u' = DivideByTwo(u)
      /\ A' = Halved(A, B)[1] /\ B' = Halved(A, B)[2]
      /\ pc' = pc /\ n' = n /\ v' = v /\ C' = C /\ D' = D /\ inverse' = inverse
  BY DEF HalveU
<1>2. PICK k \in Int : Value(u) = 2 * k
  BY <1>1, Named, IsEvenExact DEF Evens
<1>3. Proper(u') /\ Value(u') = k /\ k \in Nat
  BY <1>1, <1>2, Named, HalfExact
<1>4. Proper(A') /\ Proper(B')
  BY <1>1, Named, HalvedExact
<1>5. Objects'
  BY <1>1, <1>3, <1>4, Named DEF Objects
<1>6. Bezout'
  <2>1. ASSUME Odd
        PROVE  Combines(Value(A'), Value(B'), Value(n), DigitRadix, Value(u'))
    <3>1. Combines(Value(A), Value(B), Value(n), DigitRadix, 2 * k)
      BY <1>1, <1>2, <2>1, BezoutCombines DEF IInv
    <3>2. QED
      BY <1>1, <1>3, <2>1, <3>1, Named, HalvedExact
  <2>2. Odd' <=> Odd
    BY <1>1 DEF Odd
  <2>3. QED
    BY <1>1, <2>1, <2>2, BezoutCombines DEF IInv
<1>7. Place' /\ VIsPower' /\ CInDigit' /\ Negated'
  BY <1>1 DEF IInv, Place, VIsPower, CInDigit, Negated
<1>8. QED
  BY <1>1, <1>5, <1>6, <1>7 DEF IInv

(* while( v.isEven() ) *)
LEMMA HalveVKeeps ==
  ASSUME IInv, HalveV
  PROVE  IInv'
<1>1. /\ pc = "reduce" /\ IsEven(v) /\ v' = DivideByTwo(v)
      /\ C' = Halved(C, D)[1] /\ D' = Halved(C, D)[2]
      /\ pc' = pc /\ n' = n /\ u' = u /\ A' = A /\ B' = B /\ inverse' = inverse
  BY DEF HalveV
<1>2. PICK j \in 0 .. DigitBits : Value(v) = Pow2[j]
  BY DEF IInv, VIsPower
<1>3. Value(v) \in Evens
  BY <1>1, Named, IsEvenExact
<1>4. j - 1 \in 0 .. DigitBits /\ Value(v) = 2 * Pow2[j - 1] /\ Pow2[j - 1] \in Int
  BY <1>2, <1>3, OddPower
<1>5. Proper(v') /\ Value(v') = Pow2[j - 1]
  BY <1>1, <1>4, Named, HalfExact
<1>6. Proper(C') /\ Proper(D') /\ Value(C') \in Digit
  <2>1. Value(C) \in Digit
    BY <1>1 DEF IInv, CInDigit
  <2>2. QED
    BY <1>1, <2>1, Named, HalvedExact
<1>7. Objects'
  BY <1>1, <1>5, <1>6, Named DEF Objects
<1>8. Bezout'
  <2>1. ASSUME Odd
        PROVE  Combines(Value(C'), Value(D'), Value(n), DigitRadix, Value(v'))
    <3>1. PICK k \in Int : k = Pow2[j - 1]
      BY <1>4
    <3>2. Combines(Value(C), Value(D), Value(n), DigitRadix, 2 * k)
      BY <1>1, <1>4, <2>1, <3>1, BezoutCombines DEF IInv
    <3>3. Combines(Value(C'), Value(D'), Value(n), DigitRadix, k)
      BY <1>1, <2>1, <3>2, Named, HalvedExact
    <3>4. QED
      BY <1>5, <3>1, <3>3
  <2>2. Odd' <=> Odd
    BY <1>1 DEF Odd
  <2>3. QED
    BY <1>1, <2>1, <2>2, BezoutCombines DEF IInv
<1>9. VIsPower'
  BY <1>1, <1>4, <1>5 DEF VIsPower
<1>10. Place' /\ CInDigit' /\ Negated'
  BY <1>1, <1>6 DEF IInv, Place, CInDigit, Negated
<1>11. QED
  BY <1>1, <1>7, <1>8, <1>9, <1>10 DEF IInv

(* The smaller is taken from the larger: both are odd, so v is 1, and u is *)
(* never the smaller.                                                      *)
LEMMA SubtractKeeps ==
  ASSUME IInv, Subtract
  PROVE  IInv'
<1>1. /\ pc = "reduce" /\ IsOdd(u) /\ IsOdd(v) /\ n' = n /\ inverse' = inverse
      /\ pc' = IF IsZero(u') THEN "check" ELSE "reduce"
  BY DEF Subtract
<1>2. Value(v) = 1
  <2>1. Value(v) \in Odds
    BY <1>1, Named, IsEvenExact
  <2>2. QED
    BY <2>1, OddPower DEF IInv, VIsPower
<1>3. Value(u) \in Nat \ {0}
  <2>1. Value(u) \in Odds
    BY <1>1, Named, IsEvenExact
  <2>2. 0 \notin Odds
    BY Parity
  <2>3. QED
    BY <2>1, <2>2, Named
<1>4. Compare(u, v) # "LessThan"
  <2>1. ~(Value(u) < Value(v))
    BY <1>2, <1>3
  <2>2. QED
    BY <2>1, Named, CompareIsOrder
<1>5. /\ u' = SubEq(u, v) /\ A' = SubEq(A, C) /\ B' = SubEq(B, D)
      /\ v' = v /\ C' = C /\ D' = D
  BY <1>4 DEF Subtract
<1>6. /\ Proper(u') /\ Value(u') = Value(u) - Value(v)
      /\ Proper(A') /\ Value(A') = Value(A) - Value(C)
      /\ Proper(B') /\ Value(B') = Value(B) - Value(D)
  BY <1>5, Named, SubtractExact
<1>7. Objects'
  <2>1. Value(u') \in Nat
    BY <1>2, <1>3, <1>6
  <2>2. QED
    BY <1>1, <1>5, <1>6, <2>1, Named DEF Objects
<1>8. Bezout'
  <2>1. ASSUME Odd
        PROVE  /\ Combines(Value(A'), Value(B'), Value(n), DigitRadix, Value(u'))
               /\ Combines(Value(C), Value(D), Value(n), DigitRadix, Value(v))
    <3>1. /\ Combines(Value(A), Value(B), Value(n), DigitRadix, Value(u))
          /\ Combines(Value(C), Value(D), Value(n), DigitRadix, Value(v))
      BY <1>1, <2>1, BezoutCombines DEF IInv
    <3>2. Value(n) \in Int /\ DigitRadix \in Int /\ Value(u) \in Int
      BY Named, EvenRadix
    <3>3. Combines(Value(A) - Value(C), Value(B) - Value(D), Value(n), DigitRadix,
                   Value(u) - Value(v))
      BY <3>1, <3>2, Named, DifferencesCombine
    <3>4. QED
      BY <1>6, <3>1, <3>3
  <2>2. Odd' <=> Odd
    BY <1>1 DEF Odd
  <2>3. QED
    BY <1>1, <1>5, <2>1, <2>2, BezoutCombines
<1>9. Place' /\ VIsPower' /\ CInDigit' /\ Negated'
  BY <1>1, <1>2, <1>5 DEF IInv, Place, VIsPower, CInDigit, Negated
<1>10. QED
  BY <1>1, <1>7, <1>8, <1>9 DEF IInv

(* The test of v and C.negate(). *)
LEMMA CheckAndNegateKeeps ==
  ASSUME IInv, CheckAndNegate
  PROVE  IInv'
<1>1. /\ pc = "check" /\ n' = n /\ u' = u /\ v' = v /\ A' = A /\ B' = B /\ D' = D
      /\ inverse' = inverse
  BY DEF CheckAndNegate
<1>2. Value(v) = 1
  BY <1>1 DEF IInv, VIsPower
<1>3. Compare(v, One) = "Equal"
  BY <1>2, Named, OneExact, CompareIsOrder
<1>4. pc' = "mod" /\ C' = Negate(C)
  BY <1>3 DEF CheckAndNegate
<1>5. PICK N \in Int, Q \in Int, c \in Int, d \in Int :
        N = Value(n) /\ Q = DigitRadix /\ c = Value(C) /\ d = Value(D)
  BY Named, EvenRadix
<1>6. Proper(C') /\ Value(C') = -c
  BY <1>4, <1>5, Named, NegateExact
<1>7. Objects'
  BY <1>1, <1>6, Named DEF Objects
<1>8. CInDigit'
  <2>1. c \in Digit
    BY <1>1, <1>5 DEF IInv, CInDigit
  <2>2. -Value(C') = c
    BY <1>6
  <2>3. QED
    BY <1>4, <2>1, <2>2 DEF CInDigit
<1>9. Negated'
  <2>1. ASSUME Odd PROVE (-c) * N + 1 = Q * d
    <3>1. c * N + d * Q = 1
      BY <1>1, <1>2, <1>5, <2>1 DEF IInv, Bezout
    <3>2. PICK y1 \in Int, y2 \in Int : y1 = c * N /\ y2 = d * Q
      OBVIOUS
    <3>3. (-c) * N = -(c * N) /\ Q * d = d * Q
      OBVIOUS
    <3>4. -y1 + 1 = y2
      BY <3>1, <3>2
    <3>5. QED
      BY <3>2, <3>3, <3>4
  <2>2. Odd' <=> Odd
    BY <1>1 DEF Odd
  <2>3. ASSUME Odd PROVE IsNegativeInverse(C)'
    BY <1>1, <1>5, <1>6, <2>1, <2>3 DEF IsNegativeInverse
  <2>4. QED
    BY <2>2, <2>3 DEF Negated
<1>10. Place' /\ VIsPower' /\ Bezout'
  BY <1>1, <1>4 DEF IInv, Place, VIsPower, Bezout
<1>11. QED
  BY <1>4, <1>7, <1>8, <1>9, <1>10 DEF IInv

(* The first digit of a number below b is the number. *)
LEMMA OneDigit ==
  ASSUME NEW x, Proper(x), Value(x) \in Digit
  PROVE  x.dig[0] = Value(x)
<1>0. PICK Q \in Nat \ {0} : Q = DigitRadix
  BY EvenRadix
<1>1. PICK w \in 0 .. Q - 1 : w = Value(x)
  BY <1>0 DEF Digit
<1>2. ~x.neg
  BY <1>1, Nonnegative
<1>3. x.dig[0] = w % Q
  BY <1>0, <1>1, <1>2, FirstDigit
<1>4. w % Q = w
  OBVIOUS
<1>5. QED
  BY <1>1, <1>3, <1>4

(* mod( b ).getDigit( 0 ), where nothing is left to divide. *)
LEMMA ReduceKeeps ==
  ASSUME IInv, Reduce
  PROVE  IInv'
<1>1. /\ pc = "mod" /\ n' = n /\ u' = u /\ v' = v /\ A' = A /\ B' = B /\ D' = D
  BY DEF Reduce
<1>2. PICK N \in Int, Q \in Nat, c \in Int :
        N = Value(n) /\ Q = DigitRadix /\ c = Value(C)
  BY Named, EvenRadix
<1>3. -c \in 0 .. Q - 1
  BY <1>1, <1>2 DEF IInv, CInDigit, Digit
<1>4. CompareMagnitude(C, Radix) = "LessThan"
  <2>1. Magnitude(Radix) = Q
    BY <1>2, RadixExact, ProperValue
  <2>2. Magnitude(C) < Q
    <3>1. /\ Magnitude(C) \in Nat /\ (c < 0 => c = -Magnitude(C))
          /\ (c >= 0 => c = Magnitude(C))
      BY <1>2, Named, ProperValue
    <3>2. QED
      BY <1>3, <3>1
  <2>3. QED
    BY <2>1, <2>2, Named, RadixExact, LessMagnitude
<1>5. /\ pc' = "done" /\ inverse' = C'.dig[0]
      /\ C' = IF C.neg THEN AddEq(C, Radix) ELSE C
  BY <1>4 DEF Reduce
<1>6. C.neg <=> c < 0
  BY <1>2, Named, ProperValue
<1>7. Proper(C') /\ Value(C') = IF c < 0 THEN c + Q ELSE c
  BY <1>2, <1>5, <1>6, Named, RadixExact, AddExact
<1>8. Value(C') \in Digit
  BY <1>2, <1>3, <1>7 DEF Digit
<1>9. inverse' = Value(C')
  BY <1>5, <1>7, <1>8, OneDigit
<1>10. Objects'
  BY <1>1, <1>7, Named DEF Objects
<1>11. Negated'
  <2>1. ASSUME Odd PROVE \E j \in Int : Value(C') * N + 1 = Q * j
    <3>1. PICK j \in Int : c * N + 1 = Q * j
      BY <1>1, <1>2, <2>1 DEF IInv, Negated, IsNegativeInverse
    <3>2. CASE c < 0
      <4>1. (c + Q) * N = c * N + Q * N /\ Q * (j + N) = Q * j + Q * N
        OBVIOUS
      <4>2. PICK y1 \in Int, y2 \in Int, y3 \in Int : y1 = c * N /\ y2 = Q * N /\ y3 = Q * j
        OBVIOUS
      <4>3. (y1 + y2) + 1 = y3 + y2
        BY <3>1, <4>2
      <4>4. (c + Q) * N + 1 = Q * (j + N)
        BY <4>1, <4>2, <4>3
      <4>5. PICK k \in Int : k = j + N
        OBVIOUS
      <4>6. QED
        BY <1>7, <3>2, <4>4, <4>5
    <3>3. CASE ~(c < 0)
      BY <1>7, <3>1, <3>3
    <3>4. QED
      BY <3>2, <3>3
  <2>2. Odd' <=> Odd
    BY <1>1 DEF Odd
  <2>3. QED
    BY <1>1, <1>2, <2>1, <2>2 DEF Negated, IsNegativeInverse
<1>12. Place' /\ CInDigit'
  BY <1>5, <1>8, <1>9 DEF Place, CInDigit
<1>13. VIsPower' /\ Bezout'
  BY <1>1, <1>5 DEF IInv, VIsPower, Bezout
<1>14. QED
  BY <1>5, <1>9, <1>10, <1>11, <1>12, <1>13 DEF IInv

(* Every step keeps the invariant. *)
LEMMA NextKeeps ==
  ASSUME IInv, [Next]_vars
  PROVE  IInv'
<1>1. CASE HalveU
  BY <1>1, HalveUKeeps
<1>2. CASE HalveV
  BY <1>2, HalveVKeeps
<1>3. CASE Subtract
  BY <1>3, SubtractKeeps
<1>4. CASE CheckAndNegate
  BY <1>4, CheckAndNegateKeeps
<1>5. CASE Reduce
  BY <1>5, ReduceKeeps
<1>6. CASE UNCHANGED vars
  BY <1>6 DEF vars, IInv, Objects, Place, VIsPower, CInDigit, Bezout, Negated, Odd,
              IsNegativeInverse
<1>7. QED
  BY <1>1, <1>2, <1>3, <1>4, <1>5, <1>6 DEF Next, Step, Stopped

(* The invariant holds in every state of a call. *)
LEMMA Invariant == Spec => []IInv
<1>1. Init => IInv
  BY InitIInv
<1>2. IInv /\ [Next]_vars => IInv'
  BY NextKeeps
<1>3. QED
  BY <1>1, <1>2, PTL DEF Spec

-----------------------------------------------------------------------------
(***************************************************************************)
(* What holds of every call.                                               *)
(***************************************************************************)
(* Every variable has its type in every state of the call, for even moduli and *)
(* 0 as well, and the numbers are in the form that isZero, isEven and compare  *)
(* can read.                                                                   *)
THEOREM TypeCorrect == Spec => []TypeOK
<1>1. IInv => TypeOK
  <2>1. ASSUME NEW x, Proper(x) PROVE IsNumber(x) /\ InForm(x)
    BY <2>1 DEF Proper, Safe, InForm
  <2>2. QED
    BY <2>1 DEF IInv, Objects, Place, TypeOK
<1>2. QED
  BY <1>1, Invariant, PTL

(* For an odd modulus u and v stay the combinations of n and b that their    *)
(* coefficients say, through every halving and every subtraction of numbers  *)
(* of any sign.                                                              *)
THEOREM BezoutAlways == Spec => []Bezout
<1>1. IInv => Bezout
  BY DEF IInv
<1>2. QED
  BY <1>1, Invariant, PTL

(* v is 1 before the first subtraction, for every modulus: the exception is dead *)
(* code, and "mod( b )" has nothing to divide.                                   *)
THEOREM VAlwaysReachesOneFirst == Spec => []VReachesOneFirst
<1>1. ASSUME IInv, pc # "reduce" \/ (IsOdd(u) /\ IsOdd(v))
      PROVE  Compare(v, One) = "Equal" /\ CompareMagnitude(C, Radix) = "LessThan"
  <2>1. Value(v) = 1
    <3>1. ASSUME IsOdd(v) PROVE Value(v) = 1
      BY <1>1, <3>1, Named, IsEvenExact, OddPower DEF IInv, VIsPower
    <3>2. QED
      BY <1>1, <3>1 DEF IInv, VIsPower
  <2>2. Compare(v, One) = "Equal"
    BY <1>1, <2>1, Named, OneExact, CompareIsOrder
  <2>3. PICK Q \in Nat, c \in Int : Q = DigitRadix /\ c = Value(C)
    BY <1>1, Named, EvenRadix
  <2>4. c \in 0 .. Q - 1 \/ -c \in 0 .. Q - 1
    BY <1>1, <2>3 DEF IInv, CInDigit, Digit
  <2>5. PICK m \in Nat : m = Magnitude(C)
    BY <1>1, Named, ProperValue
  <2>6. Magnitude(C) < Q
    <3>1. (c < 0 => c = -m) /\ (c >= 0 => c = m)
      BY <1>1, <2>3, <2>5, Named, ProperValue
    <3>2. m < Q
      BY <2>4, <3>1
    <3>3. QED
      BY <2>5, <3>2
  <2>7. Magnitude(Radix) = Q
    BY <2>3, RadixExact, ProperValue
  <2>8. QED
    BY <1>1, <2>2, <2>6, <2>7, Named, RadixExact, LessMagnitude
<1>2. IInv => VReachesOneFirst
  BY <1>1 DEF VReachesOneFirst
<1>3. QED
  BY <1>2, Invariant, PTL

(* What is returned for an odd modulus is -n^-1 mod b, in one digit. *)
THEOREM InverseAlwaysExact == Spec => []InverseExact
<1>1. ASSUME IInv, pc = "done", Odd
      PROVE  inverse \in Digit /\ (inverse * Value(n) + 1) % DigitRadix = 0
  <2>1. inverse \in Digit /\ inverse = Value(C) /\ inverse \in Int
    BY <1>1, Named DEF IInv, Place
  <2>2. PICK j \in Int : inverse * Value(n) + 1 = DigitRadix * j
    BY <1>1, <2>1 DEF IInv, Negated, IsNegativeInverse
  <2>3. PICK Q \in Nat \ {0}, y \in Int :
          Q = DigitRadix /\ y = inverse * Value(n) + 1
    <3>1. PICK N \in Int : N = Value(n)
      BY <1>1, Named
    <3>2. inverse * N + 1 \in Int
      BY <2>1
    <3>3. DigitRadix \in Nat \ {0}
      BY EvenRadix
    <3>4. QED
      BY <3>1, <3>2, <3>3
  <2>4. y % Q = 0
    BY <2>2, <2>3, ZeroRemainder
  <2>5. QED
    BY <2>1, <2>3, <2>4
<1>2. IInv => InverseExact
  BY <1>1 DEF InverseExact
<1>3. QED
  BY <1>2, Invariant, PTL

=============================================================================
