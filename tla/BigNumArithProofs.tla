-------------------------- MODULE BigNumArithProofs -------------------------
(***************************************************************************)
(* The operations of BigNumRep and BigNumArith, for every digit width and  *)
(* capacity unit.  First: each keeps an object's digits below DigitRadix,  *)
(* inside its vector, and the words above them clear: no carry, borrow or  *)
(* double-precision product leaves the digit it belongs in.  Then what     *)
(* each computes: the magnitude of its result in terms of the magnitudes   *)
(* of its operands, and the form it leaves its object in.  A magnitude is  *)
(* a sum of digits times weights; a loop with a carry keeps the sum of     *)
(* what it has passed, up to the carry.                                    *)
(***************************************************************************)
EXTENDS BigNumArith, NatFacts


-----------------------------------------------------------------------------
(***************************************************************************)
(* Digits.                                                                 *)
(***************************************************************************)
(* There are digits, zero among them. *)
LEMMA RadixPositive == DigitRadix \in Nat \ {0} /\ 0 \in Digit
BY Pow2Unfold, DigitBitsAssumption DEF DigitRadix, Digit

(* A word above a carry is a digit: there are at least two digits. *)
LEMMA RadixAtLeastTwo ==
  DigitRadix \in Nat /\ DigitRadix >= 2 /\ 0 .. 1 \subseteq Digit
<1>1. DigitBits - 1 \in Nat /\ (DigitBits - 1) + 1 = DigitBits
  BY DigitBitsAssumption
<1>2. Pow2[(DigitBits - 1) + 1] = 2 * Pow2[DigitBits - 1]
  BY <1>1, Pow2Unfold
<1>3. DigitRadix \in Nat /\ DigitRadix >= 2
  BY <1>1, <1>2, Pow2Unfold DEF DigitRadix
<1>4. QED
  BY <1>3 DEF Digit

(* The radix splits at every bit of a digit. *)
LEMMA RadixSplit ==
  ASSUME NEW n \in 0 .. DigitBits
  PROVE  /\ DigitRadix = Pow2[n] * Pow2[DigitBits - n]
         /\ Pow2[n] \in Nat \ {0}
         /\ Pow2[DigitBits - n] \in Nat \ {0}
BY Pow2Split, Pow2Unfold, DigitBitsAssumption DEF DigitRadix

-----------------------------------------------------------------------------
(***************************************************************************)
(* The form every operation needs and leaves: what TypeOK and Contained of *)
(* BigNum say of every object, and that there is a word to assign a digit  *)
(* to.                                                                     *)
(***************************************************************************)
Safe(x) == /\ IsNumber(x) /\ UsedInVector(x) /\ ClearAboveUsed(x)
           /\ x.size > 0

(* The fields of a number. *)
LEMMA Fields ==
  ASSUME NEW x, IsNumber(x)
  PROVE  /\ x.neg \in BOOLEAN /\ x.used \in Nat /\ x.size \in Nat
         /\ x.dig \in [0 .. x.size - 1 -> Digit]
         /\ \A i \in 0 .. x.size - 1 : x.dig[i] \in Nat /\ x.dig[i] < DigitRadix
BY RadixPositive DEF IsNumber, Digit

(* A number is the record of its fields; Exactly names that record as a set, *)
(* so that what EXCEPT makes of it can be said field by field.               *)
Exactly(n, u, s, d) == [neg : {n}, used : {u}, size : {s}, dig : {d}]

(* A number has exactly its own fields. *)
LEMMA Shape ==
  ASSUME NEW x, IsNumber(x)
  PROVE  x \in Exactly(x.neg, x.used, x.size, x.dig)
BY DEF IsNumber, Exactly

(* What the carry loops read of a number is a digit. *)
LEMMA DigIsDigit ==
  ASSUME NEW x, IsNumber(x), UsedInVector(x), NEW i \in Nat
  PROVE  Dig(x, i) \in Digit
<1>1. CASE i < x.used
  BY <1>1, Fields DEF Dig, UsedInVector
<1>2. CASE ~(i < x.used)
  BY <1>2, RadixPositive DEF Dig
<1>3. QED
  BY <1>1, <1>2

(* abs changes the sign only. *)
LEMMA AbsSafe ==
  ASSUME NEW x, Safe(x)
  PROVE  Safe(Abs(x)) /\ Abs(x).size = x.size
BY DEF Safe, IsNumber, UsedInVector, ClearAboveUsed, Abs

(* negate changes the sign only. *)
LEMMA NegateSafe ==
  ASSUME NEW x, Safe(x)
  PROVE  Safe(Negate(x)) /\ Negate(x).size = x.size
BY Fields DEF Safe, IsNumber, UsedInVector, ClearAboveUsed, Negate, IsZero

(* zero clears every word. *)
LEMMA ZeroSafe ==
  ASSUME NEW x, IsNumber(x), x.size > 0
  PROVE  Safe(Zero(x)) /\ Zero(x).used = 0 /\ Zero(x).size = x.size
<1> DEFINE d == [i \in 0 .. x.size - 1 |-> 0]
           n == FALSE
<1>1. x \in Exactly(x.neg, x.used, x.size, x.dig)
  BY Shape
<1>2. Zero(x) \in Exactly(n, 0, x.size, d)
  BY <1>1 DEF Zero, Exactly
<1>3. x.size \in Nat /\ d \in [0 .. x.size - 1 -> Digit] /\ 0 \in 0 .. x.size
  BY Fields, RadixPositive
<1>4. n \in BOOLEAN /\ \A i \in 0 .. x.size - 1 : d[i] = 0
  OBVIOUS
<1> HIDE DEF d, n
<1>5. QED
  BY <1>2, <1>3, <1>4
  DEF Safe, IsNumber, UsedInVector, ClearAboveUsed, Exactly

(* zero does nothing to a cleared object. *)
LEMMA ZeroTwice ==
  ASSUME NEW x, IsNumber(x)
  PROVE  Zero(Zero(x)) = Zero(x)
<1> DEFINE d == [i \in 0 .. x.size - 1 |-> 0]
           n == FALSE
<1>1. x \in Exactly(x.neg, x.used, x.size, x.dig)
  BY Shape
<1>2. Zero(x) \in Exactly(n, 0, x.size, d)
  BY <1>1 DEF Zero, Exactly
<1>3. Zero(x).size = x.size
  BY <1>2 DEF Exactly
<1>4. Zero(Zero(x)) \in Exactly(n, 0, x.size, d)
  BY <1>2, <1>3 DEF Zero, Exactly
<1> HIDE DEF d, n
<1>5. QED
  BY <1>2, <1>4 DEF Exactly

(* A call that clears its object first makes the same of two objects that    *)
(* are alike once cleared.                                                   *)
LEMMA ClearedAlike ==
  ASSUME NEW x, NEW z, NEW bytes, NEW d, Zero(x) = Zero(z)
  PROVE  /\ AssignDigit(x, d) = AssignDigit(z, d)
         /\ LoadBytes(x, bytes, TRUE) = LoadBytes(z, bytes, TRUE)
<1>1. AssignDigit(x, d) = AssignDigit(z, d)
  BY DEF AssignDigit
<1>2. LoadBytes(x, bytes, TRUE) = LoadBytes(z, bytes, TRUE)
  BY DEF LoadBytes
<1>3. QED
  BY <1>1, <1>2

(* clamp finds the leading digit that is not zero. *)
LEMMA ClampedUsedExists ==
  ASSUME NEW x, IsNumber(x), UsedInVector(x)
  PROVE  /\ ClampedUsed(x) \in 0 .. x.used
         /\ ClampedUsed(x) > 0 => x.dig[ClampedUsed(x) - 1] # 0
         /\ \A i \in ClampedUsed(x) .. x.used - 1 : x.dig[i] = 0
<1> DEFINE Leads(k, u) == /\ k \in 0 .. u
                          /\ k > 0 => x.dig[k - 1] # 0
                          /\ \A i \in k .. u - 1 : x.dig[i] = 0
           S == {u \in Nat : \E k \in 0 .. u : Leads(k, u)}
<1>1. 0 \in S
  OBVIOUS
<1>2. ASSUME NEW u \in S PROVE u + 1 \in S
  <2>1. PICK k \in 0 .. u : Leads(k, u)
    OBVIOUS
  <2>2. u \in Nat
    OBVIOUS
  <2>3. CASE x.dig[u] = 0
    <3>1. Leads(k, u + 1)
      BY <2>1, <2>2, <2>3
    <3>2. QED
      BY <3>1, <2>2
  <2>4. CASE x.dig[u] # 0
    <3>1. Leads(u + 1, u + 1)
      BY <2>2, <2>4
    <3>2. QED
      BY <3>1, <2>2
  <2>5. QED
    BY <2>3, <2>4
<1>3. x.used \in S
  <2> HIDE DEF S
  <2>1. S = Nat
    BY <1>1, <1>2, SetInduction DEF S
  <2>2. QED
    BY <2>1, Fields
<1>4. \E k \in 0 .. x.used : Leads(k, x.used)
  BY <1>3
<1>5. QED
  BY <1>4 DEF ClampedUsed

(* clamp only takes zero digits out of use, and a clamped zero is not        *)
(* negative.                                                                 *)
LEMMA ClampSafe ==
  ASSUME NEW x, Safe(x)
  PROVE  Safe(Clamp(x)) /\ Clamp(x).used <= x.used /\ Clamp(x).size = x.size
<1> DEFINE k == ClampedUsed(x)
<1>1. x \in Exactly(x.neg, x.used, x.size, x.dig)
  BY Shape DEF Safe
<1>2. PICK n \in BOOLEAN : Clamp(x) \in Exactly(n, k, x.size, x.dig)
  <2>1. Clamp(x) \in Exactly(x.neg /\ k # 0, k, x.size, x.dig)
    BY <1>1 DEF Clamp, Exactly
  <2>2. QED
    BY <2>1
<1>3. /\ k \in 0 .. x.used
      /\ \A i \in k .. x.used - 1 : x.dig[i] = 0
  BY ClampedUsedExists DEF Safe
<1> HIDE DEF k
<1>4. x.used \in Nat /\ x.size \in Nat /\ x.dig \in [0 .. x.size - 1 -> Digit]
      /\ x.used <= x.size
  BY Fields DEF Safe, UsedInVector
<1>5. k \in 0 .. x.size
  BY <1>3, <1>4
<1>6. \A i \in k .. x.size - 1 : x.dig[i] = 0
  BY <1>3, <1>4 DEF Safe, ClearAboveUsed
<1>7. Safe(Clamp(x)) /\ Clamp(x).used = k /\ Clamp(x).size = x.size
  BY <1>2, <1>4, <1>5, <1>6
  DEF Safe, IsNumber, UsedInVector, ClearAboveUsed, Exactly
<1>8. QED
  BY <1>3, <1>4, <1>7

(* grow keeps the digits and adds clear words.  loadBytes also calls it for *)
(* an object whose count has passed its vector.                             *)
LEMMA GrowSafe ==
  ASSUME NEW x, IsNumber(x), ClearAboveUsed(x), NEW c \in Nat,
         UsedInVector(x) \/ x.used <= c, x.size > 0 \/ c > 0
  PROVE  /\ Safe(Grow(x, c))
         /\ Grow(x, c).neg = x.neg /\ Grow(x, c).used = x.used
         /\ Grow(x, c).size >= c /\ Grow(x, c).size >= x.size
         /\ \A i \in 0 .. x.size - 1 : Grow(x, c).dig[i] = x.dig[i]
<1>1. CASE x.size >= c
  BY <1>1, Fields DEF Grow, Safe, UsedInVector
<1>2. CASE ~(x.size >= c)
  <2> DEFINE s == c + (2 * BaseCapacity - (c % BaseCapacity))
             d == [i \in 0 .. s - 1 |-> IF i < x.size THEN x.dig[i] ELSE 0]
  <2>1. Grow(x, c) \in Exactly(x.neg, x.used, s, d)
    <3>1. x \in Exactly(x.neg, x.used, x.size, x.dig)
      BY Shape
    <3>2. QED
      BY <1>2, <3>1 DEF Grow, Exactly
  <2>2. s \in Nat /\ s >= c
    <3>1. c % BaseCapacity \in 0 .. BaseCapacity - 1
      BY BaseCapacityAssumption, DivMod
    <3>2. QED
      BY <3>1, BaseCapacityAssumption
  <2> HIDE DEF s
  <2>3. /\ x.neg \in BOOLEAN /\ x.used \in Nat /\ x.size \in Nat
        /\ x.used <= c /\ x.dig \in [0 .. x.size - 1 -> Digit]
    BY <1>2, Fields DEF UsedInVector
  <2>4. x.used \in 0 .. s /\ s >= x.size
    BY <2>2, <2>3, <1>2
  <2>5. d \in [0 .. s - 1 -> Digit]
    BY <2>2, <2>3, RadixPositive
  <2>6. \A i \in x.used .. s - 1 : d[i] = 0
    BY <2>2, <2>3 DEF ClearAboveUsed
  <2>7. \A i \in 0 .. x.size - 1 : d[i] = x.dig[i]
    BY <2>2, <2>3, <2>4
  <2> HIDE DEF d
  <2>8. QED
    BY <2>1, <2>2, <2>3, <2>4, <2>5, <2>6, <2>7
    DEF Safe, IsNumber, UsedInVector, ClearAboveUsed, Exactly
<1>3. QED
  BY <1>1, <1>2

(* The constructor leaves a zero with its capacity. *)
LEMMA NewSafe ==
  ASSUME NEW c \in Nat \ {0}
  PROVE  /\ Safe(New(c)) /\ New(c).used = 0 /\ New(c).size >= c
         /\ New(c).neg = FALSE
<1> DEFINE none == [neg |-> FALSE, used |-> 0, size |-> 0,
                    dig |-> [i \in {} |-> 0]]
<1>1. IsNumber(none) /\ UsedInVector(none) /\ ClearAboveUsed(none)
  BY DEF IsNumber, UsedInVector, ClearAboveUsed
<1>2. none.neg = FALSE /\ none.used = 0
  OBVIOUS
<1>3. New(c) = Grow(none, c)
  BY DEF New
<1> HIDE DEF none
<1>4. QED
  BY <1>1, <1>2, <1>3, GrowSafe DEF Safe

-----------------------------------------------------------------------------
(***************************************************************************)
(* Assignment and shifts.                                                  *)
(***************************************************************************)
(* An assigned object keeps its vector, and clears what it does not copy. *)
LEMMA AssignSafe ==
  ASSUME NEW x, Safe(x), NEW y, Safe(y)
  PROVE  /\ Safe(Assign(x, y))
         /\ Assign(x, y).size >= x.size
         /\ Assign(x, y).used = y.used /\ Assign(x, y).neg = y.neg
<1> DEFINE g == Grow(x, y.used)
           d == [i \in 0 .. g.size - 1 |->
                   IF i < y.used THEN y.dig[i]
                   ELSE IF i < x.used THEN 0 ELSE g.dig[i]]
<1>1. /\ IsNumber(g) /\ g.used = x.used /\ g.size >= y.used /\ g.size > 0
      /\ g.size >= x.size
      /\ \A i \in x.used .. g.size - 1 : g.dig[i] = 0
  <2>1. y.used \in Nat
    BY Fields DEF Safe
  <2>2. Safe(g) /\ g.used = x.used /\ g.size >= y.used /\ g.size >= x.size
    BY <2>1, GrowSafe DEF Safe
  <2>3. QED
    BY <2>2 DEF Safe, ClearAboveUsed
<1>2. Assign(x, y) \in Exactly(y.neg, y.used, g.size, d)
  <2>1. g \in Exactly(g.neg, g.used, g.size, g.dig)
    BY <1>1, Shape
  <2>2. QED
    BY <2>1 DEF Assign, Exactly
<1> HIDE DEF g
<1>3. /\ y.neg \in BOOLEAN /\ y.used \in Nat /\ y.size \in Nat
      /\ y.used <= y.size /\ y.dig \in [0 .. y.size - 1 -> Digit]
      /\ g.size \in Nat /\ g.dig \in [0 .. g.size - 1 -> Digit]
      /\ x.used \in Nat
  BY <1>1, Fields DEF Safe, UsedInVector
<1>4. d \in [0 .. g.size - 1 -> Digit]
  BY <1>3, RadixPositive
<1>5. \A i \in y.used .. g.size - 1 : d[i] = 0
  BY <1>1, <1>3
<1> HIDE DEF d
<1>6. QED
  BY <1>1, <1>2, <1>3, <1>4, <1>5
  DEF Safe, IsNumber, UsedInVector, ClearAboveUsed, Exactly

(* A digit assigned to an object. *)
LEMMA AssignDigitSafe ==
  ASSUME NEW x, Safe(x), NEW e \in Nat
  PROVE  Safe(AssignDigit(x, e)) /\ AssignDigit(x, e).size = x.size
<1> DEFINE z == Zero(x)
           v == e % DigitRadix
           u == IF v # 0 THEN 1 ELSE 0
           d == [z.dig EXCEPT ![0] = v]
<1>1. Safe(z) /\ z.used = 0 /\ z.size = x.size
  BY ZeroSafe DEF Safe
<1>2. AssignDigit(x, e) \in Exactly(z.neg, u, x.size, d)
  <2>1. z \in Exactly(z.neg, z.used, z.size, z.dig)
    BY <1>1, Shape DEF Safe
  <2>2. QED
    BY <2>1, <1>1 DEF AssignDigit, Exactly
<1> HIDE DEF z
<1>3. /\ z.neg \in BOOLEAN /\ x.size \in Nat
      /\ z.dig \in [0 .. x.size - 1 -> Digit]
      /\ \A i \in 0 .. x.size - 1 : z.dig[i] = 0
      /\ x.size > 0
  BY <1>1, Fields DEF Safe, ClearAboveUsed
<1>4. v \in Digit
  BY RadixPositive, DivMod DEF Digit
<1> HIDE DEF v
<1>5. d \in [0 .. x.size - 1 -> Digit] /\ u \in 0 .. x.size
  BY <1>3, <1>4
<1>6. \A i \in u .. x.size - 1 : d[i] = 0
  BY <1>3, <1>4
<1> HIDE DEF d, u
<1>7. QED
  BY <1>2, <1>3, <1>5, <1>6
  DEF Safe, IsNumber, UsedInVector, ClearAboveUsed, Exactly

(* leftDigitShift reserves the words it moves into, clears those it leaves. *)
LEMMA LeftDigitShiftSafe ==
  ASSUME NEW x, Safe(x), NEW k \in Nat
  PROVE  /\ Safe(LeftDigitShift(x, k))
         /\ LeftDigitShift(x, k).used = x.used + k
         /\ LeftDigitShift(x, k).size >= x.size
<1> DEFINE g == Grow(x, x.used + k)
           d == [i \in 0 .. g.size - 1 |->
                   IF i < k THEN 0
                   ELSE IF i < x.used + k THEN g.dig[i - k]
                   ELSE g.dig[i]]
<1>1. /\ x.used \in Nat /\ x.size \in Nat /\ x.used <= x.size
      /\ x.dig \in [0 .. x.size - 1 -> Digit]
  BY Fields DEF Safe, UsedInVector
<1>2. CASE k = 0
  BY <1>1, <1>2 DEF LeftDigitShift
<1>3. CASE k # 0
  <2>1. /\ IsNumber(g) /\ g.used = x.used
        /\ g.size >= x.used + k /\ g.size >= x.size
        /\ \A i \in x.used .. g.size - 1 : g.dig[i] = 0
    <3>1. x.used + k \in Nat
      BY <1>1
    <3>2. QED
      BY <3>1, GrowSafe DEF Safe, ClearAboveUsed
  <2>2. LeftDigitShift(x, k) \in Exactly(g.neg, x.used + k, g.size, d)
    <3>1. g \in Exactly(g.neg, g.used, g.size, g.dig)
      BY <2>1, Shape
    <3>2. QED
      BY <3>1, <1>3 DEF LeftDigitShift, Exactly
  <2> HIDE DEF g
  <2>3. /\ g.neg \in BOOLEAN /\ g.size \in Nat
        /\ g.dig \in [0 .. g.size - 1 -> Digit]
    BY <2>1, Fields
  <2>4. d \in [0 .. g.size - 1 -> Digit]
    <3>1. ASSUME NEW i \in 0 .. g.size - 1, ~(i < k), i < x.used + k
          PROVE  g.dig[i - k] \in Digit
      <4>1. i - k \in 0 .. g.size - 1
        BY <2>3, <3>1
      <4>2. QED
        BY <2>3, <4>1
    <3>2. QED
      BY <2>3, <3>1, RadixPositive
  <2>5. \A i \in x.used + k .. g.size - 1 : d[i] = 0
    BY <1>1, <2>1, <2>3
  <2> HIDE DEF d
  <2>6. x.used + k \in 0 .. g.size
    BY <1>1, <2>1, <2>3
  <2>7. QED
    BY <1>1, <2>1, <2>2, <2>3, <2>4, <2>5, <2>6
    DEF Safe, IsNumber, UsedInVector, ClearAboveUsed, Exactly
<1>4. QED
  BY <1>2, <1>3

(* rightDigitShift clears the words it takes out of use. *)
LEMMA RightDigitShiftSafe ==
  ASSUME NEW x, Safe(x), NEW k \in Nat
  PROVE  /\ Safe(RightDigitShift(x, k))
         /\ RightDigitShift(x, k).size = x.size
         /\ RightDigitShift(x, k).used <= x.used
<1>1. /\ x.used \in Nat /\ x.size \in Nat /\ x.used <= x.size
      /\ x.neg \in BOOLEAN /\ x.dig \in [0 .. x.size - 1 -> Digit]
      /\ \A i \in x.used .. x.size - 1 : x.dig[i] = 0
  BY Fields DEF Safe, UsedInVector, ClearAboveUsed
<1>2. CASE k = 0
  BY <1>1, <1>2 DEF RightDigitShift
<1>3. CASE k # 0 /\ x.used <= k
  BY <1>1, <1>3, ZeroSafe DEF RightDigitShift, Safe
<1>4. CASE k # 0 /\ ~(x.used <= k)
  <2> DEFINE u == x.used - k
             d == [i \in 0 .. x.size - 1 |->
                     IF i < u THEN x.dig[i + k]
                     ELSE IF i < x.used THEN 0 ELSE x.dig[i]]
  <2>1. RightDigitShift(x, k) \in Exactly(x.neg, u, x.size, d)
    <3>1. x \in Exactly(x.neg, x.used, x.size, x.dig)
      BY Shape DEF Safe
    <3>2. QED
      BY <3>1, <1>4 DEF RightDigitShift, Exactly
  <2>2. u \in 0 .. x.size /\ u <= x.used
    BY <1>1, <1>4
  <2>3. d \in [0 .. x.size - 1 -> Digit]
    <3>1. 0 \in Digit
      BY RadixPositive DEF Digit
    <3>2. ASSUME NEW i \in 0 .. x.size - 1
          PROVE  (IF i < u THEN x.dig[i + k]
                  ELSE IF i < x.used THEN 0 ELSE x.dig[i]) \in Digit
      <4>1. i < u => i + k \in 0 .. x.size - 1
        BY <1>1, <1>4
      <4>2. QED
        BY <1>1, <3>1, <4>1
    <3>3. QED
      BY <3>2
  <2>4. \A i \in u .. x.size - 1 : d[i] = 0
    BY <1>1, <1>4
  <2> HIDE DEF d, u
  <2>5. QED
    BY <1>1, <2>1, <2>2, <2>3, <2>4
    DEF Safe, IsNumber, UsedInVector, ClearAboveUsed, Exactly
<1>5. QED
  BY <1>2, <1>3, <1>4

(* The carry loop of <<= and multiplyByTwo: with a word to spare for the     *)
(* carry out of the leading digit, nothing leaves the vector.                *)
LEMMA ShlBitsSafe ==
  ASSUME NEW x, Safe(x), x.used < x.size, NEW n \in 0 .. DigitBits
  PROVE  /\ Safe(ShlBits(x, n))
         /\ ShlBits(x, n).size = x.size
         /\ ShlBits(x, n).used \in x.used .. x.used + 1
<1> DEFINE C(i) == IF i = 0 THEN 0 ELSE Dig(x, i - 1) \div Pow2[DigitBits - n]
           carry == C(x.used)
           u == IF carry # 0 THEN x.used + 1 ELSE x.used
           d == [i \in 0 .. x.size - 1 |->
                   IF i < x.used THEN ((x.dig[i] * Pow2[n]) % DigitRadix) + C(i)
                   ELSE IF i = x.used /\ carry # 0 THEN carry
                   ELSE x.dig[i]]
<1>1. /\ x.used \in Nat /\ x.size \in Nat /\ x.neg \in BOOLEAN
      /\ x.used <= x.size /\ x.dig \in [0 .. x.size - 1 -> Digit]
      /\ \A i \in x.used .. x.size - 1 : x.dig[i] = 0
  BY Fields DEF Safe, UsedInVector, ClearAboveUsed
<1>2. ShlBits(x, n) \in Exactly(x.neg, u, x.size, d)
  <2>1. x \in Exactly(x.neg, x.used, x.size, x.dig)
    BY Shape DEF Safe
  <2>2. QED
    BY <2>1 DEF ShlBits, Exactly
<1>3. ASSUME NEW i \in Nat
      PROVE  /\ C(i) \in Digit
             /\ i < x.used => ((x.dig[i] * Pow2[n]) % DigitRadix) + C(i) \in Digit
  <2> DEFINE P == Pow2[n]
             Q == Pow2[DigitBits - n]
             e == Dig(x, i - 1)
  <2>1. P \in Nat \ {0} /\ Q \in Nat \ {0} /\ DigitRadix = P * Q
        /\ Digit = 0 .. P * Q - 1
    BY RadixSplit DEF Digit
  <2>2. i # 0 => e \in Digit
    <3>1. i # 0 => i - 1 \in Nat
      OBVIOUS
    <3>2. QED
      BY <3>1, DigIsDigit DEF Safe
  <2> HIDE DEF P, Q, e
  <2>3. CASE i = 0
    <3>1. C(i) = 0
      BY <2>3
    <3>2. i < x.used => x.dig[i] \in 0 .. P * Q - 1
      BY <1>1, <2>1
    <3>3. 0 \in 0 .. P * Q - 1 /\ 0 \div Q = 0
      BY <2>1, RadixPositive
    <3>4. i < x.used => ((x.dig[i] * P) % (P * Q)) + (0 \div Q) \in 0 .. P * Q - 1
      BY <2>1, <3>2, <3>3, ShlDigit
    <3>5. QED
      BY <2>1, <3>1, <3>3, <3>4 DEF P
  <2>4. CASE i # 0
    <3>1. C(i) = e \div Q
      BY <2>4 DEF e, Q
    <3>2. i < x.used => x.dig[i] \in 0 .. P * Q - 1
      BY <1>1, <2>1
    <3>3. e \in 0 .. P * Q - 1
      BY <2>1, <2>2, <2>4
    <3>4. i < x.used => ((x.dig[i] * P) % (P * Q)) + (e \div Q) \in 0 .. P * Q - 1
      BY <2>1, <3>2, <3>3, ShlDigit
    <3>5. e \div Q \in 0 .. P - 1
      BY <2>1, <3>3, DivBound
    <3>6. P <= P * Q
      BY <2>1
    <3>7. e \div Q \in 0 .. P * Q - 1
      BY <2>1, <3>5, <3>6
    <3>8. QED
      BY <2>1, <3>1, <3>4, <3>7 DEF P
  <2>5. QED
    BY <2>3, <2>4
<1> HIDE DEF C
<1>4. d \in [0 .. x.size - 1 -> Digit]
  BY <1>1, <1>3
<1>5. u \in x.used .. x.used + 1 /\ u \in 0 .. x.size
  BY <1>1
<1>6. \A i \in u .. x.size - 1 : d[i] = 0
  BY <1>1
<1> HIDE DEF d, u, carry
<1>7. QED
  BY <1>1, <1>2, <1>4, <1>5, <1>6
  DEF Safe, IsNumber, UsedInVector, ClearAboveUsed, Exactly

(* The carry loop of >>= and divideByTwo. *)
LEMMA ShrBitsSafe ==
  ASSUME NEW x, Safe(x), NEW n \in 0 .. DigitBits
  PROVE  /\ Safe(ShrBits(x, n))
         /\ ShrBits(x, n).size = x.size /\ ShrBits(x, n).used = x.used
<1> DEFINE v(i) == x.dig[i] \div Pow2[n]
                   + ((Dig(x, i + 1) % Pow2[n]) * Pow2[DigitBits - n])
           d == [i \in 0 .. x.size - 1 |-> IF i < x.used THEN v(i) ELSE x.dig[i]]
<1>1. /\ x.used \in Nat /\ x.size \in Nat /\ x.neg \in BOOLEAN
      /\ x.used <= x.size
      /\ x.dig \in [0 .. x.size - 1 -> Digit]
      /\ \A i \in x.used .. x.size - 1 : x.dig[i] = 0
  BY Fields DEF Safe, UsedInVector, ClearAboveUsed
<1>2. ShrBits(x, n) \in Exactly(x.neg, x.used, x.size, d)
  <2>1. x \in Exactly(x.neg, x.used, x.size, x.dig)
    BY Shape DEF Safe
  <2>2. QED
    BY <2>1 DEF ShrBits, Exactly
<1>3. ASSUME NEW i \in Nat, i < x.used PROVE v(i) \in Digit
  <2> DEFINE P == Pow2[n]
             Q == Pow2[DigitBits - n]
             e == Dig(x, i + 1)
  <2>1. P \in Nat \ {0} /\ Q \in Nat \ {0} /\ Digit = 0 .. P * Q - 1
    BY RadixSplit DEF Digit
  <2>2. e \in Digit
    BY DigIsDigit DEF Safe
  <2> HIDE DEF P, Q, e
  <2>3. x.dig[i] \in 0 .. P * Q - 1
    BY <1>1, <1>3, <2>1
  <2>4. (x.dig[i] \div P) + ((e % P) * Q) \in 0 .. P * Q - 1
    BY <2>1, <2>2, <2>3, ShrDigit
  <2>5. QED
    BY <2>1, <2>4 DEF P, Q, e
<1> HIDE DEF v
<1>4. d \in [0 .. x.size - 1 -> Digit]
  BY <1>1, <1>3
<1>5. \A i \in x.used .. x.size - 1 : d[i] = 0
  BY <1>1
<1> HIDE DEF d
<1>6. QED
  BY <1>1, <1>2, <1>4, <1>5
  DEF Safe, IsNumber, UsedInVector, ClearAboveUsed, Exactly

(* multiplyByTwo reserves the word its carry may need. *)
LEMMA MultiplyByTwoSafe ==
  ASSUME NEW x, Safe(x)
  PROVE  Safe(MultiplyByTwo(x)) /\ MultiplyByTwo(x).size >= x.size
<1> DEFINE g == Grow(x, x.used + 1)
<1>1. x.used \in Nat /\ x.used + 1 \in Nat /\ 1 \in 0 .. DigitBits
  BY Fields, DigitBitsAssumption DEF Safe
<1>2. Safe(g) /\ g.used = x.used /\ g.size >= x.used + 1 /\ g.size >= x.size
  BY <1>1, GrowSafe DEF Safe
<1>3. MultiplyByTwo(x) = ShlBits(g, 1)
  BY DEF MultiplyByTwo
<1> HIDE DEF g
<1>4. g.size \in Nat
  BY <1>2, Fields DEF Safe
<1>5. QED
  BY <1>1, <1>2, <1>3, <1>4, ShlBitsSafe

(* divideByTwo shifts in place. *)
LEMMA DivideByTwoSafe ==
  ASSUME NEW x, Safe(x)
  PROVE  Safe(DivideByTwo(x)) /\ DivideByTwo(x).size = x.size
<1>1. 1 \in 0 .. DigitBits
  BY DigitBitsAssumption
<1>2. QED
  BY <1>1, ShrBitsSafe, ClampSafe DEF DivideByTwo

(* <<= reserves one word more than the digits it shifts by. *)
LEMMA ShlSafe ==
  ASSUME NEW x, Safe(x), NEW n \in Nat
  PROVE  /\ Safe(Shl(x, n)) /\ Shl(x, n).size >= x.size
         /\ Shl(x, n).size > x.used + n \div DigitBits
         /\ Shl(x, n).used \in x.used + n \div DigitBits
                               .. x.used + n \div DigitBits + 1
<1> DEFINE k == n \div DigitBits
           c == Grow(x, x.used + k + 1)
           g == LeftDigitShift(c, k)
<1>1. k \in Nat /\ n % DigitBits \in 0 .. DigitBits /\ x.used \in Nat
  <2>1. x.used \in Nat
    BY Fields DEF Safe
  <2>2. n \in Int /\ DigitBits \in Nat \ {0}
    BY DigitBitsAssumption
  <2>3. n % DigitBits \in 0 .. DigitBits - 1
    BY <2>2, DivMod
  <2>4. n \div DigitBits \in Nat
    <3>1. PICK w \in Nat : w = DigitBits /\ w > 0
      BY <2>2
    <3>2. n \div w \in Nat
      BY <3>1
    <3>3. QED
      BY <3>1, <3>2
  <2>5. QED
    BY <2>1, <2>2, <2>3, <2>4
<1>2. Shl(x, n) = IF n % DigitBits = 0 THEN g ELSE ShlBits(g, n % DigitBits)
  BY DEF Shl
<1> HIDE DEF k
<1>3. /\ Safe(c) /\ c.used = x.used /\ c.size >= x.used + k + 1
      /\ c.size >= x.size
  <2>1. x.used + k + 1 \in Nat
    BY <1>1
  <2>2. QED
    BY <2>1, GrowSafe DEF Safe
<1>4. c.size \in Int /\ x.size \in Int
  BY <1>3, Fields DEF Safe
<1> HIDE DEF c
<1>5. Safe(g) /\ g.used = x.used + k /\ g.size >= c.size
  BY <1>1, <1>3, LeftDigitShiftSafe
<1>6. g.size \in Int
  BY <1>5, Fields DEF Safe
<1> HIDE DEF g
<1>7. g.used < g.size
  BY <1>1, <1>3, <1>4, <1>5, <1>6
<1>8. /\ Safe(Shl(x, n)) /\ Shl(x, n).size = g.size
      /\ Shl(x, n).used \in x.used + k .. x.used + k + 1
  <2>1. CASE n % DigitBits = 0
    BY <1>1, <1>2, <1>5, <2>1
  <2>2. CASE n % DigitBits # 0
    <3>1. Shl(x, n) = ShlBits(g, n % DigitBits)
      BY <1>2, <2>2
    <3>2. QED
      BY <1>1, <1>5, <1>7, <3>1, ShlBitsSafe
  <2>3. QED
    BY <2>1, <2>2
<1>9. Shl(x, n).size > x.used + k /\ Shl(x, n).size >= x.size
  BY <1>1, <1>3, <1>4, <1>6, <1>5, <1>7, <1>8
<1>10. QED
  BY <1>8, <1>9 DEF k

(* >>= *)
LEMMA ShrSafe ==
  ASSUME NEW x, Safe(x), NEW n \in Nat
  PROVE  Safe(Shr(x, n)) /\ Shr(x, n).size = x.size
<1> DEFINE s == RightDigitShift(x, n \div DigitBits)
<1>1. n \div DigitBits \in Nat /\ n % DigitBits \in 0 .. DigitBits
  BY DigitBitsAssumption
<1>2. Safe(s) /\ s.size = x.size
  BY <1>1, RightDigitShiftSafe
<1> HIDE DEF s
<1>3. /\ Safe(Clamp(s)) /\ Clamp(s).size = x.size
      /\ Safe(Clamp(ShrBits(s, n % DigitBits)))
      /\ Clamp(ShrBits(s, n % DigitBits)).size = x.size
  BY <1>1, <1>2, ClampSafe, ShrBitsSafe
<1>4. QED
  BY <1>3 DEF Shr, s

(* mod2b masks the boundary digit and clears those above it. *)
LEMMA Mod2bSafe ==
  ASSUME NEW x, Safe(x), NEW b \in Nat
  PROVE  Safe(Mod2b(x, b)) /\ Mod2b(x, b).size = x.size
<1> DEFINE first == (b \div DigitBits) + (IF b % DigitBits = 0 THEN 0 ELSE 1)
           d == [i \in 0 .. x.size - 1 |->
                   IF i = BoundaryDigit(b) THEN x.dig[i] % Pow2[b % DigitBits]
                   ELSE IF first <= i /\ i < x.used THEN 0 ELSE x.dig[i]]
           z == [x EXCEPT !.dig = d]
<1>1. /\ x.used \in Nat /\ x.size \in Nat /\ x.neg \in BOOLEAN
      /\ x.used <= x.size
      /\ x.dig \in [0 .. x.size - 1 -> Digit]
      /\ \A i \in x.used .. x.size - 1 : x.dig[i] = 0
  BY Fields DEF Safe, UsedInVector, ClearAboveUsed
<1>2. z \in Exactly(x.neg, x.used, x.size, d)
  <2>1. x \in Exactly(x.neg, x.used, x.size, x.dig)
    BY Shape DEF Safe
  <2>2. QED
    BY <2>1 DEF Exactly
<1>3. ASSUME NEW i \in 0 .. x.size - 1
      PROVE  /\ x.dig[i] % Pow2[b % DigitBits] \in Digit
             /\ x.dig[i] = 0 => x.dig[i] % Pow2[b % DigitBits] = 0
  <2> DEFINE P == Pow2[b % DigitBits]
  <2>1. P \in Nat \ {0}
    BY Pow2Unfold, DigitBitsAssumption
  <2> HIDE DEF P
  <2>2. x.dig[i] \in Nat /\ x.dig[i] < DigitRadix
    BY Fields DEF Safe
  <2>3. x.dig[i] % P \in 0 .. x.dig[i]
    BY <2>1, <2>2
  <2>4. QED
    BY <2>2, <2>3, RadixPositive DEF P, Digit
<1>4. d \in [0 .. x.size - 1 -> Digit]
  BY <1>1, <1>3, RadixPositive
<1>5. \A i \in x.used .. x.size - 1 : d[i] = 0
  BY <1>1, <1>3
<1>6. Mod2bMasks(x, b) /\ b # 0 => Mod2b(x, b) = Clamp(z)
  BY DEF Mod2b
<1> HIDE DEF d
<1>7. Safe(z) /\ z.size = x.size
  BY <1>1, <1>2, <1>4, <1>5
  DEF Safe, IsNumber, UsedInVector, ClearAboveUsed, Exactly
<1> HIDE DEF z
<1>8. /\ Safe(Clamp(z)) /\ Clamp(z).size = x.size
      /\ Safe(Zero(x)) /\ Zero(x).size = x.size
  BY <1>7, ClampSafe, ZeroSafe DEF Safe
<1>9. QED
  BY <1>6, <1>8 DEF Mod2b

-----------------------------------------------------------------------------
(***************************************************************************)
(* The carry-chain arithmetic.                                             *)
(***************************************************************************)
(* The bits of a digit_t above DigitBits are one bit. *)
LEMMA WordDiv ==
  ASSUME NEW a \in 0 .. 2 * DigitRadix - 1
  PROVE  a \div DigitRadix \in 0 .. 1
<1>1. 2 \in Nat \ {0} /\ DigitRadix \in Nat \ {0}
  BY RadixPositive
<1>2. a \div DigitRadix \in 0 .. 2 - 1
  BY <1>1, DivBound
<1>3. QED
  BY <1>2

(* A remainder modulo the radix is a digit. *)
LEMMA ModDigit ==
  ASSUME NEW a \in Int
  PROVE  a % DigitRadix \in Digit
BY RadixPositive, DivMod DEF Digit

-----------------------------------------------------------------------------
(***************************************************************************)
(* Addition and subtraction.                                               *)
(***************************************************************************)
(* The carry of an addition is 0 or 1. *)
LEMMA AddCarryBit ==
  ASSUME NEW x, Safe(x), NEW y, Safe(y)
  PROVE  /\ \A i \in Nat : AddCarry(x, y)[i] \in 0 .. 1
         /\ AddCarry(x, y)[0] = 0
         /\ \A i \in Nat : AddCarry(x, y)[i + 1] =
              (Dig(x, i) + Dig(y, i) + AddCarry(x, y)[i]) \div DigitRadix
<1> DEFINE sum == [i \in Nat |-> Dig(x, i) + Dig(y, i)]
           step == [p \in Nat \X Int |-> (sum[p[1]] + p[2]) \div DigitRadix]
           Body(g) == [i \in Nat |->
                         IF i = 0 THEN 0
                         ELSE (Dig(x, i - 1) + Dig(y, i - 1) + g[i - 1])
                                \div DigitRadix]
           c == AddCarry(x, y)
<1>1. \A i \in Nat : sum[i] \in 0 .. 2 * DigitRadix - 2
  <2>1. ASSUME NEW i \in Nat PROVE sum[i] \in 0 .. 2 * DigitRadix - 2
    <3>1. Dig(x, i) \in Digit /\ Dig(y, i) \in Digit
      BY DigIsDigit DEF Safe
    <3>2. QED
      BY <3>1, RadixPositive DEF Digit
  <2>2. QED
    BY <2>1
<1>2. \A i \in Nat : sum[i] = Dig(x, i) + Dig(y, i)
  OBVIOUS
<1> HIDE DEF sum
<1>3. 0 \in Int /\ step \in StepFunctions(Int)
  BY <1>1, RadixPositive DEF StepFunctions
<1>4. PICK f : Solves(Int, 0, step, f)
  <2> HIDE DEF step
  <2>1. QED
    BY <1>3, RecursionSolves
<1>5. f = Body(f)
  <2>1. ASSUME NEW i \in Nat, i # 0
        PROVE  f[i] = (Dig(x, i - 1) + Dig(y, i - 1) + f[i - 1]) \div DigitRadix
    <3>1. i - 1 \in Nat /\ f[i - 1] \in Int
      BY <2>1, <1>4 DEF Solves
    <3>2. f[i] = step[<<i - 1, f[i - 1]>>]
      BY <2>1, <1>4 DEF Solves
    <3>3. QED
      BY <1>2, <3>1, <3>2
  <2>2. QED
    BY <2>1, <1>4 DEF Solves
<1>6. c = Body(c)
  BY <1>5 DEF AddCarry
<1> HIDE DEF c
<1> DEFINE S == {i \in Nat : c[i] \in 0 .. 1}
<1>7. 0 \in S
  BY <1>6
<1>8. ASSUME NEW i \in S PROVE i + 1 \in S
  <2>1. i \in Nat /\ i + 1 \in Nat /\ i + 1 # 0 /\ (i + 1) - 1 = i /\ c[i] \in 0 .. 1
    OBVIOUS
  <2>2. c[i + 1] = (sum[i] + c[i]) \div DigitRadix
    BY <1>2, <1>6, <2>1
  <2>3. sum[i] + c[i] \in 0 .. 2 * DigitRadix - 1
    BY <1>1, <2>1, RadixPositive
  <2>4. (sum[i] + c[i]) \div DigitRadix \in 0 .. 1
    BY <2>3, WordDiv
  <2>5. QED
    BY <2>1, <2>2, <2>4
<1> HIDE DEF S
<1>9. S = Nat
  BY <1>7, <1>8, SetInduction DEF S
<1>10. c[0] = 0
  BY <1>6
<1>11. ASSUME NEW i \in Nat
       PROVE  c[i + 1] = (Dig(x, i) + Dig(y, i) + c[i]) \div DigitRadix
  <2>1. i + 1 \in Nat /\ i + 1 # 0 /\ (i + 1) - 1 = i
    OBVIOUS
  <2>2. QED
    BY <1>6, <2>1
<1>12. QED
  BY <1>9, <1>10, <1>11 DEF S, c

(* Addition leaves room for the last carry and clears nothing it needs. *)
LEMMA UnsignedAddSafe ==
  ASSUME NEW x, Safe(x), NEW y, Safe(y)
  PROVE  /\ Safe(UnsignedAdd(x, y)) /\ UnsignedAdd(x, y).size >= x.size
         /\ LET z == AddUnclamped(x, y)
                m == Larger(x.used, y.used)
            IN  /\ Safe(z) /\ z.neg = x.neg /\ z.used = m + 1
                /\ \A i \in 0 .. m - 1 : z.dig[i] =
                     (Dig(x, i) + Dig(y, i) + AddCarry(x, y)[i]) % DigitRadix
                /\ z.dig[m] = AddCarry(x, y)[m]
<1> DEFINE m == Larger(x.used, y.used)
           g == Grow(x, m + 1)
           c == AddCarry(x, y)
           z == AddUnclamped(x, y)
           d == [i \in 0 .. g.size - 1 |->
                   IF i < m THEN (Dig(x, i) + Dig(y, i) + c[i]) % DigitRadix
                   ELSE IF i = m THEN c[i] ELSE g.dig[i]]
<1>1. m \in Nat /\ m + 1 \in Nat /\ m >= x.used /\ x.used \in Nat
  BY Fields DEF Safe, Larger
<1>2. /\ IsNumber(g) /\ g.used = x.used /\ g.size >= m + 1
      /\ g.size >= x.size
      /\ \A i \in x.used .. g.size - 1 : g.dig[i] = 0
  BY <1>1, GrowSafe DEF Safe, ClearAboveUsed
<1>3. z \in Exactly(g.neg, m + 1, g.size, d)
  <2>1. g \in Exactly(g.neg, g.used, g.size, g.dig)
    BY <1>2, Shape
  <2>2. QED
    BY <2>1 DEF AddUnclamped, Exactly
<1>0. g.neg = x.neg
  BY <1>1, GrowSafe DEF Safe
<1>4. \A i \in Nat : c[i] \in 0 .. 1
  BY AddCarryBit
<1> HIDE DEF g, c, m
<1>5. /\ g.neg \in BOOLEAN /\ g.size \in Nat
      /\ g.dig \in [0 .. g.size - 1 -> Digit]
  BY <1>2, Fields
<1>6. ASSUME NEW i \in Nat
      PROVE  (Dig(x, i) + Dig(y, i) + c[i]) % DigitRadix \in Digit
  <2>1. Dig(x, i) \in Int /\ Dig(y, i) \in Int /\ c[i] \in Int
    BY <1>4, DigIsDigit, RadixPositive DEF Safe, Digit
  <2>2. QED
    BY <2>1, ModDigit
<1>7. d \in [0 .. g.size - 1 -> Digit]
  BY <1>4, <1>5, <1>6, RadixAtLeastTwo
<1>8. \A i \in m + 1 .. g.size - 1 : d[i] = 0
  BY <1>1, <1>2, <1>5
<1>9. /\ \A i \in 0 .. m - 1 : d[i] = (Dig(x, i) + Dig(y, i) + c[i]) % DigitRadix
      /\ d[m] = c[m]
  BY <1>1, <1>2, <1>5
<1> HIDE DEF d, z
<1>10. Safe(z) /\ z.size >= x.size
  BY <1>1, <1>2, <1>3, <1>5, <1>7, <1>8
  DEF Safe, IsNumber, UsedInVector, ClearAboveUsed, Exactly
<1>11. z.neg = x.neg /\ z.used = m + 1 /\ z.dig = d
  BY <1>0, <1>3 DEF Exactly
<1>12. Safe(UnsignedAdd(x, y)) /\ UnsignedAdd(x, y).size >= x.size
  BY <1>10, ClampSafe DEF UnsignedAdd, z
<1>13. QED
  BY <1>9, <1>10, <1>11, <1>12 DEF z, c, m

(* The borrow of a subtraction is 0 or 1. *)
LEMMA SubBorrowBit ==
  ASSUME NEW x, Safe(x), NEW y, Safe(y)
  PROVE  /\ \A i \in Nat : SubBorrow(x, y)[i] \in 0 .. 1
         /\ SubBorrow(x, y)[0] = 0
         /\ \A i \in Nat : SubBorrow(x, y)[i + 1] =
              ((Dig(x, i) - Dig(y, i) - SubBorrow(x, y)[i]) % WordRadix)
                 \div DigitRadix
<1> DEFINE diff == [i \in Nat |-> Dig(x, i) - Dig(y, i)]
           step == [p \in Nat \X Int |->
                      ((diff[p[1]] - p[2]) % WordRadix) \div DigitRadix]
           Body(g) == [i \in Nat |->
                         IF i = 0 THEN 0
                         ELSE ((Dig(x, i - 1) - Dig(y, i - 1) - g[i - 1])
                                 % WordRadix) \div DigitRadix]
           c == SubBorrow(x, y)
<1>1. \A i \in Nat : diff[i] \in Int
  <2>1. ASSUME NEW i \in Nat PROVE Dig(x, i) - Dig(y, i) \in Int
    <3>1. Dig(x, i) \in Digit /\ Dig(y, i) \in Digit
      BY DigIsDigit DEF Safe
    <3>2. QED
      BY <3>1 DEF Digit
  <2>2. QED
    BY <2>1
<1>2. \A i \in Nat : diff[i] = Dig(x, i) - Dig(y, i)
  OBVIOUS
<1> HIDE DEF diff
<1>3. WordRadix \in Nat \ {0} /\ WordRadix = 2 * DigitRadix
  BY RadixPositive DEF WordRadix
<1>4. ASSUME NEW a \in Int PROVE (a % WordRadix) \div DigitRadix \in 0 .. 1
  <2>1. a % WordRadix \in 0 .. 2 * DigitRadix - 1
    BY <1>3
  <2>2. QED
    BY <2>1, WordDiv
<1>5. 0 \in Int /\ step \in StepFunctions(Int)
  BY <1>1, <1>4 DEF StepFunctions
<1>6. PICK f : Solves(Int, 0, step, f)
  <2> HIDE DEF step
  <2>1. QED
    BY <1>5, RecursionSolves
<1>7. f = Body(f)
  <2>1. ASSUME NEW i \in Nat, i # 0
        PROVE  f[i] = ((Dig(x, i - 1) - Dig(y, i - 1) - f[i - 1]) % WordRadix)
                        \div DigitRadix
    <3>1. i - 1 \in Nat /\ f[i - 1] \in Int
      BY <2>1, <1>6 DEF Solves
    <3>2. f[i] = step[<<i - 1, f[i - 1]>>]
      BY <2>1, <1>6 DEF Solves
    <3>3. QED
      BY <1>2, <3>1, <3>2
  <2>2. QED
    BY <2>1, <1>6 DEF Solves
<1>8. c = Body(c)
  BY <1>7 DEF SubBorrow
<1> HIDE DEF c
<1> DEFINE S == {i \in Nat : c[i] \in 0 .. 1}
<1>9. 0 \in S
  BY <1>8
<1>10. ASSUME NEW i \in S PROVE i + 1 \in S
  <2>1. i \in Nat /\ i + 1 \in Nat /\ i + 1 # 0 /\ (i + 1) - 1 = i /\ c[i] \in 0 .. 1
    OBVIOUS
  <2>2. c[i + 1] = ((diff[i] - c[i]) % WordRadix) \div DigitRadix
    BY <1>2, <1>8, <2>1
  <2>3. diff[i] - c[i] \in Int
    BY <1>1, <2>1
  <2>4. QED
    BY <1>4, <2>1, <2>2, <2>3
<1> HIDE DEF S
<1>11. S = Nat
  BY <1>9, <1>10, SetInduction DEF S
<1>12. c[0] = 0
  BY <1>8
<1>13. ASSUME NEW i \in Nat
       PROVE  c[i + 1] = ((Dig(x, i) - Dig(y, i) - c[i]) % WordRadix)
                           \div DigitRadix
  <2>1. i + 1 \in Nat /\ i + 1 # 0 /\ (i + 1) - 1 = i
    OBVIOUS
  <2>2. QED
    BY <1>8, <2>1
<1>14. QED
  BY <1>11, <1>12, <1>13 DEF S, c

(* Subtraction stays in the vector of the number it subtracts from. *)
LEMMA UnsignedSubSafe ==
  ASSUME NEW x, Safe(x), NEW y, Safe(y)
  PROVE  /\ Safe(UnsignedSub(x, y)) /\ UnsignedSub(x, y).size = x.size
         /\ LET z == SubUnclamped(x, y)
            IN  /\ Safe(z) /\ z.neg = x.neg /\ z.used = x.used
                /\ \A i \in 0 .. x.used - 1 : z.dig[i] =
                     (Dig(x, i) - Dig(y, i) - SubBorrow(x, y)[i]) % DigitRadix
<1> DEFINE c == SubBorrow(x, y)
           z == SubUnclamped(x, y)
           d == [i \in 0 .. x.size - 1 |->
                   IF i < x.used THEN (x.dig[i] - Dig(y, i) - c[i]) % DigitRadix
                   ELSE x.dig[i]]
<1>1. /\ x.used \in Nat /\ x.size \in Nat /\ x.neg \in BOOLEAN
      /\ x.used <= x.size
      /\ x.dig \in [0 .. x.size - 1 -> Digit]
      /\ \A i \in x.used .. x.size - 1 : x.dig[i] = 0
  BY Fields DEF Safe, UsedInVector, ClearAboveUsed
<1>2. z \in Exactly(x.neg, x.used, x.size, d)
  <2>1. x \in Exactly(x.neg, x.used, x.size, x.dig)
    BY Shape DEF Safe
  <2>2. QED
    BY <2>1 DEF SubUnclamped, Exactly
<1>3. \A i \in Nat : c[i] \in 0 .. 1
  BY SubBorrowBit
<1> HIDE DEF c
<1>4. ASSUME NEW i \in 0 .. x.size - 1
      PROVE  (x.dig[i] - Dig(y, i) - c[i]) % DigitRadix \in Digit
  <2>1. i \in Nat
    OBVIOUS
  <2>2. x.dig[i] \in Digit /\ Dig(y, i) \in Digit /\ c[i] \in Int
    BY <1>1, <1>3, <2>1, DigIsDigit DEF Safe
  <2>3. x.dig[i] - Dig(y, i) - c[i] \in Int
    BY <2>2 DEF Digit
  <2>4. QED
    BY <2>3, ModDigit
<1>5. d \in [0 .. x.size - 1 -> Digit]
  BY <1>1, <1>4
<1>6. \A i \in x.used .. x.size - 1 : d[i] = 0
  BY <1>1
<1>7. \A i \in 0 .. x.used - 1 :
        d[i] = (Dig(x, i) - Dig(y, i) - c[i]) % DigitRadix
  BY <1>1 DEF Dig
<1> HIDE DEF d, z
<1>8. Safe(z) /\ z.size = x.size
  BY <1>1, <1>2, <1>5, <1>6
  DEF Safe, IsNumber, UsedInVector, ClearAboveUsed, Exactly
<1>9. z.neg = x.neg /\ z.used = x.used /\ z.dig = d
  BY <1>2 DEF Exactly
<1>10. Safe(UnsignedSub(x, y)) /\ UnsignedSub(x, y).size = x.size
  BY <1>8, ClampSafe DEF UnsignedSub, z
<1>11. QED
  BY <1>7, <1>8, <1>9, <1>10 DEF z, c

(* The difference taken the other way round and assigned back. *)
LEMMA SubFromSafe ==
  ASSUME NEW x, Safe(x), NEW y, Safe(y)
  PROVE  Safe(SubFrom(x, y)) /\ SubFrom(x, y).size >= x.size
BY UnsignedSubSafe, AssignSafe DEF SubFrom

(* +=, whichever of its three ways it takes. *)
LEMMA AddEqSafe ==
  ASSUME NEW x, Safe(x), NEW y, Safe(y)
  PROVE  Safe(AddEq(x, y)) /\ AddEq(x, y).size >= x.size
<1>1. /\ Safe(UnsignedAdd(x, y)) /\ UnsignedAdd(x, y).size >= x.size
      /\ Safe(UnsignedSub(x, y)) /\ UnsignedSub(x, y).size = x.size
      /\ Safe(SubFrom(x, y)) /\ SubFrom(x, y).size >= x.size
      /\ x.size \in Nat
  BY UnsignedAddSafe, UnsignedSubSafe, SubFromSafe, Fields DEF Safe
<1>2. QED
  BY <1>1 DEF AddEq

(* A number stays safe whatever sign it is given. *)
LEMMA SignedSafe ==
  ASSUME NEW x, Safe(x), NEW s \in BOOLEAN
  PROVE  Safe([x EXCEPT !.neg = s]) /\ [x EXCEPT !.neg = s].size = x.size
<1>1. x \in Exactly(x.neg, x.used, x.size, x.dig)
  BY Shape DEF Safe
<1>2. [x EXCEPT !.neg = s] \in Exactly(s, x.used, x.size, x.dig)
  BY <1>1 DEF Exactly
<1>3. QED
  BY <1>2, Fields DEF Safe, IsNumber, UsedInVector, ClearAboveUsed, Exactly

(* -=, whichever of its three ways it takes. *)
LEMMA SubEqSafe ==
  ASSUME NEW x, Safe(x), NEW y, Safe(y)
  PROVE  Safe(SubEq(x, y)) /\ SubEq(x, y).size >= x.size
<1>1. /\ Safe(UnsignedAdd(x, y)) /\ UnsignedAdd(x, y).size >= x.size
      /\ Safe(UnsignedSub(x, y)) /\ UnsignedSub(x, y).size = x.size
      /\ Safe(SubFrom(x, y)) /\ SubFrom(x, y).size >= x.size
      /\ x.size \in Nat
  BY UnsignedAddSafe, UnsignedSubSafe, SubFromSafe, Fields DEF Safe
<1>2. (~x.neg) \in BOOLEAN
  OBVIOUS
<1>3. /\ Safe([SubFrom(x, y) EXCEPT !.neg = ~x.neg])
      /\ [SubFrom(x, y) EXCEPT !.neg = ~x.neg].size >= x.size
  BY <1>1, <1>2, SignedSafe
<1>4. QED
  BY <1>1, <1>3 DEF SubEq

-----------------------------------------------------------------------------
(***************************************************************************)
(* Multiplication.                                                         *)
(***************************************************************************)
(* A product of two digits and two carries fit in a double-precision word. *)
LEMMA ProductWord ==
  ASSUME NEW R \in Nat \ {0}, NEW d \in 0 .. R - 1, NEW e \in 0 .. R - 1,
         NEW a \in 0 .. R - 1, NEW b \in 0 .. R - 1
  PROVE  /\ a + d * e + b \in 0 .. R * R - 1
         /\ (a + d * e + b) \div R \in 0 .. R - 1
<1>1. d * e \in Nat /\ d * e <= (R - 1) * (R - 1)
  <2>1. d * e \in Nat /\ d * e <= (R - 1) * e
    OBVIOUS
  <2>2. (R - 1) * e <= (R - 1) * (R - 1)
    OBVIOUS
  <2>3. (R - 1) * e \in Int /\ (R - 1) * (R - 1) \in Int
    OBVIOUS
  <2>4. QED
    BY <2>1, <2>2, <2>3
<1>2. (R - 1) * (R - 1) = R * R - 2 * R + 1 /\ R * R \in Int
  OBVIOUS
<1>3. a + d * e + b \in 0 .. R * R - 1
  <2> DEFINE p == d * e
             s == R * R
  <2>1. p \in Nat /\ p <= s - 2 * R + 1 /\ s \in Int
    BY <1>1, <1>2
  <2> HIDE DEF p, s
  <2>2. a + p + b \in 0 .. s - 1
    BY <2>1
  <2>3. QED
    BY <2>2 DEF p, s
<1>4. (a + d * e + b) \div R \in 0 .. R - 1
  BY <1>3, DivBound
<1>5. QED
  BY <1>3, <1>4

(* The carry of a multiplication by a digit is a digit. *)
LEMMA MulCarryDigit ==
  ASSUME NEW x, Safe(x), NEW d \in Digit
  PROVE  /\ \A i \in Nat : MulCarry(x, d)[i] \in Digit
         /\ MulCarry(x, d)[0] = 0
         /\ \A i \in Nat : MulCarry(x, d)[i + 1] =
              (MulCarry(x, d)[i] + Dig(x, i) * d) \div DigitRadix
<1> DEFINE prod == [i \in Nat |-> Dig(x, i) * d]
           step == [p \in Nat \X Digit |-> (p[2] + prod[p[1]]) \div DigitRadix]
           Body(g) == [i \in Nat |->
                         IF i = 0 THEN 0
                         ELSE (g[i - 1] + Dig(x, i - 1) * d) \div DigitRadix]
           c == MulCarry(x, d)
<1>1. ASSUME NEW i \in Nat, NEW a \in Digit
      PROVE  (a + prod[i]) \div DigitRadix \in Digit
  <2>1. Dig(x, i) \in Digit
    BY DigIsDigit DEF Safe
  <2> DEFINE e == Dig(x, i)
             R == DigitRadix
  <2>2. /\ R \in Nat \ {0} /\ e \in 0 .. R - 1 /\ d \in 0 .. R - 1
        /\ a \in 0 .. R - 1 /\ 0 \in 0 .. R - 1
    BY <2>1, RadixPositive DEF Digit
  <2>3. prod[i] = e * d
    OBVIOUS
  <2> HIDE DEF e, R, prod
  <2>4. (a + e * d + 0) \div R \in 0 .. R - 1
    BY <2>2, ProductWord
  <2>5. a + e * d + 0 = a + e * d
    BY <2>2
  <2>6. QED
    BY <2>3, <2>4, <2>5 DEF R, Digit
<1>2. \A i \in Nat : prod[i] = Dig(x, i) * d
  OBVIOUS
<1> HIDE DEF prod
<1>3. 0 \in Digit /\ step \in StepFunctions(Digit)
  BY <1>1, RadixPositive DEF StepFunctions
<1>4. PICK f : Solves(Digit, 0, step, f)
  <2> HIDE DEF step
  <2>1. QED
    BY <1>3, RecursionSolves
<1>5. f = Body(f)
  <2>1. ASSUME NEW i \in Nat, i # 0
        PROVE  f[i] = (f[i - 1] + Dig(x, i - 1) * d) \div DigitRadix
    <3>1. i - 1 \in Nat /\ f[i - 1] \in Digit
      BY <2>1, <1>4 DEF Solves
    <3>2. f[i] = step[<<i - 1, f[i - 1]>>]
      BY <2>1, <1>4 DEF Solves
    <3>3. step[<<i - 1, f[i - 1]>>] = (f[i - 1] + prod[i - 1]) \div DigitRadix
      BY <3>1
    <3>4. QED
      BY <1>2, <3>1, <3>2, <3>3
  <2>2. QED
    BY <2>1, <1>4 DEF Solves
<1>6. c = Body(c)
  BY <1>5 DEF MulCarry
<1> HIDE DEF c
<1> DEFINE S == {i \in Nat : c[i] \in Digit}
<1>7. 0 \in S
  BY <1>6, RadixPositive
<1>8. ASSUME NEW i \in S PROVE i + 1 \in S
  <2>1. i \in Nat /\ i + 1 \in Nat /\ i + 1 # 0 /\ (i + 1) - 1 = i /\ c[i] \in Digit
    OBVIOUS
  <2>2. c[i + 1] = (c[i] + prod[i]) \div DigitRadix
    BY <1>2, <1>6, <2>1
  <2>3. QED
    BY <1>1, <2>1, <2>2
<1> HIDE DEF S
<1>9. S = Nat
  BY <1>7, <1>8, SetInduction DEF S
<1>10. c[0] = 0
  BY <1>6
<1>11. ASSUME NEW i \in Nat
       PROVE  c[i + 1] = (c[i] + Dig(x, i) * d) \div DigitRadix
  <2>1. i + 1 \in Nat /\ i + 1 # 0 /\ (i + 1) - 1 = i
    OBVIOUS
  <2>2. c[i + 1] = (c[(i + 1) - 1] + Dig(x, (i + 1) - 1) * d) \div DigitRadix
    BY <1>6, <2>1, Zenon
  <2>3. QED
    BY <2>1, <2>2, Zenon
<1>12. QED
  BY <1>9, <1>10, <1>11 DEF S, c

(* The carries depend on the digits in use only. *)
LEMMA MulCarrySame ==
  ASSUME NEW x, NEW y, NEW d, \A i \in Nat : Dig(y, i) = Dig(x, i)
  PROVE  MulCarry(y, d) = MulCarry(x, d)
<1>1. ASSUME NEW c
      PROVE  [i \in Nat |-> IF i = 0 THEN 0
                            ELSE (c[i - 1] + Dig(y, i - 1) * d) \div DigitRadix]
             = [i \in Nat |-> IF i = 0 THEN 0
                              ELSE (c[i - 1] + Dig(x, i - 1) * d) \div DigitRadix]
  <2>1. \A i \in Nat : i # 0 => Dig(y, i - 1) = Dig(x, i - 1)
    OBVIOUS
  <2>2. QED
    BY <2>1
<1>2. QED
  BY <1>1 DEF MulCarry

(* Multiplication by a digit. *)
LEMMA MulDigitSafe ==
  ASSUME NEW x, Safe(x), NEW e \in Digit
  PROVE  /\ Safe(MulDigit(x, e)) /\ MulDigit(x, e).size >= x.size
         /\ \E z : /\ MulDigit(x, e) = Clamp(z) /\ Safe(z)
                   /\ z.neg = x.neg /\ z.used = x.used + 1
                   /\ \A i \in 0 .. x.used - 1 : z.dig[i] =
                        (MulCarry(x, e)[i] + Dig(x, i) * e) % DigitRadix
                   /\ z.dig[x.used] = MulCarry(x, e)[x.used]
<1> DEFINE g == Grow(x, x.used + 1)
           c == MulCarry(x, e)
           d == [i \in 0 .. g.size - 1 |->
                   IF i < x.used THEN (c[i] + g.dig[i] * e) % DigitRadix
                   ELSE IF i = x.used THEN c[i] ELSE g.dig[i]]
           z == [g EXCEPT !.used = x.used + 1, !.dig = d]
<1>1. /\ x.used \in Nat /\ x.used + 1 \in Nat /\ x.size \in Nat
      /\ x.used <= x.size /\ x.dig \in [0 .. x.size - 1 -> Digit]
  BY Fields DEF Safe, UsedInVector
<1>2. /\ IsNumber(g) /\ g.used = x.used /\ g.size >= x.used + 1
      /\ g.size >= x.size
      /\ \A i \in x.used .. g.size - 1 : g.dig[i] = 0
      /\ \A i \in 0 .. x.size - 1 : g.dig[i] = x.dig[i]
      /\ g.neg = x.neg
  BY <1>1, GrowSafe DEF Safe, ClearAboveUsed
<1>3. z \in Exactly(g.neg, x.used + 1, g.size, d)
  <2>1. g \in Exactly(g.neg, g.used, g.size, g.dig)
    BY <1>2, Shape
  <2>2. QED
    BY <2>1 DEF Exactly
<1>4. MulDigit(x, e) = Clamp(z)
  <2>1. \A i \in Nat : i < x.used => g.dig[i] = x.dig[i]
    BY <1>1, <1>2
  <2>2. \A i \in Nat : Dig(g, i) = Dig(x, i)
    BY <1>2, <2>1 DEF Dig
  <2>3. MulCarry(g, e) = c
    BY <2>2, MulCarrySame
  <2>4. QED
    BY <2>3 DEF MulDigit
<1>5. \A i \in Nat : c[i] \in Digit
  BY MulCarryDigit
<1> HIDE DEF g, c
<1>6. /\ g.neg \in BOOLEAN /\ g.size \in Nat
      /\ g.dig \in [0 .. g.size - 1 -> Digit]
  BY <1>2, Fields
<1>7. ASSUME NEW i \in Nat, i < x.used
      PROVE  (c[i] + g.dig[i] * e) % DigitRadix \in Digit
  <2>1. c[i] \in Digit /\ g.dig[i] \in Digit
    <3>1. i \in 0 .. g.size - 1
      BY <1>1, <1>2, <1>6, <1>7
    <3>2. QED
      BY <1>5, <1>6, <3>1
  <2>2. \A v \in Digit : v \in Int
    BY DEF Digit
  <2>3. c[i] \in Int /\ g.dig[i] \in Int /\ e \in Int
    BY <2>1, <2>2
  <2>4. c[i] + g.dig[i] * e \in Int
    BY <2>3
  <2>5. QED
    BY <2>4, ModDigit
<1>8. d \in [0 .. g.size - 1 -> Digit]
  BY <1>1, <1>5, <1>6, <1>7
<1>9. \A i \in x.used + 1 .. g.size - 1 : d[i] = 0
  BY <1>1, <1>2, <1>6
<1>10. /\ \A i \in 0 .. x.used - 1 : d[i] = (c[i] + Dig(x, i) * e) % DigitRadix
       /\ d[x.used] = c[x.used]
  BY <1>1, <1>2, <1>6 DEF Dig
<1> HIDE DEF d, z
<1>11. Safe(z) /\ z.size >= x.size
  BY <1>1, <1>2, <1>3, <1>6, <1>8, <1>9
  DEF Safe, IsNumber, UsedInVector, ClearAboveUsed, Exactly
<1>12. z.neg = x.neg /\ z.used = x.used + 1 /\ z.dig = d
  BY <1>2, <1>3 DEF Exactly
<1>13. Safe(MulDigit(x, e)) /\ MulDigit(x, e).size >= x.size
  BY <1>4, <1>11, ClampSafe
<1>14. QED
  BY <1>4, <1>10, <1>11, <1>12, <1>13 DEF c

(* The carry along a row of the product is a digit. *)
LEMMA RowCarryDigit ==
  ASSUME NEW s \in Nat, NEW t \in [0 .. s - 1 -> Digit], NEW d \in Digit,
         NEW y, Safe(y), NEW i \in Nat, i + y.used <= s
  PROVE  /\ \A j \in 0 .. y.used : RowCarry(t, d, y, i)[j] \in Digit
         /\ RowCarry(t, d, y, i)[0] = 0
         /\ \A j \in 0 .. y.used - 1 : RowCarry(t, d, y, i)[j + 1] =
              (t[i + j] + d * Dig(y, j) + RowCarry(t, d, y, i)[j])
                 \div DigitRadix
<1> DEFINE m == y.used
           turn(j, a) == (t[i + j] + d * Dig(y, j) + a) \div DigitRadix
           step == [p \in (0 .. m - 1) \X Digit |-> turn(p[1], p[2])]
           Body(g) == [j \in 0 .. m |->
                         IF j = 0 THEN 0
                         ELSE (t[i + j - 1] + d * Dig(y, j - 1) + g[j - 1])
                                \div DigitRadix]
           c == RowCarry(t, d, y, i)
<1>1. m \in Nat
  BY Fields DEF Safe
<1>2. ASSUME NEW j \in 0 .. m - 1, NEW a \in Digit PROVE turn(j, a) \in Digit
  <2> DEFINE e == Dig(y, j)
             R == DigitRadix
             b == t[i + j]
  <2>1. e \in Digit /\ b \in Digit
    <3>1. j \in Nat /\ i + j \in 0 .. s - 1
      BY <1>1
    <3>2. QED
      BY <3>1, DigIsDigit DEF Safe
  <2>2. /\ R \in Nat \ {0} /\ e \in 0 .. R - 1 /\ d \in 0 .. R - 1
        /\ a \in 0 .. R - 1 /\ b \in 0 .. R - 1
    BY <2>1, RadixPositive DEF Digit
  <2> HIDE DEF e, R, b
  <2>3. (b + d * e + a) \div R \in 0 .. R - 1
    BY <2>2, ProductWord
  <2>4. QED
    BY <2>3 DEF e, R, b, Digit
<1>3. 0 \in Digit /\ step \in [(0 .. m - 1) \X Digit -> Digit]
  <2> HIDE DEF turn
  <2>1. QED
    BY <1>2, RadixPositive
<1>4. PICK f : SolvesUpTo(m, Digit, 0, step, f)
  <2> HIDE DEF step, m
  <2>1. QED
    BY <1>1, <1>3, BoundedRecursionSolves
<1>5. f = Body(f)
  <2>1. ASSUME NEW j \in 0 .. m, j # 0
        PROVE  f[j] = (t[i + j - 1] + d * Dig(y, j - 1) + f[j - 1])
                        \div DigitRadix
    <3>1. j - 1 \in 0 .. m - 1 /\ f[j - 1] \in Digit /\ i + (j - 1) = i + j - 1
      <4>1. j - 1 \in 0 .. m - 1 /\ i + (j - 1) = i + j - 1 /\ j - 1 \in 0 .. m
        BY <1>1, <2>1
      <4>2. f[j - 1] \in Digit
        BY <1>4, <4>1 DEF SolvesUpTo
      <4>3. QED
        BY <4>1, <4>2
    <3>2. f[j] = step[<<j - 1, f[j - 1]>>]
      BY <2>1, <1>4 DEF SolvesUpTo
    <3>3. step[<<j - 1, f[j - 1]>>] = turn(j - 1, f[j - 1])
      BY <3>1
    <3>4. QED
      BY <3>1, <3>2, <3>3
  <2>2. QED
    BY <2>1, <1>4 DEF SolvesUpTo
<1>6. c = Body(c)
  BY <1>5 DEF RowCarry
<1> HIDE DEF c
<1> DEFINE S == {j \in Nat : j <= m => c[j] \in Digit}
<1>7. 0 \in S
  BY <1>1, <1>6, RadixPositive
<1>8. ASSUME NEW j \in S PROVE j + 1 \in S
  <2>1. SUFFICES ASSUME j + 1 <= m PROVE c[j + 1] \in Digit
    OBVIOUS
  <2>2. /\ j \in 0 .. m - 1 /\ j + 1 \in 0 .. m /\ j + 1 # 0 /\ (j + 1) - 1 = j
        /\ i + (j + 1) - 1 = i + j /\ c[j] \in Digit
    BY <1>1, <2>1
  <2>3. c[j + 1] = turn(j, c[j])
    BY <1>6, <2>2
  <2> HIDE DEF turn
  <2>4. QED
    BY <1>2, <2>2, <2>3
<1> HIDE DEF S
<1>9. S = Nat
  BY <1>7, <1>8, SetInduction DEF S
<1>10. c[0] = 0
  BY <1>1, <1>6
<1>11. ASSUME NEW j \in 0 .. m - 1 PROVE c[j + 1] = turn(j, c[j])
  <2>1. /\ j + 1 \in 0 .. m /\ j + 1 # 0 /\ (j + 1) - 1 = j
        /\ i + (j + 1) - 1 = i + j
    BY <1>1
  <2>2. QED
    BY <1>6, <2>1
<1>12. \A j \in 0 .. m : c[j] \in Digit
  BY <1>1, <1>9 DEF S
<1>13. QED
  BY <1>10, <1>11, <1>12 DEF c

(* The vectors the product passes through: n words in use, clear above. *)
Rows(s, n) == {t \in [0 .. s - 1 -> Digit] : \A k \in n .. s - 1 : t[k] = 0}

(* A row of the product stays in the words of the product. *)
LEMMA AddRowInVector ==
  ASSUME NEW s \in Nat, NEW n \in 0 .. s, NEW t \in Rows(s, n), NEW d \in Digit,
         NEW y, Safe(y), NEW i \in Nat, i + y.used < n
  PROVE  AddRow(t, d, y, i) \in Rows(s, n)
<1> DEFINE c == RowCarry(t, d, y, i)
           r == [k \in 0 .. s - 1 |->
                   IF i <= k /\ k < i + y.used
                   THEN (t[k] + d * y.dig[k - i] + c[k - i]) % DigitRadix
                   ELSE IF k = i + y.used THEN c[y.used] ELSE t[k]]
<1>1. /\ y.used \in Nat /\ y.used <= y.size /\ y.size \in Nat
      /\ y.dig \in [0 .. y.size - 1 -> Digit]
  BY Fields DEF Safe, UsedInVector
<1>2. t \in [0 .. s - 1 -> Digit] /\ \A k \in n .. s - 1 : t[k] = 0
  BY DEF Rows
<1>3. \A j \in 0 .. y.used : c[j] \in Digit
  <2>1. i + y.used <= s
    BY <1>1
  <2>2. QED
    BY <1>2, <2>1, RowCarryDigit
<1>4. AddRow(t, d, y, i) = r
  BY <1>2 DEF AddRow
<1> HIDE DEF c
<1>5. ASSUME NEW k \in 0 .. s - 1, i <= k, k < i + y.used
      PROVE  (t[k] + d * y.dig[k - i] + c[k - i]) % DigitRadix \in Digit
  <2>1. k - i \in 0 .. y.used /\ k - i \in 0 .. y.size - 1
    BY <1>1, <1>5
  <2>2. t[k] \in Digit /\ d \in Digit /\ y.dig[k - i] \in Digit
        /\ c[k - i] \in Digit
    BY <1>1, <1>2, <1>3, <2>1
  <2>3. t[k] + d * y.dig[k - i] + c[k - i] \in Int
    BY <2>2 DEF Digit
  <2>4. QED
    BY <2>3, ModDigit
<1>6. r \in [0 .. s - 1 -> Digit]
  BY <1>1, <1>2, <1>3, <1>5
<1>7. \A k \in n .. s - 1 : r[k] = 0
  BY <1>1, <1>2
<1> HIDE DEF r
<1>8. QED
  BY <1>4, <1>6, <1>7 DEF Rows

(* The product of two numbers, of x.used and y.used digits. *)
LEMMA MulRowsInVector ==
  ASSUME NEW x, Safe(x), NEW y, Safe(y)
  PROVE  LET n == x.used + y.used + 1
             row == MulRows(x, y)
         IN  /\ \A i \in 0 .. x.used : row[i] \in Rows(New(n).size, n)
             /\ row[0] = New(n).dig
             /\ \A i \in 0 .. x.used - 1 :
                  row[i + 1] = IF IsZero(y) THEN New(n).dig
                               ELSE AddRow(row[i], Dig(x, i), y, i)
             /\ New(n).size \in Nat /\ n \in 0 .. New(n).size
             /\ \A k \in 0 .. New(n).size - 1 : New(n).dig[k] = 0
<1> DEFINE n == x.used + y.used + 1
           temp == New(n)
           m == x.used
           V == Rows(temp.size, n)
           turn(i, t) == IF IsZero(y) THEN temp.dig ELSE AddRow(t, Dig(x, i), y, i)
           step == [p \in (0 .. m - 1) \X V |-> turn(p[1], p[2])]
           Body(g) == [i \in 0 .. m |->
                         IF i = 0 \/ IsZero(y) THEN temp.dig
                         ELSE AddRow(g[i - 1], Dig(x, i - 1), y, i - 1)]
           row == MulRows(x, y)
<1>1. m \in Nat /\ y.used \in Nat /\ n \in Nat \ {0}
  BY Fields DEF Safe
<1>2. /\ temp.size \in Nat /\ n \in 0 .. temp.size
      /\ temp.dig \in [0 .. temp.size - 1 -> Digit]
      /\ \A k \in 0 .. temp.size - 1 : temp.dig[k] = 0
  <2>1. Safe(temp) /\ temp.used = 0 /\ temp.size >= n
    BY <1>1, NewSafe
  <2> HIDE DEF temp, n
  <2>2. QED
    BY <1>1, <2>1, Fields DEF Safe, ClearAboveUsed
<1>3. row = CHOOSE g : g = Body(g)
  BY DEF MulRows
<1> HIDE DEF temp
<1>4. temp.dig \in V
  BY <1>1, <1>2 DEF Rows
<1>5. ASSUME NEW i \in 0 .. m - 1, NEW t \in V PROVE turn(i, t) \in V
  <2>1. i \in Nat /\ i + y.used < n
    BY <1>1
  <2>2. Dig(x, i) \in Digit
    BY <2>1, DigIsDigit DEF Safe
  <2> HIDE DEF n
  <2>3. AddRow(t, Dig(x, i), y, i) \in V
    BY <1>2, <2>1, <2>2, AddRowInVector
  <2>4. QED
    BY <1>4, <2>3
<1> HIDE DEF V, n
<1>6. step \in [(0 .. m - 1) \X V -> V]
  <2> HIDE DEF turn
  <2>1. QED
    BY <1>5
<1>7. PICK f : SolvesUpTo(m, V, temp.dig, step, f)
  <2> HIDE DEF step, m
  <2>1. QED
    BY <1>1, <1>4, <1>6, BoundedRecursionSolves
<1>8. ASSUME NEW i \in 0 .. m, i # 0
      PROVE  f[i] = turn(i - 1, f[i - 1])
  <2>1. i - 1 \in 0 .. m - 1 /\ f[i - 1] \in V
    BY <1>1, <1>7, <1>8 DEF SolvesUpTo
  <2>2. f[i] = step[<<i - 1, f[i - 1]>>]
    BY <1>7, <1>8 DEF SolvesUpTo
  <2> HIDE DEF turn
  <2>3. QED
    BY <2>1, <2>2
<1>9. f = Body(f)
  BY <1>1, <1>7, <1>8 DEF SolvesUpTo
<1>10. row = Body(row)
  BY <1>3, <1>9
<1> HIDE DEF row
<1> DEFINE S == {i \in Nat : i <= m => row[i] \in V}
<1>11. 0 \in S
  BY <1>1, <1>4, <1>10
<1>12. ASSUME NEW i \in S PROVE i + 1 \in S
  <2>1. SUFFICES ASSUME i + 1 <= m PROVE row[i + 1] \in V
    OBVIOUS
  <2>2. /\ i \in 0 .. m - 1 /\ i + 1 \in 0 .. m /\ i + 1 # 0 /\ (i + 1) - 1 = i
        /\ row[i] \in V
    BY <1>1, <2>1
  <2>3. row[i + 1] = turn(i, row[i])
    BY <1>10, <2>2
  <2> HIDE DEF turn
  <2>4. QED
    BY <1>5, <2>2, <2>3
<1> HIDE DEF S
<1>13. S = Nat
  BY <1>11, <1>12, SetInduction DEF S
<1>14. \A i \in 0 .. m : row[i] \in V
  BY <1>1, <1>13 DEF S
<1>15. row[0] = temp.dig
  BY <1>1, <1>10
<1>16. ASSUME NEW i \in 0 .. m - 1 PROVE row[i + 1] = turn(i, row[i])
  <2>1. i + 1 \in 0 .. m /\ i + 1 # 0 /\ (i + 1) - 1 = i
    BY <1>1
  <2>2. QED
    BY <1>10, <2>1
<1>17. QED
  BY <1>2, <1>14, <1>15, <1>16 DEF row, V, temp, n

(* *= takes over the vector of its product. *)
LEMMA MulSafe ==
  ASSUME NEW x, Safe(x), NEW y, Safe(y)
  PROVE  /\ Safe(Mul(x, y))
         /\ LET n == x.used + y.used + 1
            IN  \E z : /\ Mul(x, y) = [Clamp(z) EXCEPT !.neg = (x.neg # y.neg)]
                       /\ Safe(z) /\ z.used = n /\ z.size = New(n).size
                       /\ z.dig = MulRows(x, y)[x.used]
<1> DEFINE n == x.used + y.used + 1
           temp == New(n)
           d == MulRows(x, y)[x.used]
           z == [temp EXCEPT !.used = n, !.dig = d]
           s == (x.neg # y.neg)
<1>1. n \in Nat \ {0}
  BY Fields DEF Safe
<1>2. d \in Rows(temp.size, n)
  <2>1. x.used \in 0 .. x.used
    BY Fields DEF Safe
  <2>2. QED
    BY <2>1, MulRowsInVector
<1>3. Mul(x, y) = [Clamp(z) EXCEPT !.neg = s]
  BY DEF Mul
<1> HIDE DEF d, n
<1>4. Safe(temp) /\ temp.size >= n
  BY <1>1, NewSafe
<1> HIDE DEF temp
<1>5. temp.neg \in BOOLEAN /\ temp.size \in Nat
  BY <1>4, Fields DEF Safe
<1>6. z \in Exactly(temp.neg, n, temp.size, d)
  <2>1. temp \in Exactly(temp.neg, temp.used, temp.size, temp.dig)
    BY <1>4, Shape DEF Safe
  <2>2. QED
    BY <2>1 DEF Exactly
<1> HIDE DEF z
<1>7. Safe(z)
  BY <1>1, <1>2, <1>4, <1>5, <1>6
  DEF Safe, IsNumber, UsedInVector, ClearAboveUsed, Exactly, Rows
<1>8. Safe(Clamp(z))
  BY <1>7, ClampSafe
<1>9. s \in BOOLEAN
  OBVIOUS
<1> HIDE DEF s
<1>10. Safe(Mul(x, y))
  BY <1>3, <1>8, <1>9, SignedSafe
<1>11. z.used = n /\ z.size = temp.size /\ z.dig = d
  BY <1>6 DEF Exactly
<1>12. QED
  BY <1>3, <1>7, <1>10, <1>11 DEF s, temp, n, d

-----------------------------------------------------------------------------
(***************************************************************************)
(* Bytes.  loadBytes counts a digit per byte, so between two bytes the     *)
(* count may be one past the vector.                                       *)
(***************************************************************************)
Counted(x) == /\ IsNumber(x) /\ ClearAboveUsed(x) /\ x.used <= x.size + 1
              /\ x.size > 0

(* Between two calls it is not, unless the last byte of a load filled it. *)
LEMMA SafeCounted ==
  ASSUME NEW x, Safe(x)
  PROVE  Counted(x)
<1>1. x.used \in Nat /\ x.size \in Nat /\ x.used <= x.size
  BY Fields DEF Safe, UsedInVector
<1>2. QED
  BY <1>1 DEF Safe, Counted

(* The calls that grow an object before they look at a digit do to it what  *)
(* they do to the grown object, which is safe whether its digits in use lay *)
(* in its vector or went a word past it.                                    *)
LEMMA GrownFirst ==
  ASSUME NEW x, Counted(x), NEW k \in Nat, NEW e \in Digit
  PROVE  /\ Safe(MultiplyByTwo(x)) /\ MultiplyByTwo(x).size >= x.size
         /\ Safe(MulDigit(x, e)) /\ MulDigit(x, e).size >= x.size
         /\ Safe(Shl(x, k)) /\ Shl(x, k).size >= x.size
         /\ k # 0 => /\ Safe(LeftDigitShift(x, k))
                      /\ LeftDigitShift(x, k).size >= x.size
<1> DEFINE grown(c) == Grow(x, c)
<1>1. x.used \in Nat /\ x.size \in Nat /\ x.used <= x.size + 1 /\ x.size > 0
  BY Fields DEF Counted
<1>2. ASSUME NEW c \in Nat, c >= x.used
      PROVE  /\ Safe(grown(c)) /\ grown(c).used = x.used
             /\ grown(c).size >= c /\ grown(c).size >= x.size
             /\ grown(c).size \in Nat
             /\ Grow(grown(c), c) = grown(c)
  <2>1. /\ Safe(grown(c)) /\ grown(c).used = x.used
        /\ grown(c).size >= c /\ grown(c).size >= x.size
    BY <1>1, <1>2, GrowSafe DEF Counted
  <2> HIDE DEF grown
  <2>2. Grow(grown(c), c) = grown(c)
    BY <2>1 DEF Grow
  <2>3. QED
    BY <2>1, <2>2, Fields DEF Safe
<1>3. ASSUME NEW c \in Nat, c >= x.used, NEW z, Safe(z), z.size >= grown(c).size
      PROVE  z.size >= x.size
  <2>1. z.size \in Nat /\ grown(c).size \in Nat /\ grown(c).size >= x.size
    BY <1>2, <1>3, Fields DEF Safe
  <2> HIDE DEF grown
  <2>2. QED
    BY <1>1, <1>3, <2>1
<1>4. x.used + 1 \in Nat /\ x.used + 1 >= x.used
  BY <1>1
<1>5. Safe(MultiplyByTwo(x)) /\ MultiplyByTwo(x).size >= x.size
  <2> DEFINE g == grown(x.used + 1)
  <2>1. MultiplyByTwo(x) = MultiplyByTwo(g)
    BY <1>2, <1>4 DEF MultiplyByTwo
  <2>2. Safe(MultiplyByTwo(g)) /\ MultiplyByTwo(g).size >= g.size
    BY <1>2, <1>4, MultiplyByTwoSafe
  <2>3. QED
    BY <1>3, <1>4, <2>1, <2>2
<1>6. Safe(MulDigit(x, e)) /\ MulDigit(x, e).size >= x.size
  <2> DEFINE g == grown(x.used + 1)
  <2>1. MulDigit(x, e) = MulDigit(g, e)
    BY <1>2, <1>4 DEF MulDigit
  <2>2. Safe(MulDigit(g, e)) /\ MulDigit(g, e).size >= g.size
    BY <1>2, <1>4, MulDigitSafe
  <2>3. QED
    BY <1>3, <1>4, <2>1, <2>2
<1>7. Safe(Shl(x, k)) /\ Shl(x, k).size >= x.size
  <2> DEFINE c == x.used + k \div DigitBits + 1
             g == grown(c)
  <2>1. c \in Nat /\ c >= x.used
    BY <1>1, DigitBitsAssumption
  <2>2. g.used + k \div DigitBits + 1 = c
    BY <1>2, <2>1
  <2>3. Shl(x, k) = Shl(g, k)
    BY <1>2, <2>1, <2>2 DEF Shl
  <2>4. Safe(Shl(g, k)) /\ Shl(g, k).size >= g.size
    BY <1>2, <2>1, ShlSafe
  <2>5. QED
    BY <1>3, <2>1, <2>3, <2>4
<1>8. ASSUME k # 0
      PROVE  Safe(LeftDigitShift(x, k)) /\ LeftDigitShift(x, k).size >= x.size
  <2> DEFINE g == grown(x.used + k)
  <2>1. x.used + k \in Nat /\ x.used + k >= x.used
    BY <1>1
  <2>2. LeftDigitShift(x, k) = LeftDigitShift(g, k)
    BY <1>2, <1>8, <2>1 DEF LeftDigitShift
  <2>3. Safe(LeftDigitShift(g, k)) /\ LeftDigitShift(g, k).size >= g.size
    BY <1>2, <2>1, LeftDigitShiftSafe
  <2>4. QED
    BY <1>3, <2>1, <2>2, <2>3
<1>9. QED
  BY <1>5, <1>6, <1>7, <1>8

(* A byte fits below the bits that a shift by a byte leaves. *)
LEMMA ShiftedByte ==
  ASSUME NEW P \in Nat \ {0}, NEW Q \in Nat \ {0}, NEW d \in 0 .. P * Q - 1,
         NEW b \in 0 .. P - 1
  PROVE  ((d * P) % (P * Q)) + b \in 0 .. P * Q - 1
<1>1. (d * P) % (P * Q) = P * (d % Q)
  <2>1. d \in Nat
    OBVIOUS
  <2>2. QED
    BY <2>1, MulMod
<1>2. d % Q \in 0 .. Q - 1
  BY DivMod
<1>3. P * (d % Q) \in Nat /\ P * (d % Q) <= P * (Q - 1)
  BY <1>2
<1>4. P * (Q - 1) = P * Q - P
  OBVIOUS
<1>5. QED
  BY <1>1, <1>3, <1>4

(* So it does in the lowest digit of the shifted number. *)
LEMMA ShlBitsLowDigit ==
  ASSUME NEW x, Safe(x), NEW n \in 0 .. DigitBits,
         NEW b \in 0 .. Pow2[n] - 1
  PROVE  ShlBits(x, n).dig[0] + b \in Digit
<1> DEFINE P == Pow2[n]
           Q == Pow2[DigitBits - n]
           low == ShlBits(x, n).dig[0]
<1>1. P \in Nat \ {0} /\ Q \in Nat \ {0} /\ DigitRadix = P * Q
      /\ Digit = 0 .. P * Q - 1
  BY RadixSplit DEF Digit
<1>2. /\ x.used \in Nat /\ x.size \in Nat /\ 0 \in 0 .. x.size - 1
      /\ x.dig \in [0 .. x.size - 1 -> Digit]
      /\ x.used = 0 => x.dig[0] = 0
  BY Fields DEF Safe, ClearAboveUsed
<1>3. low = IF 0 < x.used THEN ((x.dig[0] * P) % DigitRadix) + 0 ELSE x.dig[0]
  <2>1. x \in Exactly(x.neg, x.used, x.size, x.dig)
    BY Shape DEF Safe
  <2>2. QED
    BY <1>2, <2>1 DEF ShlBits, Exactly
<1>4. x.dig[0] \in 0 .. P * Q - 1
  BY <1>1, <1>2
<1>5. b \in 0 .. P - 1
  OBVIOUS
<1> HIDE DEF P, Q, low
<1>6. ((x.dig[0] * P) % (P * Q)) + b \in 0 .. P * Q - 1
  BY <1>1, <1>4, <1>5, ShiftedByte
<1>7. CASE 0 < x.used
  <2>1. (x.dig[0] * P) % (P * Q) \in Int
    BY <1>1, <1>4
  <2>2. low = (x.dig[0] * P) % (P * Q)
    BY <1>1, <1>3, <1>7, <2>1
  <2>3. QED
    BY <1>1, <1>6, <2>2 DEF low
<1>8. CASE ~(0 < x.used)
  <2>1. low = 0
    BY <1>2, <1>3, <1>8
  <2>2. P <= P * Q
    BY <1>1
  <2>3. b \in 0 .. P * Q - 1 /\ 0 + b = b
    BY <1>1, <1>5, <2>2
  <2>4. QED
    BY <1>1, <2>1, <2>3 DEF low
<1>9. QED
  BY <1>7, <1>8

(* One byte: the shift makes room for it and for its count. *)
LEMMA LoadByteCounted ==
  ASSUME NEW x, Counted(x), NEW b \in Byte
  PROVE  Counted(LoadByte(x, b)) /\ LoadByte(x, b).size >= x.size
<1> DEFINE g == Grow(x, x.used + 1)
           s == Shl(x, ByteBits)
           z == LoadByte(x, b)
           d == [s.dig EXCEPT ![0] = s.dig[0] + b]
<1>1. /\ x.used \in Nat /\ x.used + 1 \in Nat
      /\ ByteBits \in 0 .. DigitBits
      /\ ByteBits \div DigitBits = 0 /\ ByteBits % DigitBits = ByteBits
      /\ ByteBits # 0
  <2>1. x.used \in Nat
    BY Fields DEF Counted
  <2>2. DigitBits \in Nat \ {0} /\ ByteBits \in 1 .. DigitBits - 1
    BY ByteBitsAssumption, DigitBitsAssumption
  <2>3. ByteBits = DigitBits * 0 + ByteBits
    BY <2>2
  <2>4. ByteBits \div DigitBits = 0 /\ ByteBits % DigitBits = ByteBits
    BY <2>2, <2>3, DivModUnique
  <2>5. QED
    BY <2>1, <2>2, <2>4
<1>2. /\ Safe(g) /\ g.used = x.used /\ g.size >= x.used + 1
      /\ g.size >= x.size
  <2>1. x.used <= x.used + 1
    BY <1>1
  <2>2. QED
    BY <1>1, <2>1, GrowSafe DEF Counted
<1>3. s = ShlBits(g, ByteBits)
  <2>1. x.used + 0 + 1 = x.used + 1
    BY <1>1
  <2>2. QED
    BY <1>1, <2>1 DEF Shl, LeftDigitShift
<1>4. g.size \in Nat /\ g.used < g.size /\ g.size > 0
  BY <1>1, <1>2, Fields DEF Safe
<1> HIDE DEF g
<1>5. Safe(s) /\ s.size = g.size /\ s.used \in x.used .. x.used + 1
  BY <1>1, <1>2, <1>3, <1>4, ShlBitsSafe
<1>6. s.dig[0] + b \in Digit
  <2>1. b \in 0 .. Pow2[ByteBits] - 1
    BY DEF Byte
  <2>2. QED
    BY <1>1, <1>2, <1>3, <1>4, <2>1, ShlBitsLowDigit
<1>7. z \in Exactly(s.neg, s.used + 1, s.size, d)
  <2>1. s \in Exactly(s.neg, s.used, s.size, s.dig)
    BY <1>5, Shape DEF Safe
  <2>2. QED
    BY <2>1 DEF LoadByte, Exactly
<1> HIDE DEF s
<1>8. /\ s.neg \in BOOLEAN /\ s.used \in Nat /\ s.size \in Nat
      /\ s.dig \in [0 .. s.size - 1 -> Digit]
      /\ \A i \in s.used .. s.size - 1 : s.dig[i] = 0
  BY <1>5, Fields DEF Safe, ClearAboveUsed
<1>9. d \in [0 .. s.size - 1 -> Digit]
  BY <1>6, <1>8
<1>10. \A i \in s.used + 1 .. s.size - 1 : d[i] = 0
  BY <1>8
<1>11. s.used + 1 <= s.size + 1 /\ s.size > 0 /\ s.size >= x.size
  BY <1>1, <1>2, <1>4, <1>5, <1>8
<1> HIDE DEF d, z
<1>12. IsNumber(z) /\ ClearAboveUsed(z) /\ z.used = s.used + 1 /\ z.size = s.size
  BY <1>7, <1>8, <1>9, <1>10 DEF IsNumber, ClearAboveUsed, Exactly
<1>13. QED
  BY <1>11, <1>12 DEF Counted, z

(* A byte is counted past the vector only when the carry has filled it. *)
LEMMA LoadByteFull ==
  ASSUME NEW x, Counted(x), NEW b \in Byte, ~UsedInVector(LoadByte(x, b))
  PROVE  LoadByte(x, b).dig[LoadByte(x, b).size - 1] # 0
<1> DEFINE g == Grow(x, x.used + 1)
           s == Shl(x, ByteBits)
           z == LoadByte(x, b)
           u == x.used
<1>1. /\ u \in Nat /\ u + 1 \in Nat /\ ByteBits \in 0 .. DigitBits
      /\ ByteBits \div DigitBits = 0 /\ ByteBits % DigitBits = ByteBits
      /\ ByteBits # 0
  <2>1. u \in Nat
    BY Fields DEF Counted
  <2>2. DigitBits \in Nat \ {0} /\ ByteBits \in 1 .. DigitBits - 1
    BY ByteBitsAssumption, DigitBitsAssumption
  <2>3. ByteBits = DigitBits * 0 + ByteBits
    BY <2>2
  <2>4. ByteBits \div DigitBits = 0 /\ ByteBits % DigitBits = ByteBits
    BY <2>2, <2>3, DivModUnique
  <2>5. QED
    BY <2>1, <2>2, <2>4
<1>2. Safe(g) /\ g.used = u /\ g.size >= u + 1
  BY <1>1, GrowSafe DEF Counted
<1>3. s = ShlBits(g, ByteBits)
  <2>1. u + 0 + 1 = u + 1
    BY <1>1
  <2>2. QED
    BY <1>1, <2>1 DEF Shl, LeftDigitShift
<1> HIDE DEF g
<1>4. g.size \in Nat /\ g \in Exactly(g.neg, u, g.size, g.dig)
  BY <1>2, Fields, Shape DEF Safe
<1> DEFINE carry == IF u = 0 THEN 0
                    ELSE Dig(g, u - 1) \div Pow2[DigitBits - ByteBits]
<1>5. /\ s.size = g.size /\ s.used = IF carry # 0 THEN u + 1 ELSE u
      /\ carry # 0 => s.dig[u] = carry
  <2>1. u \in 0 .. g.size - 1
    BY <1>1, <1>2, <1>4
  <2>2. QED
    BY <1>1, <1>3, <1>4, <2>1 DEF ShlBits, Exactly
<1>6. s.dig = [i \in 0 .. s.size - 1 |-> s.dig[i]] /\ s.used \in Nat
  <2>1. Safe(s)
    BY <1>1, <1>2, <1>3, <1>4, ShlBitsSafe
  <2>2. QED
    BY <2>1, Fields DEF Safe
<1>7. s \in Exactly(s.neg, s.used, s.size, s.dig)
  <2>1. Safe(s)
    BY <1>1, <1>2, <1>3, <1>4, ShlBitsSafe
  <2>2. QED
    BY <2>1, Shape DEF Safe
<1>8. /\ z.used = s.used + 1 /\ z.size = s.size
      /\ z.dig = [s.dig EXCEPT ![0] = s.dig[0] + b]
  BY <1>7 DEF LoadByte, Exactly
<1> HIDE DEF s, carry
<1>9. ~(z.used <= z.size)
  BY DEF UsedInVector
<1>10. carry # 0 /\ g.size = u + 1
  BY <1>1, <1>2, <1>4, <1>5, <1>8, <1>9
<1>11. u # 0
  BY <1>10 DEF carry
<1>12. z.dig[u] = s.dig[u]
  BY <1>1, <1>5, <1>6, <1>8, <1>10, <1>11
<1>13. z.size - 1 = u
  BY <1>1, <1>5, <1>8, <1>10
<1>14. QED
  BY <1>5, <1>10, <1>12, <1>13

(* All the bytes of a buffer. *)
LEMMA LoadUnclampedCounted ==
  ASSUME NEW x, Counted(x), NEW bytes \in Seq(Byte)
  PROVE  /\ Counted(LoadUnclamped(x, bytes))
         /\ LoadUnclamped(x, bytes).size >= x.size
         /\ \E c : /\ LoadUnclamped(x, bytes) = c[Len(bytes)] /\ c[0] = x
                   /\ \A i \in 0 .. Len(bytes) - 1 :
                        c[i + 1] = LoadByte(c[i], bytes[i + 1])
                   /\ \A i \in 0 .. Len(bytes) : Counted(c[i])
<1> DEFINE m == Len(bytes)
           Sized(s) == [neg : BOOLEAN, used : Nat, size : {s},
                        dig : [0 .. s - 1 -> Digit]]
           Numbers == UNION {Sized(s) : s \in Nat}
           V == {z \in Numbers : Counted(z) /\ z.size >= x.size}
           step == [p \in (0 .. m - 1) \X V |-> LoadByte(p[2], bytes[p[1] + 1])]
           Body(g) == [i \in 0 .. m |->
                         IF i = 0 THEN x ELSE LoadByte(g[i - 1], bytes[i])]
           c == CHOOSE g : g = Body(g)
<1>1. m \in Nat /\ \A i \in 1 .. m : bytes[i] \in Byte
  OBVIOUS
<1>2. LoadUnclamped(x, bytes) = c[m]
  BY DEF LoadUnclamped
<1>3. ASSUME NEW z, Counted(z), z.size >= x.size PROVE z \in V
  <2>1. z.size \in Nat
    BY <1>3, Fields DEF Counted
  <2>2. z \in Sized(z.size)
    BY <1>3 DEF Counted, IsNumber
  <2> HIDE DEF Sized
  <2>3. QED
    BY <1>3, <2>1, <2>2
<1>4. /\ \A z \in V : Counted(z) /\ z.size >= x.size /\ z.size \in Nat
      /\ x.size \in Nat
  BY Fields DEF Counted
<1> HIDE DEF V
<1>5. ASSUME NEW i \in 0 .. m - 1, NEW z \in V
      PROVE  LoadByte(z, bytes[i + 1]) \in V
  <2>1. i + 1 \in 1 .. m
    BY <1>1
  <2>2. bytes[i + 1] \in Byte
    BY <1>1, <2>1
  <2> DEFINE w == LoadByte(z, bytes[i + 1])
  <2>3. Counted(w) /\ w.size >= z.size
    BY <1>4, <2>2, LoadByteCounted
  <2> HIDE DEF w
  <2>4. w.size \in Nat
    BY <2>3, Fields DEF Counted
  <2>5. w \in V
    BY <1>3, <1>4, <2>3, <2>4
  <2>6. QED
    BY <2>5 DEF w
<1>6. x \in V
  BY <1>3, <1>4
<1> HIDE DEF m
<1>7. step \in [(0 .. m - 1) \X V -> V]
  BY <1>5
<1>8. PICK f : SolvesUpTo(m, V, x, step, f)
  <2> HIDE DEF step
  <2>1. QED
    BY <1>1, <1>6, <1>7, BoundedRecursionSolves
<1>9. f = Body(f)
  <2>1. ASSUME NEW i \in 0 .. m, i # 0
        PROVE  f[i] = LoadByte(f[i - 1], bytes[i])
    <3>1. i - 1 \in 0 .. m - 1 /\ f[i - 1] \in V /\ (i - 1) + 1 = i
      BY <1>1, <2>1, <1>8 DEF SolvesUpTo
    <3>2. f[i] = step[<<i - 1, f[i - 1]>>]
      BY <2>1, <1>8 DEF SolvesUpTo
    <3>3. QED
      BY <3>1, <3>2
  <2>2. QED
    BY <2>1, <1>8 DEF SolvesUpTo
<1>10. c = Body(c)
  BY <1>9
<1> HIDE DEF c
<1> DEFINE S == {i \in Nat : i <= m => c[i] \in V}
<1>11. 0 \in S
  BY <1>1, <1>6, <1>10
<1>12. ASSUME NEW i \in S PROVE i + 1 \in S
  <2>1. SUFFICES ASSUME i + 1 <= m PROVE c[i + 1] \in V
    OBVIOUS
  <2>2. /\ i \in 0 .. m - 1 /\ i + 1 \in 0 .. m /\ i + 1 # 0 /\ (i + 1) - 1 = i
        /\ c[i] \in V
    BY <1>1, <2>1
  <2>3. c[i + 1] = LoadByte(c[i], bytes[i + 1])
    BY <1>10, <2>2
  <2>4. QED
    BY <1>5, <2>2, <2>3
<1> HIDE DEF S
<1>13. S = Nat
  BY <1>11, <1>12, SetInduction DEF S
<1>14. c[m] \in V
  BY <1>1, <1>13 DEF S
<1>15. \A i \in 0 .. m : Counted(c[i])
  <2>1. \A i \in 0 .. m : i \in Nat /\ i <= m
    BY <1>1
  <2>2. QED
    BY <1>4, <1>13, <2>1 DEF S
<1>16. \A i \in 0 .. m - 1 : c[i + 1] = LoadByte(c[i], bytes[i + 1])
  <2>1. ASSUME NEW i \in 0 .. m - 1
        PROVE  c[i + 1] = LoadByte(c[i], bytes[i + 1])
    <3>1. i + 1 \in 0 .. m /\ i + 1 # 0 /\ (i + 1) - 1 = i
      BY <1>1
    <3>2. QED
      BY <1>10, <3>1
  <2>2. QED
    BY <2>1
<1>17. c[0] = x
  BY <1>1, <1>10
<1>18. QED
  BY <1>2, <1>4, <1>14, <1>15, <1>16, <1>17 DEF m

(* Whatever loadBytes finds behind a vector it has counted past, the outcome *)
(* is safe if its digits in use lie in the vector, and otherwise has filled  *)
(* the vector and counts one word more.                                      *)
LEMMA LoadBytesCounted ==
  ASSUME NEW x, Counted(x), NEW bytes \in Seq(Byte), bytes # <<>>,
         NEW preZero \in BOOLEAN, NEW z \in LoadBytes(x, bytes, preZero)
  PROVE  /\ z.size >= x.size
         /\ UsedInVector(z) => Safe(z)
         /\ ~UsedInVector(z) => /\ IsNumber(z) /\ z.used = z.size + 1
                                /\ z.dig[z.size - 1] # 0
<1> DEFINE start == IF preZero THEN Zero(x) ELSE x
           y == LoadUnclamped(start, bytes)
           cut == [y EXCEPT !.used = y.size]
<1>1. z \in IF y.used <= y.size THEN {Clamp(y)} ELSE {Clamp(cut), y}
  BY DEF LoadBytes
<1>2. start.size = x.size /\ Counted(start)
  <2>1. Safe(Zero(x)) /\ Zero(x).size = x.size
    BY ZeroSafe DEF Counted
  <2>2. QED
    BY <2>1, SafeCounted
<1> HIDE DEF start
<1>3. Counted(y) /\ y.size >= x.size
  BY <1>2, LoadUnclampedCounted
<1>4. ~UsedInVector(y) => y.used = y.size + 1 /\ y.dig[y.size - 1] # 0
  <2>1. SUFFICES ASSUME ~UsedInVector(y)
                 PROVE  y.used = y.size + 1 /\ y.dig[y.size - 1] # 0
    OBVIOUS
  <2>2. PICK c : /\ y = c[Len(bytes)]
                 /\ \A i \in 0 .. Len(bytes) - 1 :
                      c[i + 1] = LoadByte(c[i], bytes[i + 1])
                 /\ \A i \in 0 .. Len(bytes) : Counted(c[i])
    BY <1>2, LoadUnclampedCounted
  <2>3. /\ Len(bytes) \in Nat \ {0} /\ bytes[Len(bytes)] \in Byte
        /\ Len(bytes) - 1 \in 0 .. Len(bytes) - 1
        /\ Len(bytes) - 1 \in 0 .. Len(bytes)
        /\ (Len(bytes) - 1) + 1 = Len(bytes)
    OBVIOUS
  <2> DEFINE w == c[Len(bytes) - 1]
  <2>4. y = LoadByte(w, bytes[Len(bytes)]) /\ Counted(w)
    BY <2>2, <2>3
  <2> HIDE DEF y, w
  <2>5. y.dig[y.size - 1] # 0
    BY <2>1, <2>3, <2>4, LoadByteFull
  <2>6. y.used \in Nat /\ y.size \in Nat /\ y.used <= y.size + 1
        /\ ~(y.used <= y.size)
    BY <1>3, <2>1, Fields DEF Counted, UsedInVector
  <2>7. QED
    BY <2>5, <2>6
<1> HIDE DEF y
<1>5. CASE y.used <= y.size
  <2>1. Safe(y)
    BY <1>3, <1>5 DEF Safe, Counted, UsedInVector
  <2>2. z = Clamp(y)
    BY <1>1, <1>5
  <2>3. Safe(z) /\ z.size = y.size
    BY <2>1, <2>2, ClampSafe
  <2>4. QED
    BY <1>3, <2>3 DEF Safe
<1>6. CASE ~(y.used <= y.size)
  <2>1. cut \in Exactly(y.neg, y.size, y.size, y.dig)
    <3>1. y \in Exactly(y.neg, y.used, y.size, y.dig)
      BY <1>3, Shape DEF Counted
    <3>2. QED
      BY <3>1 DEF Exactly
  <2> HIDE DEF cut
  <2>2. /\ y.neg \in BOOLEAN /\ y.size \in Nat /\ y.size > 0
        /\ y.dig \in [0 .. y.size - 1 -> Digit]
    BY <1>3, Fields DEF Counted
  <2>3. Safe(cut) /\ cut.size = y.size
    BY <2>1, <2>2 DEF Safe, IsNumber, UsedInVector, ClearAboveUsed, Exactly
  <2>4. CASE z = Clamp(cut)
    <3>1. Safe(z) /\ z.size = y.size
      BY <2>3, <2>4, ClampSafe
    <3>2. QED
      BY <1>3, <3>1 DEF Safe
  <2>5. CASE z = y
    BY <1>3, <1>4, <1>6, <2>5 DEF Counted, UsedInVector
  <2>6. QED
    BY <1>1, <1>6, <2>4, <2>5
<1>7. QED
  BY <1>5, <1>6

-----------------------------------------------------------------------------
(***************************************************************************)
(* Sums of weighted digits.                                                *)
(***************************************************************************)
Weight(i) == Pow2[DigitBits * i]

(* The sums of the numbers u[0], u[1], ... times their weights. *)
Sums(u) ==
  LET s[i \in Nat] == IF i = 0 THEN 0 ELSE s[i - 1] + u[i - 1] * Weight(i - 1)
  IN  s

(* The words of an object's vector. *)
Words(x) == [i \in Nat |-> IF i < x.size THEN x.dig[i] ELSE 0]

(* The weight of a digit is the radix times that of the digit below. *)
LEMMA Weights ==
  /\ Weight(0) = 1
  /\ \A i \in Nat : /\ Weight(i) \in Nat \ {0}
                    /\ Weight(i + 1) = Weight(i) * DigitRadix
<1>1. DigitBits \in Nat /\ DigitBits * 0 = 0
  BY DigitBitsAssumption
<1>2. \A i \in Nat : DigitBits * i \in Nat
  BY <1>1
<1>3. Weight(0) = 1
  BY <1>1, Pow2Unfold DEF Weight
<1>4. \A i \in Nat : /\ Weight(i) \in Nat \ {0}
                     /\ Weight(i + 1) = Weight(i) * DigitRadix
  BY <1>1, <1>2, Pow2Unfold, Pow2Digits DEF Weight, DigitRadix
<1>5. QED
  BY <1>3, <1>4

(* Weights of two places multiply to the weight of their sum. *)
LEMMA WeightSum ==
  ASSUME NEW i \in Nat, NEW k \in Nat
  PROVE  Weight(i + k) = Weight(i) * Weight(k)
<1>1. /\ DigitBits * (i + k) = DigitBits * i + DigitBits * k
      /\ DigitBits * i \in Nat /\ DigitBits * k \in Nat
  BY DigitBitsAssumption
<1>2. QED
  BY <1>1, Pow2Sum DEF Weight

(* Sums means its recursive definition. *)
LEMMA SumsUnfold ==
  ASSUME NEW u \in [Nat -> Int]
  PROVE  /\ Sums(u) \in [Nat -> Int]
         /\ Sums(u)[0] = 0
         /\ \A i \in Nat : Sums(u)[i + 1] = Sums(u)[i] + u[i] * Weight(i)
<1> DEFINE D == [i \in Nat |-> u[i] * Weight(i)]
           Body(g) == [i \in Nat |-> IF i = 0 THEN 0
                                     ELSE g[i - 1] + u[i - 1] * Weight(i - 1)]
           s == Sums(u)
<1>1. PICK f : f = [i \in Nat |-> IF i = 0 THEN 0 ELSE f[i - 1] + D[i - 1]]
  <2> HIDE DEF D
  <2>1. QED
    BY SumSolves
<1>2. f = Body(f)
  <2>1. ASSUME NEW i \in Nat, i # 0 PROVE f[i] = f[i - 1] + u[i - 1] * Weight(i - 1)
    <3>1. i - 1 \in Nat /\ f[i] = f[i - 1] + D[i - 1]
      BY <1>1, <2>1
    <3>2. QED
      BY <3>1
  <2>2. f = [i \in Nat |-> f[i]] /\ f[0] = 0
    BY <1>1
  <2>3. QED
    BY <2>1, <2>2
<1>3. s = Body(s)
  BY <1>2 DEF Sums
<1> HIDE DEF s
<1>4. s[0] = 0
  BY <1>3
<1>5. \A i \in Nat : s[i + 1] = s[i] + u[i] * Weight(i)
  BY <1>3
<1>6. \A i \in Nat : s[i] \in Int
  <2> DEFINE S == {i \in Nat : s[i] \in Int}
  <2>1. 0 \in S
    BY <1>4
  <2>2. ASSUME NEW i \in S PROVE i + 1 \in S
    <3>1. u[i] \in Int /\ s[i] \in Int /\ i \in Nat /\ Weight(i) \in Nat
      BY Weights
    <3>2. s[i + 1] \in Int
      BY <1>5, <3>1
    <3>3. QED
      BY <3>1, <3>2
  <2> HIDE DEF S
  <2>3. S = Nat
    BY <2>1, <2>2, SetInduction DEF S
  <2>4. QED
    BY <2>3 DEF S
<1>7. s = [i \in Nat |-> s[i]]
  BY <1>3
<1>8. s \in [Nat -> Int]
  BY <1>6, <1>7
<1>9. QED
  BY <1>4, <1>5, <1>8 DEF s

(* The sum of a loop: what a carry takes from one place it brings to the next. *)
LEMMA CarryChain ==
  ASSUME NEW u \in [Nat -> Int], NEW v \in [Nat -> Int], NEW m \in Nat,
         NEW c, \A i \in 0 .. m : c[i] \in Int,
         \A i \in 0 .. m - 1 : v[i] + DigitRadix * c[i + 1] = u[i] + c[i]
  PROVE  \A i \in 0 .. m : Sums(v)[i] + c[i] * Weight(i) = Sums(u)[i] + c[0]
<1> DEFINE S == {i \in Nat : i <= m =>
                   Sums(v)[i] + c[i] * Weight(i) = Sums(u)[i] + c[0]}
<1>1. 0 \in S
  <2>1. Sums(u)[0] = 0 /\ Sums(v)[0] = 0
    BY SumsUnfold
  <2>2. Weight(0) = 1 /\ c[0] \in Int
    BY Weights
  <2>3. QED
    BY <2>1, <2>2
<1>2. ASSUME NEW i \in S PROVE i + 1 \in S
  <2>1. SUFFICES ASSUME i + 1 <= m
                 PROVE  Sums(v)[i + 1] + c[i + 1] * Weight(i + 1)
                          = Sums(u)[i + 1] + c[0]
    OBVIOUS
  <2>2. i \in Nat /\ i \in 0 .. m /\ i + 1 \in 0 .. m /\ i \in 0 .. m - 1 /\ 0 \in 0 .. m
    BY <2>1
  <2>3. PICK a \in Int, b \in Int, w \in Nat, R \in Nat :
          Sums(v)[i] = a /\ Sums(u)[i] = b /\ Weight(i) = w /\ DigitRadix = R
    BY <2>2, SumsUnfold, Weights, RadixPositive
  <2>4. PICK d \in Int, e \in Int, c0 \in Int, c1 \in Int, c2 \in Int :
          v[i] = d /\ u[i] = e /\ c[0] = c0 /\ c[i] = c1 /\ c[i + 1] = c2
    BY <2>2
  <2>5. /\ Sums(v)[i + 1] = a + d * w /\ Sums(u)[i + 1] = b + e * w
        /\ Weight(i + 1) = w * R
    BY <2>2, <2>3, <2>4, SumsUnfold, Weights
  <2>6. d + R * c2 = e + c1
    BY <2>2, <2>3, <2>4
  <2>7. a + c1 * w = b + c0
    BY <2>1, <2>2, <2>3, <2>4
  <2>8. (a + d * w) + c2 * (w * R) = (b + e * w) + c0
    <3>1. (d + R * c2) * w = (e + c1) * w
      BY <2>6
    <3>2. (d + R * c2) * w = d * w + c2 * (w * R) /\ (e + c1) * w = e * w + c1 * w
      OBVIOUS
    <3>3. PICK p \in Int, q \in Int, r \in Int, s \in Int :
            p = d * w /\ q = c2 * (w * R) /\ r = e * w /\ s = c1 * w
      OBVIOUS
    <3>4. p + q = r + s /\ a + s = b + c0
      BY <2>7, <3>1, <3>2, <3>3
    <3>5. (a + p) + q = (b + r) + c0
      BY <3>4
    <3>6. QED
      BY <3>3, <3>5
  <2>9. QED
    BY <2>3, <2>4, <2>5, <2>8
<1> HIDE DEF S
<1>3. S = Nat
  BY <1>1, <1>2, SetInduction DEF S
<1>4. QED
  BY <1>3 DEF S

(* Sums depend only on the numbers added. *)
LEMMA SumsSame ==
  ASSUME NEW u \in [Nat -> Int], NEW v \in [Nat -> Int], NEW m \in Nat,
         \A i \in 0 .. m - 1 : u[i] = v[i]
  PROVE  \A i \in 0 .. m : Sums(u)[i] = Sums(v)[i]
<1> DEFINE c == [i \in 0 .. m |-> 0]
<1>1. \A i \in 0 .. m : c[i] \in Int /\ c[i] = 0
  OBVIOUS
<1>2. \A i \in 0 .. m - 1 : v[i] + DigitRadix * c[i + 1] = u[i] + c[i]
  BY RadixPositive
<1> HIDE DEF c
<1>3. \A i \in 0 .. m : Sums(v)[i] + c[i] * Weight(i) = Sums(u)[i] + c[0]
  <2>1. \A i \in 0 .. m : c[i] \in Int
    BY <1>1
  <2>2. QED
    BY <1>2, <2>1, CarryChain
<1>4. Sums(u) \in [Nat -> Int] /\ Sums(v) \in [Nat -> Int]
  BY SumsUnfold
<1>5. ASSUME NEW i \in 0 .. m PROVE Sums(u)[i] = Sums(v)[i]
  <2>1. PICK a \in Int, b \in Int, w \in Nat :
          Sums(u)[i] = a /\ Sums(v)[i] = b /\ Weight(i) = w
    <3>1. Sums(u)[i] \in Int /\ Sums(v)[i] \in Int /\ Weight(i) \in Nat
      BY <1>4, Weights
    <3>2. QED
      BY <3>1
  <2>2. c[i] = 0 /\ c[0] = 0 /\ b + c[i] * w = a + c[0]
    BY <1>1, <1>3, <2>1
  <2>3. b = a
    BY <2>2
  <2>4. QED
    BY <2>1, <2>3
<1>6. QED
  BY <1>5

(* The sums of what is added, or subtracted, in each place. *)
LEMMA SumsPlus ==
  ASSUME NEW u \in [Nat -> Int], NEW v \in [Nat -> Int], NEW w \in [Nat -> Int],
         \A i \in Nat : w[i] = u[i] + v[i]
  PROVE  \A i \in Nat : Sums(w)[i] = Sums(u)[i] + Sums(v)[i]
<1> DEFINE S == {i \in Nat : Sums(w)[i] = Sums(u)[i] + Sums(v)[i]}
<1>1. 0 \in S
  BY SumsUnfold
<1>2. ASSUME NEW i \in S PROVE i + 1 \in S
  <2>1. PICK f \in Int, g \in Int, p \in Int, q \in Int, z \in Nat :
          /\ Sums(u)[i] = f /\ Sums(v)[i] = g /\ u[i] = p /\ v[i] = q
          /\ Weight(i) = z
    <3>1. Sums(u) \in [Nat -> Int] /\ Sums(v) \in [Nat -> Int]
      BY SumsUnfold
    <3>2. /\ Sums(u)[i] \in Int /\ Sums(v)[i] \in Int /\ u[i] \in Int
          /\ v[i] \in Int /\ Weight(i) \in Nat
      BY <3>1, Weights
    <3>3. QED
      BY <3>2
  <2>2. /\ Sums(u)[i + 1] = f + p * z /\ Sums(v)[i + 1] = g + q * z
        /\ Sums(w)[i + 1] = (f + g) + (p + q) * z
    BY <2>1, SumsUnfold
  <2>3. (f + g) + (p + q) * z = (f + p * z) + (g + q * z)
    OBVIOUS
  <2>4. QED
    BY <2>2, <2>3
<1> HIDE DEF S
<1>3. S = Nat
  BY <1>1, <1>2, SetInduction DEF S
<1>4. QED
  BY <1>3 DEF S

(* The sums of what is multiplied in each place. *)
LEMMA SumsTimes ==
  ASSUME NEW u \in [Nat -> Int], NEW w \in [Nat -> Int], NEW a \in Int,
         \A i \in Nat : w[i] = a * u[i]
  PROVE  \A i \in Nat : Sums(w)[i] = a * Sums(u)[i]
<1> DEFINE S == {i \in Nat : Sums(w)[i] = a * Sums(u)[i]}
<1>1. 0 \in S
  BY SumsUnfold
<1>2. ASSUME NEW i \in S PROVE i + 1 \in S
  <2>1. PICK f \in Int, p \in Int, z \in Nat :
          Sums(u)[i] = f /\ u[i] = p /\ Weight(i) = z
    <3>1. Sums(u) \in [Nat -> Int]
      BY SumsUnfold
    <3>2. Sums(u)[i] \in Int /\ u[i] \in Int /\ Weight(i) \in Nat
      BY <3>1, Weights
    <3>3. QED
      BY <3>2
  <2>2. /\ Sums(u)[i + 1] = f + p * z
        /\ Sums(w)[i + 1] = a * f + (a * p) * z
    BY <2>1, SumsUnfold
  <2>3. a * f + (a * p) * z = a * (f + p * z)
    OBVIOUS
  <2>4. QED
    BY <2>2, <2>3
<1> HIDE DEF S
<1>3. S = Nat
  BY <1>1, <1>2, SetInduction DEF S
<1>4. QED
  BY <1>3 DEF S

(* Zeros add nothing. *)
LEMMA SumsSettle ==
  ASSUME NEW u \in [Nat -> Int], NEW m \in Nat, \A i \in Nat : i >= m => u[i] = 0
  PROVE  \A i \in Nat : i >= m => Sums(u)[i] = Sums(u)[m]
<1> DEFINE S == {k \in Nat : Sums(u)[m + k] = Sums(u)[m]}
<1>1. 0 \in S
  OBVIOUS
<1>2. ASSUME NEW k \in S PROVE k + 1 \in S
  <2>1. m + k \in Nat /\ m + k >= m /\ m + (k + 1) = (m + k) + 1
    OBVIOUS
  <2>2. /\ Sums(u)[(m + k) + 1] = Sums(u)[m + k] + u[m + k] * Weight(m + k)
        /\ Sums(u)[m + k] \in Int /\ Weight(m + k) \in Nat /\ u[m + k] = 0
    BY <2>1, SumsUnfold, Weights
  <2>3. QED
    BY <2>1, <2>2
<1> HIDE DEF S
<1>3. S = Nat
  BY <1>1, <1>2, SetInduction DEF S
<1>4. ASSUME NEW i \in Nat, i >= m PROVE Sums(u)[i] = Sums(u)[m]
  <2>1. i - m \in S /\ m + (i - m) = i
    BY <1>3, <1>4
  <2>2. QED
    BY <2>1 DEF S
<1>5. QED
  BY <1>4

(* The numbers from place k on, summed with their own weights. *)
LEMMA SumsSplit ==
  ASSUME NEW u \in [Nat -> Int], NEW v \in [Nat -> Int], NEW k \in Nat,
         \A i \in Nat : v[i] = u[i + k]
  PROVE  \A i \in Nat : Sums(u)[i + k] = Sums(u)[k] + Weight(k) * Sums(v)[i]
<1> DEFINE S == {i \in Nat : Sums(u)[i + k] = Sums(u)[k] + Weight(k) * Sums(v)[i]}
<1>1. 0 \in S
  <2>1. PICK a \in Int, w \in Int : Sums(u)[k] = a /\ Weight(k) = w
    <3>1. Sums(u) \in [Nat -> Int]
      BY SumsUnfold
    <3>2. QED
      BY <3>1, Weights
  <2>2. Sums(v)[0] = 0 /\ 0 + k = k
    BY SumsUnfold
  <2>3. a = a + w * 0
    OBVIOUS
  <2>4. QED
    BY <2>1, <2>2, <2>3
<1>2. ASSUME NEW i \in S PROVE i + 1 \in S
  <2>1. i + k \in Nat /\ (i + 1) + k = (i + k) + 1
    OBVIOUS
  <2>2. PICK a \in Int, f \in Int, p \in Int, w \in Nat, z \in Nat :
          /\ Sums(u)[k] = a /\ Sums(v)[i] = f /\ v[i] = p
          /\ Weight(k) = w /\ Weight(i) = z
    <3>1. Sums(u) \in [Nat -> Int] /\ Sums(v) \in [Nat -> Int]
      BY SumsUnfold
    <3>2. /\ Sums(u)[k] \in Int /\ Sums(v)[i] \in Int /\ v[i] \in Int
          /\ Weight(k) \in Nat /\ Weight(i) \in Nat
      BY <3>1, Weights
    <3>3. QED
      BY <3>2
  <2>3. /\ Sums(u)[(i + k) + 1] = Sums(u)[i + k] + u[i + k] * Weight(i + k)
        /\ Sums(v)[i + 1] = f + p * z
        /\ Weight(i + k) = z * w /\ u[i + k] = p
    BY <2>1, <2>2, SumsUnfold, WeightSum
  <2>4. Sums(u)[i + k] = a + w * f
    BY <2>2
  <2>5. (a + w * f) + p * (z * w) = a + w * (f + p * z)
    OBVIOUS
  <2>6. Sums(u)[(i + 1) + k] = a + w * (f + p * z)
    BY <2>1, <2>3, <2>4, <2>5
  <2>7. QED
    BY <2>2, <2>3, <2>6
<1> HIDE DEF S
<1>3. S = Nat
  BY <1>1, <1>2, SetInduction DEF S
<1>4. QED
  BY <1>3 DEF S

(* Digits sum to less than the next weight. *)
LEMMA SumsBound ==
  ASSUME NEW u \in [Nat -> Digit]
  PROVE  \A i \in Nat : Sums(u)[i] \in 0 .. Weight(i) - 1
<1>1. u \in [Nat -> Int]
  BY RadixPositive DEF Digit
<1> DEFINE S == {i \in Nat : Sums(u)[i] \in 0 .. Weight(i) - 1}
<1>2. 0 \in S
  <2>1. Sums(u)[0] = 0
    BY <1>1, SumsUnfold
  <2>2. Weight(0) = 1
    BY Weights
  <2>3. QED
    BY <2>1, <2>2
<1>3. ASSUME NEW i \in S PROVE i + 1 \in S
  <2>1. PICK w \in Nat \ {0}, R \in Nat \ {0} : Weight(i) = w /\ DigitRadix = R
    BY Weights, RadixPositive
  <2>2. PICK s \in 0 .. w - 1 : Sums(u)[i] = s
    BY <2>1
  <2>3. PICK d \in 0 .. R - 1 : u[i] = d
    BY <2>1 DEF Digit
  <2>4. Sums(u)[i + 1] = s + d * w /\ Weight(i + 1) = w * R
    BY <1>1, <2>1, <2>2, <2>3, SumsUnfold, Weights
  <2>5. s + d * w \in 0 .. w * R - 1
    <3>1. d * w \in Nat /\ d * w <= (R - 1) * w /\ (R - 1) * w = w * R - w
      OBVIOUS
    <3>2. QED
      BY <3>1
  <2>6. QED
    BY <2>4, <2>5
<1> HIDE DEF S
<1>4. S = Nat
  BY <1>2, <1>3, SetInduction DEF S
<1>5. QED
  BY <1>4 DEF S

-----------------------------------------------------------------------------
(***************************************************************************)
(* Magnitudes.                                                             *)
(***************************************************************************)
(* An object's words are digits; the digits in use are all that is not zero. *)
LEMMA WordsAreDigits ==
  ASSUME NEW x, IsNumber(x)
  PROVE  Words(x) \in [Nat -> Digit] /\ Words(x) \in [Nat -> Int]
<1>1. x.size \in Nat /\ \A i \in 0 .. x.size - 1 : x.dig[i] \in Digit
  BY Fields
<1>2. ASSUME NEW i \in Nat PROVE Words(x)[i] \in Digit
  BY <1>1, <1>2, RadixPositive DEF Words
<1>3. Words(x) = [i \in Nat |-> Words(x)[i]]
  BY DEF Words
<1>4. Words(x) \in [Nat -> Digit]
  <2> DEFINE w == Words(x)
  <2>1. w = [i \in Nat |-> w[i]] /\ \A i \in Nat : w[i] \in Digit
    BY <1>2, <1>3
  <2> HIDE DEF w
  <2>2. w \in [Nat -> Digit]
    BY <2>1
  <2>3. QED
    BY <2>2 DEF w
<1>5. Digit \subseteq Int
  BY RadixPositive DEF Digit
<1>6. QED
  BY <1>4, <1>5

(* Above the digits in use the words are zero, as the loops read them. *)
LEMMA WordsAreDig ==
  ASSUME NEW x, Safe(x)
  PROVE  /\ \A i \in Nat : Words(x)[i] = Dig(x, i)
         /\ \A i \in Nat : i >= x.used => Words(x)[i] = 0
<1>1. x.size \in Nat /\ x.used \in Nat /\ x.used <= x.size
  BY Fields DEF Safe, UsedInVector
<1>2. \A i \in x.used .. x.size - 1 : x.dig[i] = 0
  BY DEF Safe, ClearAboveUsed
<1>3. ASSUME NEW i \in Nat PROVE Words(x)[i] = Dig(x, i)
  BY <1>1, <1>2 DEF Words, Dig
<1>4. QED
  BY <1>1, <1>3 DEF Dig

(* The magnitude is the sum of the words, as far as one likes above the *)
(* digits in use.                                                        *)
LEMMA MagnitudeIsSum ==
  ASSUME NEW x, Safe(x)
  PROVE  /\ \A i \in Nat : i >= x.used => Sums(Words(x))[i] = Magnitude(x)
         /\ Magnitude(x) \in 0 .. Weight(x.used) - 1
         /\ Magnitude(x) \in Nat
<1> DEFINE D == [i \in Nat |-> x.dig[i] * Pow2[DigitBits * i]]
           Body(g) == [i \in Nat |->
                         IF i = 0 THEN 0
                         ELSE g[i - 1] + x.dig[i - 1] * Pow2[DigitBits * (i - 1)]]
           m == CHOOSE g : g = Body(g)
           s == Sums(Words(x))
<1>0. \A i \in Nat : D[i] = x.dig[i] * Pow2[DigitBits * i]
  OBVIOUS
<1> HIDE DEF D
<1>1. PICK f : f = [i \in Nat |-> IF i = 0 THEN 0 ELSE f[i - 1] + D[i - 1]]
  BY SumSolves
<1>2. f = Body(f)
  <2>1. ASSUME NEW i \in Nat, i # 0
        PROVE  f[i] = f[i - 1] + x.dig[i - 1] * Pow2[DigitBits * (i - 1)]
    <3>1. i - 1 \in Nat /\ f[i] = f[i - 1] + D[i - 1]
      BY <1>1, <2>1
    <3>2. D[i - 1] = x.dig[i - 1] * Pow2[DigitBits * (i - 1)]
      BY <3>1, <1>0
    <3>3. QED
      BY <3>1, <3>2, Zenon
  <2>2. f = [i \in Nat |-> f[i]] /\ f[0] = 0
    BY <1>1
  <2>3. QED
    BY <2>1, <2>2
<1>3. m = Body(m)
  BY <1>2
<1>4. Magnitude(x) = m[x.used]
  BY DEF Magnitude
<1> HIDE DEF m
<1>5. m[0] = 0 /\ \A i \in Nat : m[i + 1] = m[i] + x.dig[i] * Weight(i)
  <2>1. m[0] = 0
    BY <1>3
  <2>2. ASSUME NEW i \in Nat PROVE m[i + 1] = m[i] + x.dig[i] * Weight(i)
    <3>1. i + 1 \in Nat /\ i + 1 # 0 /\ (i + 1) - 1 = i
      OBVIOUS
    <3>2. m[i + 1] = m[(i + 1) - 1]
                       + x.dig[(i + 1) - 1] * Pow2[DigitBits * ((i + 1) - 1)]
      BY <1>3, <3>1, Zenon
    <3>3. QED
      BY <3>1, <3>2, Zenon DEF Weight
  <2>3. QED
    BY <2>1, <2>2
<1>6. x.used \in Nat /\ x.size \in Nat /\ x.used <= x.size
  BY Fields DEF Safe, UsedInVector
<1>7. Words(x) \in [Nat -> Digit] /\ Words(x) \in [Nat -> Int]
  BY WordsAreDigits DEF Safe
<1>8. s \in [Nat -> Int] /\ s[0] = 0 /\ \A i \in Nat : s[i + 1] = s[i] + Words(x)[i] * Weight(i)
  BY <1>7, SumsUnfold
<1>9. \A i \in Nat : i < x.used => Words(x)[i] = x.dig[i]
  BY <1>6 DEF Words
<1> DEFINE S == {i \in Nat : i <= x.used => s[i] = m[i]}
<1>10. 0 \in S
  BY <1>5, <1>8
<1>11. ASSUME NEW i \in S PROVE i + 1 \in S
  <2>1. SUFFICES ASSUME i + 1 <= x.used PROVE s[i + 1] = m[i + 1]
    OBVIOUS
  <2>2. i \in Nat /\ i < x.used /\ s[i] = m[i]
    BY <2>1, <1>6
  <2>3. QED
    BY <2>2, <1>5, <1>8, <1>9
<1> HIDE DEF S, s
<1>12. S = Nat
  BY <1>10, <1>11, SetInduction DEF S
<1>13. s[x.used] = Magnitude(x)
  BY <1>4, <1>6, <1>12 DEF S
<1>14. \A i \in Nat : i >= x.used => Words(x)[i] = 0
  BY WordsAreDig
<1>15. \A i \in Nat : i >= x.used => s[i] = s[x.used]
  BY <1>6, <1>7, <1>14, SumsSettle DEF s
<1>16. s[x.used] \in 0 .. Weight(x.used) - 1
  BY <1>6, <1>7, SumsBound DEF s
<1>17. s[x.used] \in Nat
  BY <1>6, <1>16, Weights
<1>18. QED
  BY <1>13, <1>15, <1>16, <1>17 DEF s

(* Objects with the same words have the same magnitude. *)
LEMMA SameWords ==
  ASSUME NEW x, Safe(x), NEW z, Safe(z),
         \A i \in Nat : Words(z)[i] = Words(x)[i]
  PROVE  Magnitude(z) = Magnitude(x)
<1>1. x.used \in Nat /\ z.used \in Nat
  BY Fields DEF Safe
<1>2. Words(x) = Words(z)
  BY DEF Words
<1>3. PICK i \in Nat : i >= x.used /\ i >= z.used
  <2>1. x.used + z.used \in Nat /\ x.used + z.used >= x.used /\ x.used + z.used >= z.used
    BY <1>1
  <2>2. QED
    BY <2>1
<1>4. QED
  BY <1>2, <1>3, MagnitudeIsSum

(* A leading digit that is not zero puts the magnitude at its weight or above. *)
LEMMA MagnitudeAtLeast ==
  ASSUME NEW x, Safe(x), LeadingNonzero(x), x.used > 0
  PROVE  Magnitude(x) >= Weight(x.used - 1)
<1>1. PICK n \in Nat : x.used = n + 1
  <2>1. x.used - 1 \in Nat /\ x.used = (x.used - 1) + 1
    BY Fields DEF Safe
  <2>2. QED
    BY <2>1
<1>2. x.size \in Nat /\ n < x.size
  BY <1>1, Fields DEF Safe, UsedInVector
<1>3. Words(x) \in [Nat -> Digit] /\ Words(x) \in [Nat -> Int]
  BY WordsAreDigits DEF Safe
<1>4. Words(x)[n] # 0 /\ Words(x)[n] \in Digit
  BY <1>1, <1>2, <1>3 DEF LeadingNonzero, Words
<1>5. PICK d \in Nat \ {0} : Words(x)[n] = d
  BY <1>4, RadixPositive DEF Digit
<1>6. PICK w \in Nat \ {0} : Weight(n) = w
  BY Weights
<1>7. PICK s \in Nat : Sums(Words(x))[n] = s
  BY <1>3, <1>6, SumsBound
<1>8. Sums(Words(x))[n + 1] = s + d * w
  BY <1>3, <1>5, <1>6, <1>7, SumsUnfold
<1>9. Magnitude(x) = s + d * w
  BY <1>1, <1>8, MagnitudeIsSum
<1>10. d * w >= w
  OBVIOUS
<1>11. x.used - 1 = n
  BY <1>1
<1>12. QED
  BY <1>6, <1>9, <1>10, <1>11

(* The form in which every call leaves an object: Canonical, and Safe. *)
Proper(x) == Safe(x) /\ LeadingNonzero(x) /\ ZeroNonnegative(x)

(* A magnitude is zero when no digit is in use, and only then if the leading *)
(* digit is not zero.                                                        *)
LEMMA ZeroMagnitude ==
  ASSUME NEW x, Safe(x)
  PROVE  /\ x.used = 0 => Magnitude(x) = 0
         /\ LeadingNonzero(x) => (Magnitude(x) = 0 <=> x.used = 0)
<1>1. ASSUME x.used = 0 PROVE Magnitude(x) = 0
  BY <1>1, MagnitudeIsSum, Weights
<1>2. ASSUME LeadingNonzero(x), x.used # 0 PROVE Magnitude(x) # 0
  <2>1. x.used > 0 /\ x.used - 1 \in Nat
    BY <1>2, Fields DEF Safe
  <2>2. Magnitude(x) >= Weight(x.used - 1) /\ Weight(x.used - 1) \in Nat \ {0}
    BY <1>2, <2>1, MagnitudeAtLeast, Weights
  <2>3. Magnitude(x) \in Nat
    BY MagnitudeIsSum
  <2>4. QED
    BY <2>2, <2>3
<1>3. QED
  BY <1>1, <1>2

(* The sign and the magnitude of a proper object are those of its value. *)
LEMMA ProperValue ==
  ASSUME NEW x, Proper(x)
  PROVE  /\ Value(x) \in Int /\ Magnitude(x) \in Nat /\ x.neg \in BOOLEAN
         /\ x.neg <=> Value(x) < 0
         /\ Value(x) < 0 => Value(x) = -Magnitude(x)
         /\ Value(x) >= 0 => Value(x) = Magnitude(x)
         /\ Value(x) = 0 <=> x.used = 0
         /\ x.used = 0 <=> Magnitude(x) = 0
<1>1. x.neg \in BOOLEAN /\ Magnitude(x) \in Nat
  BY Fields, MagnitudeIsSum DEF Proper, Safe
<1>2. (Magnitude(x) = 0 <=> x.used = 0) /\ (x.used = 0 => x.neg = FALSE)
  BY <1>1, ZeroMagnitude DEF Proper, ZeroNonnegative, IsZero
<1>3. CASE x.neg
  BY <1>1, <1>2, <1>3 DEF Value
<1>4. CASE ~x.neg
  BY <1>1, <1>2, <1>4 DEF Value
<1>5. QED
  BY <1>3, <1>4

-----------------------------------------------------------------------------
(***************************************************************************)
(* Signs, clamping, capacity and assignment.                               *)
(***************************************************************************)
(* A change of sign alone changes neither words nor magnitude. *)
LEMMA SignedMagnitude ==
  ASSUME NEW x, Safe(x), NEW s \in BOOLEAN
  PROVE  LET z == [x EXCEPT !.neg = s]
         IN  /\ Safe(z) /\ Magnitude(z) = Magnitude(x)
             /\ z.neg = s /\ z.used = x.used /\ z.size = x.size /\ z.dig = x.dig
             /\ LeadingNonzero(x) => LeadingNonzero(z)
<1> DEFINE z == [x EXCEPT !.neg = s]
<1>1. Safe(z)
  BY SignedSafe
<1>2. z.neg = s /\ z.used = x.used /\ z.size = x.size /\ z.dig = x.dig
  BY Shape DEF Safe, IsNumber, Exactly
<1>3. \A i \in Nat : Words(z)[i] = Words(x)[i]
  BY <1>2 DEF Words
<1> HIDE DEF z
<1>4. Magnitude(z) = Magnitude(x)
  BY <1>1, <1>3, SameWords
<1>5. LeadingNonzero(x) => LeadingNonzero(z)
  BY <1>2 DEF LeadingNonzero
<1>6. QED
  BY <1>1, <1>2, <1>4, <1>5 DEF z

(* clamp makes an object proper and leaves its value. *)
LEMMA ClampExact ==
  ASSUME NEW x, Safe(x)
  PROVE  /\ Proper(Clamp(x)) /\ Value(Clamp(x)) = Value(x)
         /\ Magnitude(Clamp(x)) = Magnitude(x)
         /\ Magnitude(x) # 0 => Clamp(x).neg = x.neg
<1> DEFINE z == Clamp(x)
           u == ClampedUsed(x)
<1>1. /\ u \in 0 .. x.used /\ (u > 0 => x.dig[u - 1] # 0)
      /\ \A i \in u .. x.used - 1 : x.dig[i] = 0
  BY ClampedUsedExists DEF Safe
<1>2. Safe(z)
  BY ClampSafe
<1>3. z.used = u /\ z.size = x.size /\ z.dig = x.dig /\ z.neg = (x.neg /\ u # 0)
  BY Shape DEF Clamp, Safe, IsNumber, Exactly
<1> HIDE DEF z, u
<1>4. \A i \in Nat : Words(z)[i] = Words(x)[i]
  BY <1>3 DEF Words
<1>5. Magnitude(z) = Magnitude(x)
  BY <1>2, <1>4, SameWords
<1>6. LeadingNonzero(z)
  BY <1>1, <1>3 DEF LeadingNonzero
<1>7. ZeroNonnegative(z)
  BY <1>3 DEF ZeroNonnegative, IsZero
<1>8. (Magnitude(z) = 0 <=> u = 0) /\ Magnitude(z) \in Nat
  BY <1>2, <1>3, <1>6, ZeroMagnitude, MagnitudeIsSum
<1>9. x.neg \in BOOLEAN
  BY Fields DEF Safe
<1>10. Value(z) = Value(x)
  <2>1. CASE u = 0
    BY <2>1, <1>3, <1>5, <1>8 DEF Value
  <2>2. CASE u # 0
    <3>1. z.neg = x.neg
      BY <2>2, <1>3, <1>9
    <3>2. QED
      BY <3>1, <1>5 DEF Value
  <2>3. QED
    BY <2>1, <2>2
<1>11. Magnitude(x) # 0 => z.neg = x.neg
  BY <1>3, <1>5, <1>8, <1>9
<1>12. QED
  BY <1>2, <1>5, <1>6, <1>7, <1>10, <1>11 DEF Proper, z

(* abs, negate and zero. *)
LEMMA AbsExact ==
  ASSUME NEW x, Proper(x)
  PROVE  Proper(Abs(x)) /\ Value(Abs(x)) = Magnitude(x)
<1>1. Safe(x) /\ LeadingNonzero(x)
  BY DEF Proper
<1>2. /\ Safe(Abs(x)) /\ Magnitude(Abs(x)) = Magnitude(x) /\ Abs(x).neg = FALSE
      /\ LeadingNonzero(Abs(x))
  BY <1>1, SignedMagnitude DEF Abs
<1>3. QED
  BY <1>2 DEF Proper, ZeroNonnegative, Value

(* negate changes the sign of every value, zero included. *)
LEMMA NegateExact ==
  ASSUME NEW x, Proper(x)
  PROVE  Proper(Negate(x)) /\ Value(Negate(x)) = -Value(x)
<1> DEFINE s == ~IsZero(x) /\ ~x.neg
<1>1. Safe(x) /\ LeadingNonzero(x) /\ s \in BOOLEAN
  BY DEF Proper
<1> HIDE DEF s
<1>2. LET z == [x EXCEPT !.neg = s]
      IN  /\ Safe(z) /\ Magnitude(z) = Magnitude(x) /\ z.neg = s /\ z.used = x.used
          /\ LeadingNonzero(z)
  BY <1>1, SignedMagnitude
<1>3. /\ Safe(Negate(x)) /\ Magnitude(Negate(x)) = Magnitude(x) /\ Negate(x).neg = s
      /\ LeadingNonzero(Negate(x)) /\ Negate(x).used = x.used
  BY <1>2 DEF Negate, s
<1>4. ZeroNonnegative(Negate(x))
  BY <1>3 DEF ZeroNonnegative, IsZero, s
<1>5. /\ x.neg \in BOOLEAN /\ Magnitude(x) \in Nat /\ (x.used = 0 <=> Magnitude(x) = 0)
      /\ (x.used = 0 => ~x.neg)
  BY ProperValue DEF Proper, ZeroNonnegative, IsZero
<1>6. Value(Negate(x)) = -Value(x)
  <2>1. CASE x.used = 0
    BY <2>1, <1>3, <1>5 DEF Value, s, IsZero
  <2>2. CASE x.used # 0
    <3>1. s <=> ~x.neg
      BY <2>2 DEF s, IsZero
    <3>2. PICK m \in Nat : Magnitude(x) = m
      BY <1>5
    <3>3. CASE x.neg
      <4>1. Value(Negate(x)) = m /\ Value(x) = -m
        BY <1>3, <3>1, <3>2, <3>3 DEF Value
      <4>2. QED
        BY <4>1
    <3>4. CASE ~x.neg
      <4>1. Value(Negate(x)) = -m /\ Value(x) = m
        BY <1>3, <3>1, <3>2, <3>4 DEF Value
      <4>2. QED
        BY <4>1
    <3>5. QED
      BY <3>3, <3>4
  <2>3. QED
    BY <2>1, <2>2
<1>7. QED
  BY <1>3, <1>4, <1>6 DEF Proper

(* zero makes any object, in form or not, a proper zero. *)
LEMMA ZeroExact ==
  ASSUME NEW x, Safe(x)
  PROVE  Proper(Zero(x)) /\ Value(Zero(x)) = 0 /\ Magnitude(Zero(x)) = 0
<1>1. Safe(Zero(x)) /\ Zero(x).used = 0
  BY ZeroSafe DEF Safe
<1>2. Zero(x).neg = FALSE
  BY Shape DEF Zero, Safe, IsNumber, Exactly
<1>3. Magnitude(Zero(x)) = 0
  BY <1>1, ZeroMagnitude
<1>4. QED
  BY <1>1, <1>2, <1>3 DEF Proper, LeadingNonzero, ZeroNonnegative, Value

(* grow changes no value. *)
LEMMA GrowWords ==
  ASSUME NEW x, Safe(x), NEW c \in Nat
  PROVE  /\ Safe(Grow(x, c)) /\ Grow(x, c).size >= c /\ Grow(x, c).size >= x.size
         /\ Grow(x, c).neg = x.neg /\ Grow(x, c).used = x.used
         /\ \A i \in Nat : Words(Grow(x, c))[i] = Words(x)[i]
         /\ Magnitude(Grow(x, c)) = Magnitude(x)
<1> DEFINE g == Grow(x, c)
<1>1. /\ Safe(g) /\ g.size >= c /\ g.size >= x.size /\ g.neg = x.neg /\ g.used = x.used
      /\ \A i \in 0 .. x.size - 1 : g.dig[i] = x.dig[i]
  BY GrowSafe DEF Safe
<1> HIDE DEF g
<1>2. /\ x.used \in Nat /\ x.used <= x.size /\ x.size \in Nat /\ g.size \in Nat
  BY <1>1, Fields DEF Safe, UsedInVector
<1>3. ASSUME NEW i \in Nat PROVE Words(g)[i] = Words(x)[i]
  <2>1. CASE i < x.used
    BY <1>1, <1>2, <2>1 DEF Words
  <2>2. CASE i >= x.used
    <3>1. Words(g)[i] = 0
      BY <1>1, <2>2, WordsAreDig
    <3>2. Words(x)[i] = 0
      BY <2>2, WordsAreDig
    <3>3. QED
      BY <3>1, <3>2
  <2>3. QED
    BY <1>2, <2>1, <2>2
<1>4. Magnitude(g) = Magnitude(x)
  BY <1>1, <1>3, SameWords
<1>5. QED
  BY <1>1, <1>3, <1>4 DEF g

(* grow keeps an object proper. *)
LEMMA GrowExact ==
  ASSUME NEW x, Proper(x), NEW c \in Nat
  PROVE  Proper(Grow(x, c)) /\ Value(Grow(x, c)) = Value(x)
<1> DEFINE g == Grow(x, c)
<1>1. /\ Safe(g) /\ g.neg = x.neg /\ g.used = x.used
      /\ \A i \in Nat : Words(g)[i] = Words(x)[i]
      /\ Magnitude(g) = Magnitude(x) /\ g.size >= x.size
  BY GrowWords DEF Proper
<1> HIDE DEF g
<1>2. LeadingNonzero(g)
  <2>1. SUFFICES ASSUME x.used > 0 PROVE g.dig[x.used - 1] # 0
    BY <1>1 DEF LeadingNonzero
  <2>2. /\ x.used \in Nat /\ x.used - 1 \in Nat /\ x.used <= x.size
        /\ x.size \in Nat /\ g.size \in Nat
    BY <1>1, <2>1, Fields DEF Proper, Safe, UsedInVector
  <2>3. x.dig[x.used - 1] # 0
    BY <2>1 DEF Proper, LeadingNonzero
  <2>4. Words(g)[x.used - 1] = g.dig[x.used - 1]
    BY <1>1, <2>2 DEF Words
  <2>5. Words(x)[x.used - 1] = x.dig[x.used - 1]
    BY <2>2 DEF Words
  <2>6. QED
    BY <1>1, <2>2, <2>3, <2>4, <2>5
<1>3. ZeroNonnegative(g)
  BY <1>1 DEF Proper, ZeroNonnegative, IsZero
<1>4. QED
  BY <1>1, <1>2, <1>3 DEF Proper, Value, g

(* operator=( const BigNum & ), into an object of any capacity. *)
LEMMA AssignExact ==
  ASSUME NEW x, Safe(x), NEW y, Proper(y)
  PROVE  /\ Proper(Assign(x, y)) /\ Value(Assign(x, y)) = Value(y)
         /\ Magnitude(Assign(x, y)) = Magnitude(y)
<1> DEFINE z == Assign(x, y)
           g == Grow(x, y.used)
<1>0. Safe(y)
  BY DEF Proper
<1>1. Safe(z) /\ z.used = y.used /\ z.neg = y.neg
  BY <1>0, AssignSafe
<1>2. y.used \in Nat /\ y.used <= y.size /\ y.size \in Nat
  BY <1>0, Fields DEF Safe, UsedInVector
<1>3. Safe(g) /\ g.size >= y.used /\ g.size \in Nat
  BY <1>2, GrowWords, Fields DEF Safe
<1>4. z.size = g.size /\ \A i \in 0 .. g.size - 1 : i < y.used => z.dig[i] = y.dig[i]
  <2>1. g \in Exactly(g.neg, g.used, g.size, g.dig)
    BY <1>3, Shape DEF Safe
  <2> HIDE DEF g
  <2>2. QED
    BY <2>1, <1>3 DEF Assign, Exactly, g
<1> HIDE DEF z, g
<1>5. ASSUME NEW i \in Nat, i < y.used PROVE z.dig[i] = y.dig[i] /\ Words(z)[i] = y.dig[i]
  BY <1>2, <1>3, <1>4, <1>5 DEF Words
<1>6. \A i \in Nat : Words(z)[i] = Words(y)[i]
  <2>1. ASSUME NEW i \in Nat, i >= y.used PROVE Words(z)[i] = Words(y)[i]
    BY <1>0, <1>1, <2>1, WordsAreDig
  <2>2. ASSUME NEW i \in Nat, i < y.used PROVE Words(z)[i] = Words(y)[i]
    BY <1>2, <1>5, <2>2 DEF Words
  <2>3. QED
    BY <1>2, <2>1, <2>2
<1>7. Magnitude(z) = Magnitude(y)
  BY <1>0, <1>1, <1>6, SameWords
<1>8. LeadingNonzero(z) /\ ZeroNonnegative(z)
  BY <1>1, <1>2, <1>5 DEF Proper, LeadingNonzero, ZeroNonnegative, IsZero
<1>9. QED
  BY <1>1, <1>7, <1>8 DEF Proper, Value, z

(* operator=( digit_t ): what is above the mask is cut off. *)
LEMMA AssignDigitExact ==
  ASSUME NEW x, Safe(x), NEW e \in Nat
  PROVE  /\ Proper(AssignDigit(x, e))
         /\ Value(AssignDigit(x, e)) = e % DigitRadix
<1> DEFINE z == AssignDigit(x, e)
           d == e % DigitRadix
<1>1. Safe(z)
  BY AssignDigitSafe
<1>2. d \in Digit
  BY ModDigit
<1>3. z.neg = FALSE /\ z.used = (IF d # 0 THEN 1 ELSE 0) /\ z.size = x.size /\ z.dig[0] = d
  <2>1. x.size \in Nat /\ x.size > 0 /\ 0 \in 0 .. x.size - 1
    BY Fields DEF Safe
  <2>2. x \in Exactly(x.neg, x.used, x.size, x.dig)
    BY Shape DEF Safe
  <2>3. QED
    BY <2>1, <2>2 DEF AssignDigit, Zero, Exactly
<1> HIDE DEF z
<1>4. x.size \in Nat /\ x.size > 0
  BY Fields DEF Safe
<1>5. Words(z) \in [Nat -> Int] /\ Words(z)[0] = d
  BY <1>1, <1>3, <1>4, WordsAreDigits DEF Words, Safe
<1>6. d \in Nat
  BY <1>2, RadixPositive DEF Digit
<1> HIDE DEF d
<1>7. Sums(Words(z))[0 + 1] = 0 + d * 1
  BY <1>5, SumsUnfold, Weights
<1>8. Magnitude(z) = d
  <2>1. 0 + 1 >= z.used /\ 0 + 1 \in Nat /\ 0 + d * 1 = d
    BY <1>3, <1>6
  <2>2. QED
    BY <1>1, <1>7, <2>1, MagnitudeIsSum
<1>9. LeadingNonzero(z) /\ ZeroNonnegative(z) /\ Value(z) = d
  BY <1>3, <1>8 DEF LeadingNonzero, ZeroNonnegative, Value
<1>10. QED
  BY <1>1, <1>9 DEF Proper, z, d

-----------------------------------------------------------------------------
(***************************************************************************)
(* Comparison.                                                             *)
(***************************************************************************)
(* Weights grow with the place. *)
LEMMA WeightsGrow ==
  ASSUME NEW i \in Nat, NEW j \in Nat, i <= j
  PROVE  Weight(i) <= Weight(j)
<1>1. PICK k \in Nat : j = i + k
  <2>1. j - i \in Nat /\ j = i + (j - i)
    OBVIOUS
  <2>2. QED
    BY <2>1
<1>2. PICK a \in Nat \ {0}, b \in Nat \ {0} : Weight(i) = a /\ Weight(k) = b
  BY Weights
<1>3. Weight(j) = a * b
  BY <1>1, <1>2, WeightSum
<1>4. a <= a * b
  OBVIOUS
<1>5. QED
  BY <1>2, <1>3, <1>4

(* The longer number is the greater, if its leading digit is not zero. *)
LEMMA LongerIsGreater ==
  ASSUME NEW x, Safe(x), LeadingNonzero(x), NEW y, Safe(y), x.used > y.used
  PROVE  Magnitude(x) > Magnitude(y)
<1>1. x.used \in Nat /\ y.used \in Nat /\ x.used - 1 \in Nat /\ y.used <= x.used - 1
  BY Fields DEF Safe
<1>2. x.used > 0
  BY <1>1
<1>3. PICK a \in Nat, b \in Nat : Weight(y.used) = a /\ Weight(x.used - 1) = b
  BY <1>1, Weights
<1>4. a <= b
  BY <1>1, <1>3, WeightsGrow
<1>5. Magnitude(x) >= b
  BY <1>2, <1>3, MagnitudeAtLeast
<1>6. Magnitude(y) \in 0 .. a - 1
  BY <1>3, MagnitudeIsSum
<1>7. Magnitude(x) \in Nat
  BY MagnitudeIsSum
<1>8. QED
  BY <1>4, <1>5, <1>6, <1>7

(* Where all digits above agree, the topmost one that differs decides. *)
LEMMA TopDigitDecides ==
  ASSUME NEW u \in [Nat -> Digit], NEW v \in [Nat -> Digit], NEW t \in Nat,
         u[t] > v[t], \A i \in Nat : i > t => u[i] = v[i]
  PROVE  \A i \in Nat : i > t => Sums(u)[i] > Sums(v)[i]
<1>1. u \in [Nat -> Int] /\ v \in [Nat -> Int]
  BY RadixPositive DEF Digit
<1>2. Sums(u) \in [Nat -> Int] /\ Sums(v) \in [Nat -> Int]
  BY <1>1, SumsUnfold
<1>3. Sums(u)[t + 1] > Sums(v)[t + 1]
  <2>1. PICK w \in Nat \ {0}, d \in Nat, e \in Nat :
          Weight(t) = w /\ u[t] = d /\ v[t] = e
    <3>1. u[t] \in Nat /\ v[t] \in Nat /\ Weight(t) \in Nat \ {0}
      BY RadixPositive, Weights DEF Digit
    <3>2. QED
      BY <3>1
  <2>2. Sums(u)[t] \in 0 .. w - 1 /\ Sums(v)[t] \in 0 .. w - 1
    BY <2>1, SumsBound
  <2>3. PICK a \in 0 .. w - 1, b \in 0 .. w - 1 : Sums(u)[t] = a /\ Sums(v)[t] = b
    BY <2>2
  <2>4. Sums(u)[t + 1] = a + d * w
    BY <1>1, <2>1, <2>3, SumsUnfold
  <2>5. Sums(v)[t + 1] = b + e * w
    BY <1>1, <2>1, <2>3, SumsUnfold
  <2>6. a + d * w > b + e * w
    <3>1. PICK f \in Nat : d = e + 1 + f
      <4>1. d - e - 1 \in Nat /\ d = e + 1 + (d - e - 1)
        BY <2>1
      <4>2. QED
        BY <4>1
    <3>2. d * w = e * w + w + f * w /\ f * w \in Nat /\ e * w \in Nat
      BY <3>1
    <3>3. QED
      BY <3>2
  <2>7. QED
    BY <2>4, <2>5, <2>6
<1> DEFINE S == {k \in Nat : Sums(u)[(t + 1) + k] > Sums(v)[(t + 1) + k]}
<1>4. 0 \in S
  BY <1>3
<1>5. ASSUME NEW k \in S PROVE k + 1 \in S
  <2>1. PICK i \in Nat : i = (t + 1) + k /\ (t + 1) + (k + 1) = i + 1 /\ i > t
    OBVIOUS
  <2>2. PICK a \in Int, b \in Int, p \in Int :
          Sums(u)[i] = a /\ Sums(v)[i] = b /\ u[i] * Weight(i) = p
    <3>1. Sums(u)[i] \in Int /\ Sums(v)[i] \in Int /\ u[i] \in Int /\ Weight(i) \in Int
      BY <1>1, <1>2, Weights
    <3>2. QED
      BY <3>1
  <2>3. Sums(u)[i + 1] = a + p
    BY <1>1, <2>2, SumsUnfold
  <2>4. Sums(v)[i + 1] = b + p
    <3>1. u[i] = v[i]
      BY <2>1
    <3>2. QED
      BY <1>1, <2>2, <3>1, SumsUnfold
  <2>5. a > b
    BY <2>1, <2>2
  <2>6. QED
    BY <2>1, <2>3, <2>4, <2>5
<1> HIDE DEF S
<1>6. S = Nat
  BY <1>4, <1>5, SetInduction DEF S
<1>7. ASSUME NEW i \in Nat, i > t PROVE Sums(u)[i] > Sums(v)[i]
  <2>1. i - (t + 1) \in S /\ (t + 1) + (i - (t + 1)) = i
    BY <1>6, <1>7
  <2>2. QED
    BY <2>1 DEF S
<1>8. QED
  BY <1>7

(* The same for two objects with as many digits in use. *)
LEMMA TopDigitGreater ==
  ASSUME NEW x, Safe(x), NEW y, Safe(y), x.used = y.used,
         NEW t \in 0 .. x.used - 1, x.dig[t] > y.dig[t],
         \A j \in 0 .. x.used - 1 : j > t => x.dig[j] = y.dig[j]
  PROVE  Magnitude(x) > Magnitude(y)
<1>1. /\ x.used \in Nat /\ x.used <= x.size /\ x.size \in Nat
      /\ y.used \in Nat /\ y.used <= y.size /\ y.size \in Nat
  BY Fields DEF Safe, UsedInVector
<1>2. Words(x) \in [Nat -> Digit] /\ Words(y) \in [Nat -> Digit]
  BY WordsAreDigits DEF Safe
<1>3. t \in Nat /\ Words(x)[t] > Words(y)[t]
  BY <1>1 DEF Words
<1>4. ASSUME NEW i \in Nat, i > t PROVE Words(x)[i] = Words(y)[i]
  <2>1. CASE i < x.used
    BY <1>1, <1>4, <2>1 DEF Words
  <2>2. CASE i >= x.used
    BY <1>1, <2>2, WordsAreDig
  <2>3. QED
    BY <1>1, <2>1, <2>2
<1>5. \A i \in Nat : i > t => Sums(Words(x))[i] > Sums(Words(y))[i]
  BY <1>2, <1>3, <1>4, TopDigitDecides
<1>6. x.used > t /\ x.used >= x.used /\ x.used >= y.used
  BY <1>1
<1>7. QED
  BY <1>1, <1>5, <1>6, MagnitudeIsSum

(* compareMagnitude, which looks at lengths and then digits from the top. *)
LEMMA CompareMagnitudeExact ==
  ASSUME NEW x, Proper(x), NEW y, Proper(y)
  PROVE  CompareMagnitude(x, y) =
           CASE Magnitude(x) < Magnitude(y) -> "LessThan"
             [] Magnitude(x) > Magnitude(y) -> "GreaterThan"
             [] OTHER -> "Equal"
<1> DEFINE Differ == {i \in 0 .. x.used - 1 : x.dig[i] # y.dig[i]}
           top == CHOOSE i \in Differ : \A j \in Differ : j <= i
<1>1. Safe(x) /\ LeadingNonzero(x) /\ Safe(y) /\ LeadingNonzero(y)
  BY DEF Proper
<1>2. /\ x.used \in Nat /\ y.used \in Nat
      /\ Magnitude(x) \in Nat /\ Magnitude(y) \in Nat
  BY <1>1, Fields, MagnitudeIsSum DEF Safe
<1>3. CASE x.used > y.used
  <2>1. CompareMagnitude(x, y) = "GreaterThan"
    BY <1>2, <1>3 DEF CompareMagnitude
  <2>2. Magnitude(x) > Magnitude(y)
    BY <1>1, <1>3, LongerIsGreater
  <2>3. QED
    BY <1>2, <2>1, <2>2
<1>4. CASE x.used < y.used
  <2>1. CompareMagnitude(x, y) = "LessThan"
    BY <1>2, <1>4 DEF CompareMagnitude
  <2>2. Magnitude(y) > Magnitude(x)
    <3>1. y.used > x.used
      BY <1>2, <1>4
    <3>2. QED
      BY <1>1, <3>1, LongerIsGreater
  <2>3. QED
    BY <1>2, <2>1, <2>2
<1>5. CASE x.used = y.used /\ Differ = {}
  <2>1. CompareMagnitude(x, y) = "Equal"
    BY <1>2, <1>5 DEF CompareMagnitude
  <2>2. Magnitude(x) = Magnitude(y)
    <3>1. x.size \in Nat /\ y.size \in Nat /\ x.used <= x.size /\ y.used <= y.size
      BY <1>1, Fields DEF Safe, UsedInVector
    <3>2. ASSUME NEW i \in Nat PROVE Words(x)[i] = Words(y)[i]
      <4>1. CASE i < x.used
        BY <1>2, <1>5, <3>1, <4>1 DEF Words
      <4>2. CASE i >= x.used
        BY <1>1, <1>5, <4>2, WordsAreDig
      <4>3. QED
        BY <1>2, <4>1, <4>2
    <3>3. QED
      BY <1>1, <3>2, SameWords
  <2>3. QED
    BY <1>2, <2>1, <2>2
<1>6. CASE x.used = y.used /\ Differ # {}
  <2>1. CompareMagnitude(x, y) = IF x.dig[top] > y.dig[top] THEN "GreaterThan" ELSE "LessThan"
    BY <1>2, <1>6 DEF CompareMagnitude
  <2>2. top \in Differ /\ \A j \in Differ : j <= top
    <3>1. Differ \in SUBSET (0 .. x.used - 1)
      OBVIOUS
    <3> HIDE DEF Differ
    <3>2. \E i \in Differ : \A j \in Differ : j <= i
      BY <1>2, <1>6, <3>1, GreatestExists
    <3>3. QED
      BY <3>2
  <2> HIDE DEF top
  <2>3. top \in 0 .. x.used - 1 /\ x.dig[top] # y.dig[top]
    BY <2>2
  <2>4. x.dig[top] \in Nat /\ y.dig[top] \in Nat
    <3>1. top \in 0 .. x.size - 1 /\ top \in 0 .. y.size - 1
      BY <1>1, <1>6, <2>3, Fields DEF Safe, UsedInVector
    <3>2. QED
      BY <1>1, <3>1, Fields DEF Safe
  <2>5. \A j \in 0 .. x.used - 1 : j > top => x.dig[j] = y.dig[j]
    BY <1>2, <2>2, <2>3
  <2> HIDE DEF Differ
  <2>6. CASE x.dig[top] > y.dig[top]
    <3>1. Magnitude(x) > Magnitude(y)
      BY <1>1, <1>6, <2>3, <2>5, <2>6, TopDigitGreater
    <3>2. QED
      BY <1>2, <2>1, <2>6, <3>1
  <2>7. CASE y.dig[top] > x.dig[top]
    <3>1. Magnitude(y) > Magnitude(x)
      BY <1>1, <1>6, <2>3, <2>5, <2>7, TopDigitGreater
    <3>2. ~(x.dig[top] > y.dig[top])
      BY <2>4, <2>7
    <3>3. QED
      BY <1>2, <2>1, <3>1, <3>2
  <2>8. QED
    BY <2>3, <2>4, <2>6, <2>7
<1>7. QED
  BY <1>2, <1>3, <1>4, <1>5, <1>6

(* compare, which looks at the signs first. *)
LEMMA CompareIsOrder ==
  ASSUME NEW x, Proper(x), NEW y, Proper(y)
  PROVE  Compare(x, y) = CASE Value(x) < Value(y) -> "LessThan"
                           [] Value(x) > Value(y) -> "GreaterThan"
                           [] OTHER -> "Equal"
<1> DEFINE Order(a, b) == CASE a < b -> "LessThan"
                            [] a > b -> "GreaterThan"
                            [] OTHER -> "Equal"
<1>1. /\ x.neg \in BOOLEAN /\ y.neg \in BOOLEAN
      /\ CompareMagnitude(x, y) = Order(Magnitude(x), Magnitude(y))
      /\ CompareMagnitude(y, x) = Order(Magnitude(y), Magnitude(x))
  BY ProperValue, CompareMagnitudeExact
<1>2. PICK a \in Nat, b \in Nat : Magnitude(x) = a /\ Magnitude(y) = b
  BY ProperValue
<1>3. /\ Value(x) = IF x.neg THEN -a ELSE a
      /\ Value(y) = IF y.neg THEN -b ELSE b
  BY <1>2 DEF Value
<1>4. (x.neg => a # 0) /\ (y.neg => b # 0)
  BY <1>2, ProperValue DEF Proper, ZeroNonnegative, IsZero
<1>5. CASE x.neg /\ ~y.neg
  <2>1. Compare(x, y) = "LessThan"
    BY <1>5 DEF Compare
  <2>2. -a < b
    BY <1>4, <1>5
  <2>3. QED
    BY <1>3, <1>5, <2>1, <2>2
<1>6. CASE ~x.neg /\ y.neg
  <2>1. Compare(x, y) = "GreaterThan"
    BY <1>6 DEF Compare
  <2>2. a > -b
    BY <1>4, <1>6
  <2>3. QED
    BY <1>3, <1>6, <2>1, <2>2
<1>7. CASE x.neg /\ y.neg
  <2>1. Compare(x, y) = Order(b, a)
    BY <1>1, <1>2, <1>7 DEF Compare
  <2>2. (b < a <=> -a < -b) /\ (b > a <=> -a > -b)
    OBVIOUS
  <2>3. QED
    BY <1>3, <1>7, <2>1, <2>2
<1>8. CASE ~x.neg /\ ~y.neg
  <2>1. Compare(x, y) = Order(a, b)
    BY <1>1, <1>2, <1>8 DEF Compare
  <2>2. QED
    BY <1>3, <1>8, <2>1
<1>9. QED
  BY <1>1, <1>5, <1>6, <1>7, <1>8

-----------------------------------------------------------------------------
(***************************************************************************)
(* Addition and subtraction.                                               *)
(***************************************************************************)
(* A loop over more digits than the result has: its magnitude is the sum of *)
(* what went in, up to the carries.                                         *)
LEMMA ChainExact ==
  ASSUME NEW z, Safe(z), NEW m \in Nat, z.used <= m, NEW u \in [Nat -> Int],
         NEW c, \A i \in 0 .. m : c[i] \in Int,
         \A i \in 0 .. m - 1 : Words(z)[i] + DigitRadix * c[i + 1] = u[i] + c[i]
  PROVE  Magnitude(z) + c[m] * Weight(m) = Sums(u)[m] + c[0]
<1>1. Words(z) \in [Nat -> Int]
  BY WordsAreDigits DEF Safe
<1> DEFINE w == Words(z)
<1>2. w \in [Nat -> Int] /\ \A i \in 0 .. m - 1 : w[i] + DigitRadix * c[i + 1] = u[i] + c[i]
  BY <1>1
<1>3. Sums(w)[m] = Magnitude(z)
  BY MagnitudeIsSum
<1> HIDE DEF w
<1>4. \A i \in 0 .. m : Sums(w)[i] + c[i] * Weight(i) = Sums(u)[i] + c[0]
  BY <1>2, CarryChain
<1>5. QED
  BY <1>3, <1>4

(* The same when the digits are scaled, as a shift to the right needs. *)
LEMMA ScaledChain ==
  ASSUME NEW z, Safe(z), NEW m \in Nat, z.used <= m, NEW u \in [Nat -> Int],
         NEW P \in Nat,
         NEW c, \A i \in 0 .. m : c[i] \in Int,
         \A i \in 0 .. m - 1 :
           P * Words(z)[i] + DigitRadix * c[i + 1] = u[i] + c[i]
  PROVE  P * Magnitude(z) + c[m] * Weight(m) = Sums(u)[m] + c[0]
<1> DEFINE s == Words(z)
           v == [i \in Nat |-> P * s[i]]
<1>1. s \in [Nat -> Int]
  BY WordsAreDigits DEF Safe
<1>2. v \in [Nat -> Int] /\ \A i \in Nat : v[i] = P * s[i]
  BY <1>1
<1>3. Sums(s)[m] = Magnitude(z)
  BY MagnitudeIsSum
<1> HIDE DEF v
<1>4. \A i \in 0 .. m - 1 : v[i] + DigitRadix * c[i + 1] = u[i] + c[i]
  BY <1>2
<1> HIDE DEF s
<1>5. \A i \in 0 .. m : Sums(v)[i] + c[i] * Weight(i) = Sums(u)[i] + c[0]
  BY <1>2, <1>4, CarryChain
<1>6. Sums(v)[m] = P * Sums(s)[m]
  <2>1. \A i \in Nat : Sums(v)[i] = P * Sums(s)[i]
    <3>1. /\ s \in [Nat -> Int] /\ v \in [Nat -> Int] /\ P \in Int
          /\ \A i \in Nat : v[i] = P * s[i]
      BY <1>1, <1>2
    <3>2. QED
      BY <3>1, SumsTimes
  <2>2. QED
    BY <2>1
<1>7. QED
  BY <1>3, <1>5, <1>6

(* A digit has no quotient by the radix. *)
LEMMA DigitDiv ==
  ASSUME NEW d \in Digit
  PROVE  d \div DigitRadix = 0 /\ d % DigitRadix = d
<1>1. PICK R \in Nat \ {0} : DigitRadix = R
  BY RadixPositive
<1>2. d \in Int /\ 0 <= d /\ d < R /\ d = R * 0 + d
  BY <1>1 DEF Digit
<1>3. d % R = d /\ d \div R = 0
  BY <1>2, DivModUnique
<1>4. QED
  BY <1>1, <1>3

(* What a step of a carry loop leaves and what it carries make up the whole. *)
LEMMA Whole ==
  ASSUME NEW R \in Nat \ {0}, NEW a \in Int
  PROVE  (a % R) + R * (a \div R) = a
<1>1. PICK q \in Int, r \in Int : a \div R = q /\ a % R = r
  BY DivMod
<1>2. a = R * q + r
  BY <1>1, DivMod
<1>3. r + R * q = a
  BY <1>2
<1>4. QED
  BY <1>1, <1>3

(* The loops that store the last carry as the top digit. *)
LEMMA CarryLoop ==
  ASSUME NEW z, Safe(z), NEW m \in Nat, z.used = m + 1,
         NEW u \in [Nat -> Int], u[m] = 0,
         NEW c, \A i \in Nat : c[i] \in Int, c[0] = 0, c[m] \in Digit,
         \A i \in Nat : c[i + 1] = (u[i] + c[i]) \div DigitRadix,
         \A i \in 0 .. m - 1 : z.dig[i] = (u[i] + c[i]) % DigitRadix,
         z.dig[m] = c[m]
  PROVE  Magnitude(z) = Sums(u)[m + 1]
<1>1. z.size \in Nat /\ m < z.size
  <2>1. z.size \in Nat /\ z.used <= z.size
    BY Fields DEF Safe, UsedInVector
  <2>2. QED
    BY <2>1
<1>2. ASSUME NEW i \in 0 .. (m + 1) - 1
      PROVE  Words(z)[i] + DigitRadix * c[i + 1] = u[i] + c[i]
  <2>1. PICK R \in Nat \ {0}, a \in Int : DigitRadix = R /\ u[i] + c[i] = a
    <3>1. i \in Nat
      OBVIOUS
    <3>2. u[i] \in Int /\ c[i] \in Int
      BY <3>1
    <3>3. u[i] + c[i] \in Int
      BY <3>2
    <3>4. QED
      BY <3>3, RadixPositive
  <2>2. c[i + 1] = a \div R /\ Words(z)[i] = z.dig[i]
    BY <1>1, <2>1 DEF Words
  <2>3. z.dig[i] = a % R
    <3>1. CASE i < m
      BY <2>1, <3>1
    <3>2. CASE i = m
      <4>1. a = c[m] /\ c[m] % DigitRadix = c[m]
        BY <2>1, <3>2, DigitDiv
      <4>2. QED
        BY <2>1, <3>2, <4>1
    <3>3. QED
      BY <3>1, <3>2
  <2>4. (a % R) + R * (a \div R) = a
    BY Whole
  <2>5. QED
    BY <2>1, <2>2, <2>3, <2>4
<1>3. m + 1 \in Nat /\ z.used <= m + 1
  OBVIOUS
<1>4. \A i \in 0 .. m + 1 : c[i] \in Int
  OBVIOUS
<1>5. Magnitude(z) + c[m + 1] * Weight(m + 1) = Sums(u)[m + 1] + c[0]
  BY <1>2, <1>3, <1>4, ChainExact, SMTT(30)
<1>6. c[m + 1] = 0
  <2>1. 0 + c[m] = c[m]
    OBVIOUS
  <2>2. QED
    BY <2>1, DigitDiv
<1>7. Magnitude(z) \in Nat /\ Sums(u)[m + 1] \in Int /\ Weight(m + 1) \in Nat
  BY <1>3, MagnitudeIsSum, SumsUnfold, Weights
<1>8. QED
  BY <1>5, <1>6, <1>7

(* unsignedAddEquals adds magnitudes, and keeps the sign. *)
LEMMA UnsignedAddExact ==
  ASSUME NEW x, Safe(x), NEW y, Safe(y)
  PROVE  /\ Proper(UnsignedAdd(x, y))
         /\ Value(UnsignedAdd(x, y)) = IF x.neg THEN -(Magnitude(x) + Magnitude(y))
                                       ELSE Magnitude(x) + Magnitude(y)
<1> DEFINE z == AddUnclamped(x, y)
           m == Larger(x.used, y.used)
           c == AddCarry(x, y)
           u == [i \in Nat |-> Words(x)[i] + Words(y)[i]]
<1>1. /\ m \in Nat /\ x.used \in Nat /\ y.used \in Nat
      /\ m >= x.used /\ m >= y.used
  BY Fields DEF Safe, Larger
<1>2. /\ Safe(z) /\ z.neg = x.neg /\ z.used = m + 1
      /\ \A i \in 0 .. m - 1 : z.dig[i] = (Dig(x, i) + Dig(y, i) + c[i]) % DigitRadix
      /\ z.dig[m] = c[m]
  BY UnsignedAddSafe
<1>3. /\ \A i \in Nat : c[i] \in 0 .. 1
      /\ c[0] = 0
      /\ \A i \in Nat : c[i + 1] = (Dig(x, i) + Dig(y, i) + c[i]) \div DigitRadix
  BY AddCarryBit
<1> HIDE DEF z, m, c
<1>4. Words(x) \in [Nat -> Int] /\ Words(y) \in [Nat -> Int]
  BY WordsAreDigits DEF Safe
<1>5. /\ u \in [Nat -> Int]
      /\ \A i \in Nat : u[i] = Words(x)[i] + Words(y)[i]
  BY <1>4
<1>6. \A i \in Nat : u[i] = Dig(x, i) + Dig(y, i)
  BY WordsAreDig
<1>7. u[m] = 0
  BY <1>1, WordsAreDig
<1> HIDE DEF u
<1>8. Magnitude(z) = Sums(u)[m + 1]
  <2>1. c[m] \in Digit /\ \A i \in Nat : c[i] \in Int
    BY <1>1, <1>3, RadixAtLeastTwo
  <2>2. \A i \in Nat : c[i + 1] = (u[i] + c[i]) \div DigitRadix
    BY <1>3, <1>6
  <2>3. \A i \in 0 .. m - 1 : z.dig[i] = (u[i] + c[i]) % DigitRadix
    BY <1>2, <1>6
  <2>4. QED
    BY <1>1, <1>2, <1>3, <1>5, <1>7, <2>1, <2>2, <2>3, CarryLoop
<1>9. Sums(u)[m + 1] = Magnitude(x) + Magnitude(y)
  <2>1. m + 1 \in Nat /\ m + 1 >= x.used /\ m + 1 >= y.used
    BY <1>1
  <2>2. Sums(Words(x))[m + 1] = Magnitude(x) /\ Sums(Words(y))[m + 1] = Magnitude(y)
    BY <2>1, MagnitudeIsSum
  <2>3. Sums(u)[m + 1] = Sums(Words(x))[m + 1] + Sums(Words(y))[m + 1]
    BY <1>4, <1>5, <2>1, SumsPlus
  <2>4. Magnitude(x) \in Nat /\ Magnitude(y) \in Nat
    BY MagnitudeIsSum
  <2>5. QED
    BY <2>2, <2>3, <2>4
<1>10. UnsignedAdd(x, y) = Clamp(z)
  BY DEF UnsignedAdd, z
<1>11. Proper(Clamp(z)) /\ Value(Clamp(z)) = Value(z)
  BY <1>2, ClampExact
<1>12. QED
  BY <1>2, <1>8, <1>9, <1>10, <1>11 DEF Value

(* The borrow: the sign bit of the difference of two digits and a borrow. *)
LEMMA BorrowDigit ==
  ASSUME NEW R \in Nat \ {0}, NEW a \in Int, -R <= a, a < R
  PROVE  (a % R) - R * ((a % (2 * R)) \div R) = a
<1>1. 2 * R \in Nat \ {0}
  OBVIOUS
<1>2. CASE a >= 0
  <2>1. a = (2 * R) * 0 + a /\ a < 2 * R
    BY <1>2
  <2>2. a % (2 * R) = a
    BY <1>1, <1>2, <2>1, DivModUnique
  <2>3. a = R * 0 + a
    OBVIOUS
  <2>4. a % R = a /\ a \div R = 0
    BY <1>2, <2>3, DivModUnique
  <2>5. QED
    BY <2>2, <2>4
<1>3. CASE a < 0
  <2>1. PICK b \in Int : a = b - R
    <3>1. a + R \in Int /\ a = (a + R) - R
      OBVIOUS
    <3>2. QED
      BY <3>1
  <2>2. 0 <= b /\ b < R
    BY <1>3, <2>1
  <2>3. a % (2 * R) = b + R
    <3>1. /\ a = (2 * R) * (-1) + (b + R) /\ b + R \in Int
          /\ 0 <= b + R /\ b + R < 2 * R /\ -1 \in Int
      BY <2>1, <2>2
    <3>2. QED
      BY <1>1, <3>1, DivModUnique
  <2>4. (b + R) \div R = 1
    <3>1. b + R = R * 1 + b /\ b + R \in Int
      OBVIOUS
    <3>2. QED
      BY <2>2, <3>1, DivModUnique
  <2>5. a % R = b
    <3>1. a = R * (-1) + b /\ -1 \in Int
      BY <2>1
    <3>2. QED
      BY <2>2, <3>1, DivModUnique
  <2>6. QED
    BY <2>1, <2>3, <2>4, <2>5
<1>4. QED
  BY <1>2, <1>3

(* unsignedSubtractEquals subtracts magnitudes, the smaller from the greater, *)
(* and keeps the sign of the number it subtracts from.                        *)
LEMMA UnsignedSubExact ==
  ASSUME NEW x, Safe(x), NEW y, Safe(y), y.used <= x.used,
         Magnitude(y) <= Magnitude(x)
  PROVE  /\ Proper(UnsignedSub(x, y))
         /\ Value(UnsignedSub(x, y)) = IF x.neg THEN -(Magnitude(x) - Magnitude(y))
                                       ELSE Magnitude(x) - Magnitude(y)
         /\ Magnitude(UnsignedSub(x, y)) = Magnitude(x) - Magnitude(y)
<1> DEFINE z == SubUnclamped(x, y)
           m == x.used
           b == SubBorrow(x, y)
           c == [i \in Nat |-> -b[i]]
           u == [i \in Nat |-> Words(x)[i] - Words(y)[i]]
<1>1. m \in Nat /\ y.used \in Nat /\ m >= y.used /\ x.used = m
  BY Fields DEF Safe
<1>2. /\ Safe(z) /\ z.neg = x.neg /\ z.used = m
      /\ \A i \in 0 .. m - 1 : z.dig[i] = (Dig(x, i) - Dig(y, i) - b[i]) % DigitRadix
  BY UnsignedSubSafe
<1>3. /\ \A i \in Nat : b[i] \in 0 .. 1
      /\ b[0] = 0
      /\ \A i \in Nat : b[i + 1] = ((Dig(x, i) - Dig(y, i) - b[i]) % WordRadix)
                                      \div DigitRadix
  BY SubBorrowBit
<1> HIDE DEF z, m, b
<1>4. Words(x) \in [Nat -> Int] /\ Words(y) \in [Nat -> Int]
  BY WordsAreDigits DEF Safe
<1>5. /\ u \in [Nat -> Int]
      /\ \A i \in Nat : Words(x)[i] = u[i] + Words(y)[i]
  BY <1>4
<1>6. \A i \in Nat : u[i] = Dig(x, i) - Dig(y, i)
  BY WordsAreDig
<1>7. \A i \in Nat : c[i] = -b[i] /\ c[i] \in Int
  BY <1>3
<1> HIDE DEF u, c
<1>8. ASSUME NEW i \in 0 .. m - 1
      PROVE  Words(z)[i] + DigitRadix * c[i + 1] = u[i] + c[i]
  <2>1. i \in Nat /\ i + 1 \in Nat
    BY <1>1
  <2>2. PICK R \in Nat \ {0} : DigitRadix = R
    BY RadixPositive
  <2>3. PICK d \in 0 .. R - 1, e \in 0 .. R - 1, f \in 0 .. 1 :
          Dig(x, i) = d /\ Dig(y, i) = e /\ b[i] = f
    <3>1. Dig(x, i) \in Digit /\ Dig(y, i) \in Digit /\ b[i] \in 0 .. 1
      BY <1>3, <2>1, DigIsDigit DEF Safe
    <3>2. QED
      BY <2>2, <3>1 DEF Digit
  <2>4. PICK a \in Int : a = d - e - f /\ -R <= a /\ a < R
    <3>1. d - e - f \in Int /\ -R <= d - e - f /\ d - e - f < R
      OBVIOUS
    <3>2. QED
      BY <3>1
  <2>5. (a % R) - R * ((a % (2 * R)) \div R) = a
    BY <2>4, BorrowDigit
  <2>6. b[i + 1] = (a % (2 * R)) \div R
    BY <1>3, <2>1, <2>2, <2>3, <2>4 DEF WordRadix
  <2>7. Words(z)[i] = a % R
    <3>1. z.dig[i] = a % R
      BY <1>2, <2>2, <2>3, <2>4
    <3>2. i < z.size
      BY <1>1, <1>2, Fields DEF Safe, UsedInVector
    <3>3. QED
      BY <2>1, <3>1, <3>2 DEF Words
  <2>8. c[i + 1] = -b[i + 1] /\ c[i] = -f /\ u[i] = d - e
    BY <1>6, <1>7, <2>1, <2>3
  <2>9. PICK g \in Int, h \in Int : g = a % R /\ h = (a % (2 * R)) \div R
    <3>1. 2 * R \in Nat \ {0}
      OBVIOUS
    <3>2. PICK k \in Int : a % (2 * R) = k
      BY <3>1, DivMod
    <3>3. k \div R \in Int /\ a % R \in Int
      BY DivMod
    <3>4. QED
      BY <3>2, <3>3
  <2>10. g + R * (-h) = (d - e) + (-f)
    BY <2>4, <2>5, <2>9
  <2>11. QED
    BY <2>2, <2>6, <2>7, <2>8, <2>9, <2>10
<1>9. Magnitude(z) + c[m] * Weight(m) = Sums(u)[m] + c[0]
  <2>1. \A i \in 0 .. m : c[i] \in Int
    BY <1>7
  <2>2. z.used <= m
    BY <1>1, <1>2
  <2>3. QED
    BY <1>1, <1>2, <1>5, <1>8, <2>1, <2>2, ChainExact
<1>10. Sums(u)[m] = Magnitude(x) - Magnitude(y)
  <2>1. m >= x.used /\ m >= y.used
    BY <1>1
  <2>2. Sums(Words(x))[m] = Magnitude(x) /\ Sums(Words(y))[m] = Magnitude(y)
    BY <1>1, <2>1, MagnitudeIsSum
  <2>3. Sums(u) \in [Nat -> Int]
    BY <1>5, SumsUnfold
  <2>4. Sums(Words(x))[m] = Sums(u)[m] + Sums(Words(y))[m]
    BY <1>1, <1>4, <1>5, SumsPlus
  <2>5. Magnitude(x) \in Nat /\ Magnitude(y) \in Nat
    BY MagnitudeIsSum
  <2>6. QED
    BY <1>1, <2>2, <2>3, <2>4, <2>5
<1>11. Magnitude(z) = Magnitude(x) - Magnitude(y)
  <2>1. PICK w \in Nat \ {0} : Weight(m) = w
    BY <1>1, Weights
  <2>2. PICK p \in 0 .. w - 1 : Magnitude(z) = p
    BY <1>2, <2>1, MagnitudeIsSum
  <2>3. PICK f \in Nat, g \in Nat : Magnitude(x) = f /\ Magnitude(y) = g
    BY MagnitudeIsSum
  <2>4. c[0] = 0 /\ (c[m] = 0 \/ c[m] = -1)
    BY <1>1, <1>3, <1>7
  <2>5. p + c[m] * w = f - g /\ g <= f
    BY <1>9, <1>10, <2>1, <2>2, <2>3, <2>4
  <2>6. c[m] = 0
    BY <2>4, <2>5
  <2>7. p = f - g
    BY <2>5, <2>6
  <2>8. QED
    BY <2>2, <2>3, <2>7
<1>12. UnsignedSub(x, y) = Clamp(z)
  BY DEF UnsignedSub, z
<1>13. /\ Proper(Clamp(z)) /\ Value(Clamp(z)) = Value(z)
       /\ Magnitude(Clamp(z)) = Magnitude(z)
  BY <1>2, ClampExact
<1>14. QED
  BY <1>2, <1>11, <1>12, <1>13 DEF Value

(* A number that is not smaller is not shorter. *)
LEMMA NotSmallerNotShorter ==
  ASSUME NEW x, Proper(x), NEW y, Proper(y), Magnitude(y) <= Magnitude(x)
  PROVE  y.used <= x.used
<1>1. x.used \in Nat /\ y.used \in Nat /\ Magnitude(x) \in Nat /\ Magnitude(y) \in Nat
  BY Fields, MagnitudeIsSum DEF Proper, Safe
<1>2. y.used > x.used => Magnitude(y) > Magnitude(x)
  BY LongerIsGreater DEF Proper
<1>3. QED
  BY <1>1, <1>2

(* The difference of the magnitudes of x and y, the smaller from the greater, *)
(* with the sign of x.                                                        *)
LEMMA SubtractSmaller ==
  ASSUME NEW x, Proper(x), NEW y, Proper(y), Magnitude(y) <= Magnitude(x)
  PROVE  /\ Proper(UnsignedSub(x, y))
         /\ Magnitude(UnsignedSub(x, y)) = Magnitude(x) - Magnitude(y)
         /\ Value(UnsignedSub(x, y)) = IF x.neg THEN -(Magnitude(x) - Magnitude(y))
                                       ELSE Magnitude(x) - Magnitude(y)
BY NotSmallerNotShorter, UnsignedSubExact DEF Proper

(* compareMagnitude says LessThan of the smaller magnitude. *)
LEMMA LessMagnitude ==
  ASSUME NEW x, Proper(x), NEW y, Proper(y)
  PROVE  CompareMagnitude(x, y) = "LessThan" <=> Magnitude(x) < Magnitude(y)
<1>1. PICK a \in Nat, b \in Nat : Magnitude(x) = a /\ Magnitude(y) = b
  BY ProperValue
<1>2. CompareMagnitude(x, y) = CASE a < b -> "LessThan"
                                 [] a > b -> "GreaterThan"
                                 [] OTHER -> "Equal"
  BY <1>1, CompareMagnitudeExact
<1>3. CASE a < b
  BY <1>1, <1>2, <1>3
<1>4. CASE ~(a < b)
  BY <1>1, <1>2, <1>4
<1>5. QED
  BY <1>3, <1>4

(* A nonzero number stays proper whatever sign it is given. *)
LEMMA SignedProper ==
  ASSUME NEW x, Proper(x), NEW s \in BOOLEAN, ~s \/ Magnitude(x) # 0
  PROVE  LET z == [x EXCEPT !.neg = s]
         IN  Proper(z) /\ Value(z) = IF s THEN -Magnitude(x) ELSE Magnitude(x)
<1> DEFINE z == [x EXCEPT !.neg = s]
<1>1. /\ Safe(z) /\ Magnitude(z) = Magnitude(x)
      /\ z.neg = s /\ z.used = x.used /\ LeadingNonzero(z)
  BY SignedMagnitude DEF Proper
<1> HIDE DEF z
<1>2. x.used = 0 => ~s
  BY ProperValue
<1>3. ZeroNonnegative(z)
  BY <1>1, <1>2 DEF ZeroNonnegative, IsZero
<1>4. QED
  BY <1>1, <1>3 DEF Proper, Value, z

(* += on integers, whichever of its three ways it takes. *)
LEMMA AddExact ==
  ASSUME NEW x, Proper(x), NEW y, Proper(y)
  PROVE  Proper(AddEq(x, y)) /\ Value(AddEq(x, y)) = Value(x) + Value(y)
<1>1. PICK a \in Nat, b \in Nat : Magnitude(x) = a /\ Magnitude(y) = b
  BY ProperValue
<1>2. /\ x.neg \in BOOLEAN /\ y.neg \in BOOLEAN
      /\ Value(x) = (IF x.neg THEN -a ELSE a) /\ Value(y) = (IF y.neg THEN -b ELSE b)
  BY <1>1, ProperValue DEF Value
<1>3. CASE x.neg = y.neg
  <2>1. AddEq(x, y) = UnsignedAdd(x, y)
    BY <1>3 DEF AddEq
  <2>2. /\ Proper(UnsignedAdd(x, y))
        /\ Value(UnsignedAdd(x, y)) = IF x.neg THEN -(a + b) ELSE a + b
    BY <1>1, UnsignedAddExact DEF Proper
  <2>3. QED
    BY <1>2, <1>3, <2>1, <2>2
<1>4. CASE x.neg # y.neg /\ CompareMagnitude(x, y) = "LessThan"
  <2>1. AddEq(x, y) = SubFrom(x, y)
    BY <1>4 DEF AddEq
  <2>2. a < b
    BY <1>1, <1>4, LessMagnitude
  <2>3. a <= b
    BY <2>2
  <2>4. /\ Proper(UnsignedSub(y, x))
        /\ Value(UnsignedSub(y, x)) = IF y.neg THEN -(b - a) ELSE b - a
    BY <1>1, <2>3, SubtractSmaller
  <2>5. /\ Proper(SubFrom(x, y))
        /\ Value(SubFrom(x, y)) = IF y.neg THEN -(b - a) ELSE b - a
    BY <2>4, AssignExact DEF SubFrom, Proper
  <2>6. QED
    BY <1>2, <1>4, <2>1, <2>5
<1>5. CASE x.neg # y.neg /\ CompareMagnitude(x, y) # "LessThan"
  <2>1. AddEq(x, y) = UnsignedSub(x, y)
    BY <1>5 DEF AddEq
  <2>2. ~(a < b)
    BY <1>1, <1>5, LessMagnitude
  <2>3. b <= a
    BY <2>2
  <2>4. /\ Proper(UnsignedSub(x, y))
        /\ Value(UnsignedSub(x, y)) = IF x.neg THEN -(a - b) ELSE a - b
    BY <1>1, <2>3, SubtractSmaller
  <2>5. QED
    BY <1>2, <1>5, <2>1, <2>4
<1>6. QED
  BY <1>3, <1>4, <1>5

(* -= likewise. *)
LEMMA SubtractExact ==
  ASSUME NEW x, Proper(x), NEW y, Proper(y)
  PROVE  Proper(SubEq(x, y)) /\ Value(SubEq(x, y)) = Value(x) - Value(y)
<1>1. PICK a \in Nat, b \in Nat : Magnitude(x) = a /\ Magnitude(y) = b
  BY ProperValue
<1>2. /\ x.neg \in BOOLEAN /\ y.neg \in BOOLEAN
      /\ Value(x) = (IF x.neg THEN -a ELSE a) /\ Value(y) = (IF y.neg THEN -b ELSE b)
  BY <1>1, ProperValue DEF Value
<1>3. CASE x.neg # y.neg
  <2>1. SubEq(x, y) = UnsignedAdd(x, y)
    BY <1>3 DEF SubEq
  <2>2. /\ Proper(UnsignedAdd(x, y))
        /\ Value(UnsignedAdd(x, y)) = IF x.neg THEN -(a + b) ELSE a + b
    BY <1>1, UnsignedAddExact DEF Proper
  <2>3. QED
    BY <1>2, <1>3, <2>1, <2>2
<1>4. CASE x.neg = y.neg /\ CompareMagnitude(x, y) # "LessThan"
  <2>1. SubEq(x, y) = UnsignedSub(x, y)
    BY <1>4 DEF SubEq
  <2>2. ~(a < b)
    BY <1>1, <1>4, LessMagnitude
  <2>3. b <= a
    BY <2>2
  <2>4. /\ Proper(UnsignedSub(x, y))
        /\ Value(UnsignedSub(x, y)) = IF x.neg THEN -(a - b) ELSE a - b
    BY <1>1, <2>3, SubtractSmaller
  <2>5. QED
    BY <1>2, <1>4, <2>1, <2>4
<1>5. CASE x.neg = y.neg /\ CompareMagnitude(x, y) = "LessThan"
  <2> DEFINE f == SubFrom(x, y)
             s == ~x.neg
  <2>1. SubEq(x, y) = [f EXCEPT !.neg = s]
    BY <1>5 DEF SubEq
  <2>2. a < b
    BY <1>1, <1>5, LessMagnitude
  <2>3. a <= b
    BY <2>2
  <2>4. Proper(UnsignedSub(y, x)) /\ Magnitude(UnsignedSub(y, x)) = b - a
    BY <1>1, <2>3, SubtractSmaller
  <2>5. Proper(f) /\ Magnitude(f) = b - a
    BY <2>4, AssignExact DEF SubFrom, Proper
  <2> HIDE DEF f
  <2>6. Magnitude(f) # 0
    BY <2>2, <2>5
  <2>7. s \in BOOLEAN
    OBVIOUS
  <2> HIDE DEF s
  <2>8. LET z == [f EXCEPT !.neg = s]
        IN  Proper(z) /\ Value(z) = IF s THEN -Magnitude(f) ELSE Magnitude(f)
    BY <2>5, <2>6, <2>7, SignedProper
  <2>9. Proper(SubEq(x, y)) /\ Value(SubEq(x, y)) = IF s THEN -(b - a) ELSE b - a
    BY <2>1, <2>5, <2>8
  <2>10. QED
    BY <1>2, <1>5, <2>9 DEF s
<1>6. QED
  BY <1>3, <1>4, <1>5

-----------------------------------------------------------------------------
(***************************************************************************)
(* Multiplication.                                                         *)
(***************************************************************************)
(* *= ( digit_t ). *)
LEMMA MulDigitExact ==
  ASSUME NEW x, Proper(x), NEW e \in Digit
  PROVE  Proper(MulDigit(x, e)) /\ Value(MulDigit(x, e)) = Value(x) * e
<1> DEFINE m == x.used
           c == MulCarry(x, e)
           u == [i \in Nat |-> Words(x)[i] * e]
<1>0. Safe(x) /\ m \in Nat /\ e \in Int
  BY Fields DEF Proper, Safe, Digit
<1>1. PICK z : /\ MulDigit(x, e) = Clamp(z) /\ Safe(z)
               /\ z.neg = x.neg /\ z.used = m + 1
               /\ \A i \in 0 .. m - 1 : z.dig[i] = (c[i] + Dig(x, i) * e) % DigitRadix
               /\ z.dig[m] = c[m]
  BY <1>0, MulDigitSafe
<1>2. /\ \A i \in Nat : c[i] \in Digit
      /\ c[0] = 0
      /\ \A i \in Nat : c[i + 1] = (c[i] + Dig(x, i) * e) \div DigitRadix
  BY <1>0, MulCarryDigit
<1> HIDE DEF c
<1>3. Words(x) \in [Nat -> Int]
  BY <1>0, WordsAreDigits DEF Safe
<1>4. /\ u \in [Nat -> Int]
      /\ \A i \in Nat : u[i] = e * Words(x)[i]
  BY <1>0, <1>3
<1>5. \A i \in Nat : u[i] = Dig(x, i) * e
  BY <1>0, WordsAreDig
<1>6. u[m] = 0
  <2>1. Words(x)[m] = 0
    BY <1>0, WordsAreDig
  <2>2. QED
    BY <1>0, <1>4, <2>1
<1> HIDE DEF u
<1>7. Magnitude(z) = Sums(u)[m + 1]
  <2>1. \A i \in Nat : c[i] \in Int
    BY <1>2 DEF Digit
  <2>2. ASSUME NEW i \in Nat PROVE c[i] + Dig(x, i) * e = u[i] + c[i]
    <3>1. u[i] \in Int /\ c[i] \in Int
      BY <1>4, <2>1
    <3>2. QED
      BY <1>5, <3>1
  <2>3. \A i \in Nat : c[i + 1] = (u[i] + c[i]) \div DigitRadix
    BY <1>2, <2>2
  <2>4. \A i \in 0 .. m - 1 : z.dig[i] = (u[i] + c[i]) % DigitRadix
    <3>1. \A i \in 0 .. m - 1 : i \in Nat
      BY <1>0
    <3>2. QED
      BY <1>1, <2>2, <3>1
  <2> HIDE DEF m
  <2>5. QED
    BY <1>0, <1>1, <1>2, <1>4, <1>6, <2>1, <2>3, <2>4, CarryLoop
<1>8. Sums(u)[m + 1] = e * Magnitude(x)
  <2>1. m + 1 \in Nat /\ m + 1 >= x.used
    BY <1>0
  <2>2. Sums(Words(x))[m + 1] = Magnitude(x)
    BY <1>0, <2>1, MagnitudeIsSum
  <2>3. \A i \in Nat : Sums(u)[i] = e * Sums(Words(x))[i]
    BY <1>0, <1>3, <1>4, SumsTimes
  <2>4. QED
    BY <2>1, <2>2, <2>3
<1>9. Proper(Clamp(z)) /\ Value(Clamp(z)) = Value(z)
  BY <1>1, ClampExact
<1>10. PICK a \in Nat : Magnitude(x) = a
  BY ProperValue
<1>11. Value(z) = Value(x) * e
  <2>1. Value(z) = IF x.neg THEN -(e * a) ELSE e * a
    BY <1>1, <1>7, <1>8, <1>10 DEF Value
  <2>2. Value(x) = IF x.neg THEN -a ELSE a
    BY <1>10 DEF Value
  <2>3. (-a) * e = -(e * a) /\ a * e = e * a
    BY <1>0
  <2>4. QED
    BY <2>1, <2>2, <2>3
<1>12. QED
  BY <1>1, <1>9, <1>11

(* A vector of words, extended by zeros as Words extends that of an object. *)
Extended(t, s) == [k \in Nat |-> IF k < s THEN t[k] ELSE 0]

(* Zeros sum to zero. *)
LEMMA SumsOfZeros ==
  ASSUME NEW u \in [Nat -> Int], NEW m \in Nat, \A i \in 0 .. m - 1 : u[i] = 0
  PROVE  \A i \in 0 .. m : Sums(u)[i] = 0
<1> DEFINE S == {i \in Nat : i <= m => Sums(u)[i] = 0}
<1>1. 0 \in S
  BY SumsUnfold
<1>2. ASSUME NEW i \in S PROVE i + 1 \in S
  <2>1. SUFFICES ASSUME i + 1 <= m PROVE Sums(u)[i + 1] = 0
    OBVIOUS
  <2>2. i \in Nat /\ Sums(u)[i] = 0 /\ u[i] = 0 /\ Weight(i) \in Nat
    BY <2>1, Weights
  <2>3. Sums(u)[i + 1] = Sums(u)[i] + u[i] * Weight(i)
    BY <2>2, SumsUnfold
  <2>4. QED
    BY <2>2, <2>3
<1> HIDE DEF S
<1>3. S = Nat
  BY <1>1, <1>2, SetInduction DEF S
<1>4. QED
  BY <1>3 DEF S

(* A number moved up by i places. *)
LEMMA MovedUp ==
  ASSUME NEW u \in [Nat -> Int], NEW w \in [Nat -> Int], NEW i \in Nat,
         \A k \in Nat : w[k] = IF k < i THEN 0 ELSE u[k - i]
  PROVE  \A j \in Nat : Sums(w)[j + i] = Weight(i) * Sums(u)[j]
<1>1. \A k \in 0 .. i - 1 : w[k] = 0
  OBVIOUS
<1>2. Sums(w)[i] = 0
  BY <1>1, SumsOfZeros
<1>3. ASSUME NEW k \in Nat PROVE u[k] = w[k + i]
  <2>1. k + i \in Nat /\ ~(k + i < i) /\ (k + i) - i = k
    OBVIOUS
  <2>2. w[k + i] = u[(k + i) - i]
    BY <2>1
  <2>3. QED
    BY <2>1, <2>2, Zenon
<1>4. \A j \in Nat : Sums(w)[j + i] = Sums(w)[i] + Weight(i) * Sums(u)[j]
  BY <1>3, SumsSplit
<1>5. ASSUME NEW j \in Nat PROVE Sums(w)[j + i] = Weight(i) * Sums(u)[j]
  <2>1. Sums(u) \in [Nat -> Int]
    BY SumsUnfold
  <2>2. PICK a \in Int, b \in Nat : Sums(u)[j] = a /\ Weight(i) = b
    BY <2>1, Weights
  <2>3. Sums(w)[j + i] = 0 + b * a
    BY <1>2, <1>4, <2>2
  <2>4. QED
    BY <2>2, <2>3
<1>6. QED
  BY <1>5

(* A row of baselineMultiply adds d times y, at offset i, to the words. *)
LEMMA RowExact ==
  ASSUME NEW s \in Nat, NEW y, Safe(y), NEW i \in Nat, i + y.used < s,
         NEW t \in Rows(s, i + y.used), NEW d \in Digit
  PROVE  Sums(Extended(AddRow(t, d, y, i), s))[s]
           = Sums(Extended(t, s))[s] + d * (Weight(i) * Magnitude(y))
<1> DEFINE n == y.used
           r == AddRow(t, d, y, i)
           c == RowCarry(t, d, y, i)
           T == Extended(t, s)
           Y == Words(y)
           M == [k \in Nat |-> IF k < i THEN 0 ELSE Y[k - i]]
           N == [k \in Nat |-> d * M[k]]
           U == [k \in Nat |-> T[k] + N[k]]
           V == Extended(r, s)
           C == [k \in 0 .. s |-> IF k < i \/ k > i + n THEN 0 ELSE c[k - i]]
<1>1. /\ n \in Nat /\ i + n < s /\ i + n \in Nat /\ i + n + 1 \in 0 .. s
      /\ d \in Nat
  BY Fields, RadixPositive DEF Safe, Digit
<1>2. t \in [0 .. s - 1 -> Digit] /\ \A k \in i + n .. s - 1 : t[k] = 0
  BY DEF Rows
<1>3. r \in [0 .. s - 1 -> Digit]
  <2>1. t \in Rows(s, i + n + 1)
    BY <1>1, <1>2 DEF Rows
  <2>2. i + n < i + n + 1
    BY <1>1
  <2> HIDE DEF n, r
  <2>3. AddRow(t, d, y, i) \in Rows(s, i + n + 1)
    BY <1>1, <2>1, <2>2, AddRowInVector DEF n
  <2>4. QED
    BY <2>3 DEF Rows, r
<1>4. /\ \A j \in 0 .. n : c[j] \in Digit
      /\ c[0] = 0
      /\ \A j \in 0 .. n - 1 :
           c[j + 1] = (t[i + j] + d * Dig(y, j) + c[j]) \div DigitRadix
  <2>1. i + y.used <= s
    BY <1>1
  <2>2. QED
    BY <1>2, <2>1, RowCarryDigit
<1>5. Y \in [Nat -> Int]
  BY WordsAreDigits DEF Safe
<1>6. \A k \in Nat : Y[k] = Dig(y, k) /\ (k >= n => Y[k] = 0)
  BY WordsAreDig
<1>7. /\ \A k \in 0 .. n - 1 : Y[k] = y.dig[k]
      /\ \A k \in 0 .. s - 1 :
           r[k] = IF i <= k /\ k < i + n
                  THEN (t[k] + d * y.dig[k - i] + c[k - i]) % DigitRadix
                  ELSE IF k = i + n THEN c[n] ELSE t[k]
  <2>1. \A k \in 0 .. n - 1 : Y[k] = y.dig[k]
    BY <1>1, <1>6 DEF Dig
  <2>2. DOMAIN t = 0 .. s - 1
    BY <1>2
  <2> HIDE DEF c
  <2>3. QED
    BY <2>1, <2>2 DEF AddRow, c
<1> HIDE DEF r, c, Y, n
<1>8. /\ M \in [Nat -> Int]
      /\ \A k \in Nat : M[k] = IF k < i THEN 0 ELSE Y[k - i]
  BY <1>5
<1> HIDE DEF M
<1>9. N \in [Nat -> Int] /\ \A k \in Nat : N[k] = d * M[k]
  BY <1>1, <1>8
<1> HIDE DEF N
<1>10. /\ T \in [Nat -> Int]
       /\ \A k \in 0 .. s - 1 : T[k] = t[k]
  <2>1. \A k \in 0 .. s - 1 : t[k] \in Int
    BY <1>2, RadixPositive DEF Digit
  <2>2. QED
    BY <2>1 DEF Extended
<1>11. /\ V \in [Nat -> Int]
       /\ \A k \in 0 .. s - 1 : V[k] = r[k]
  <2>1. \A k \in 0 .. s - 1 : r[k] \in Int
    BY <1>3, RadixPositive DEF Digit
  <2>2. QED
    BY <2>1 DEF Extended
<1> HIDE DEF T, V
<1>12. /\ U \in [Nat -> Int]
       /\ \A k \in Nat : U[k] = T[k] + N[k]
  BY <1>9, <1>10
<1>13. /\ \A k \in 0 .. s : C[k] = IF k < i \/ k > i + n THEN 0 ELSE c[k - i]
       /\ \A k \in 0 .. s : C[k] \in Int
  <2>1. ASSUME NEW k \in 0 .. s, ~(k < i \/ k > i + n) PROVE c[k - i] \in Int
    <3>1. k - i \in 0 .. n
      BY <1>1, <2>1
    <3>2. QED
      BY <1>4, <3>1, RadixPositive DEF Digit
  <2>2. QED
    BY <2>1
<1> HIDE DEF C, U
<1>14. ASSUME NEW k \in 0 .. s - 1
       PROVE  V[k] + DigitRadix * C[k + 1] = U[k] + C[k]
  <2>1. k \in Nat /\ k \in 0 .. s /\ k + 1 \in 0 .. s
    OBVIOUS
  <2>2. PICK R \in Nat \ {0}, a \in Int, e \in Nat :
          /\ DigitRadix = R /\ t[k] = a /\ d = e
    <3>1. t[k] \in Int
      BY <1>2, RadixPositive DEF Digit
    <3>2. QED
      BY <1>1, <3>1, RadixPositive
  <2>3. U[k] = a + e * M[k] /\ V[k] = r[k]
    BY <1>9, <1>10, <1>11, <1>12, <2>1, <2>2
  <2>4. CASE k < i
    <3>1. M[k] = 0 /\ C[k] = 0 /\ r[k] = a
      BY <1>1, <1>7, <1>8, <1>13, <2>1, <2>2, <2>4
    <3>2. C[k + 1] = 0
      <4>1. CASE k + 1 < i
        BY <1>13, <2>1, <4>1
      <4>2. CASE k + 1 = i
        <5>1. C[k + 1] = c[(k + 1) - i] /\ (k + 1) - i = 0
          BY <1>1, <1>13, <2>1, <4>2
        <5>2. QED
          BY <1>4, <5>1
      <4>3. QED
        BY <2>4, <4>1, <4>2
    <3>3. QED
      BY <2>2, <2>3, <3>1, <3>2
  <2>5. CASE i <= k /\ k < i + n
    <3>1. PICK j \in 0 .. n - 1 : k = i + j /\ k - i = j /\ (k + 1) - i = j + 1
      <4>1. /\ k - i \in 0 .. n - 1 /\ k = i + (k - i)
            /\ (k + 1) - i = (k - i) + 1
        BY <1>1, <2>1, <2>5
      <4>2. QED
        BY <4>1
    <3>2. j \in 0 .. n /\ j + 1 \in 0 .. n /\ j \in Nat
      BY <1>1
    <3>3. PICK f \in Int, g \in Int : Y[j] = f /\ c[j] = g
      <4>1. Y[j] \in Int /\ c[j] \in Int
        BY <1>4, <1>5, <3>2, RadixPositive DEF Digit
      <4>2. QED
        BY <4>1
    <3>4. PICK b \in Int : b = a + e * f + g
      <4>1. a + e * f + g \in Int
        OBVIOUS
      <4>2. QED
        BY <4>1
    <3>5. M[k] = f /\ C[k] = g
      BY <1>1, <1>8, <1>13, <2>1, <2>5, <3>1, <3>3
    <3>6. C[k + 1] = b \div R
      <4>1. C[k + 1] = c[j + 1]
        <5>1. ~(k + 1 < i) /\ ~(k + 1 > i + n)
          BY <1>1, <2>1, <2>5
        <5>2. QED
          BY <1>13, <2>1, <3>1, <5>1
      <4>2. c[j + 1] = (t[i + j] + d * Dig(y, j) + c[j]) \div DigitRadix
        BY <1>4
      <4>3. t[i + j] = a /\ Dig(y, j) = f
        BY <1>6, <2>2, <3>1, <3>2, <3>3
      <4>4. QED
        BY <2>2, <3>3, <3>4, <4>1, <4>2, <4>3
    <3>7. r[k] = b % R
      <4>1. r[k] = (t[k] + d * y.dig[k - i] + c[k - i]) % DigitRadix
        BY <1>7, <2>5
      <4>2. y.dig[k - i] = f /\ c[k - i] = g
        BY <1>7, <3>1, <3>3
      <4>3. QED
        BY <2>2, <3>4, <4>1, <4>2
    <3>8. (b % R) + R * (b \div R) = b
      BY Whole
    <3>9. b = (a + e * f) + g
      BY <3>4
    <3>10. QED
      BY <2>2, <2>3, <3>5, <3>6, <3>7, <3>8, <3>9
  <2>6. CASE k = i + n
    <3>1. PICK g \in Int : c[n] = g
      <4>1. n \in 0 .. n
        BY <1>1
      <4>2. c[n] \in Int
        BY <1>4, <4>1, RadixPositive DEF Digit
      <4>3. QED
        BY <4>2
    <3>2. k - i = n /\ ~(k < i) /\ ~(k > i + n) /\ k + 1 > i + n /\ ~(k < i + n)
      BY <1>1, <2>6
    <3>3. C[k] = g /\ C[k + 1] = 0 /\ r[k] = g
      BY <1>7, <1>13, <2>1, <2>6, <3>1, <3>2
    <3>4. M[k] = 0
      <4>1. M[k] = Y[n]
        BY <1>8, <2>1, <3>2
      <4>2. n >= n
        BY <1>1
      <4>3. QED
        BY <1>1, <1>6, <4>1, <4>2
    <3>5. a = 0
      BY <1>1, <1>2, <2>2, <2>6
    <3>6. QED
      BY <2>2, <2>3, <3>3, <3>4, <3>5
  <2>7. CASE k > i + n
    <3>1. ~(k < i) /\ ~(k < i + n) /\ k # i + n /\ k + 1 > i + n /\ k - i >= n /\ k - i \in Nat
      BY <1>1, <2>1, <2>7
    <3>2. C[k] = 0 /\ C[k + 1] = 0 /\ r[k] = a
      BY <1>7, <1>13, <2>1, <2>2, <2>7, <3>1
    <3>3. M[k] = 0
      BY <1>6, <1>8, <2>1, <3>1
    <3>4. QED
      BY <2>2, <2>3, <3>2, <3>3
  <2>8. QED
    BY <1>1, <2>1, <2>4, <2>5, <2>6, <2>7
<1>15. Sums(V)[s] = Sums(U)[s]
  <2>0. /\ V \in [Nat -> Int] /\ U \in [Nat -> Int]
        /\ \A k \in 0 .. s : C[k] \in Int
        /\ \A k \in 0 .. s - 1 : V[k] + DigitRadix * C[k + 1] = U[k] + C[k]
    BY <1>11, <1>12, <1>13, <1>14
  <2>1. \A k \in 0 .. s : Sums(V)[k] + C[k] * Weight(k) = Sums(U)[k] + C[0]
    BY <2>0, CarryChain
  <2>2. s \in 0 .. s /\ 0 \in 0 .. s /\ s > i + n
    BY <1>1
  <2>3. C[s] = 0
    BY <1>13, <2>2
  <2>4. C[0] = 0
    <3>1. CASE 0 < i
      BY <1>13, <2>2, <3>1
    <3>2. CASE i = 0
      <4>1. C[0] = c[0 - i] /\ 0 - i = 0
        BY <1>1, <1>13, <2>2, <3>2
      <4>2. QED
        BY <1>4, <4>1
    <3>3. QED
      BY <3>1, <3>2
  <2>5. Sums(V)[s] \in Int /\ Sums(U)[s] \in Int /\ Weight(s) \in Int
    <3>1. Sums(V) \in [Nat -> Int]
      BY <1>11, SumsUnfold
    <3>2. Sums(U) \in [Nat -> Int]
      BY <1>12, SumsUnfold
    <3>3. QED
      BY <3>1, <3>2, Weights
  <2>6. QED
    BY <2>1, <2>2, <2>3, <2>4, <2>5
<1>16. Sums(U)[s] = Sums(T)[s] + Sums(N)[s]
  BY <1>9, <1>10, <1>12, SumsPlus
<1>17. Sums(N)[s] = d * Sums(M)[s]
  <2>1. d \in Int
    BY <1>1
  <2>2. \A k \in Nat : Sums(N)[k] = d * Sums(M)[k]
    BY <1>8, <1>9, <2>1, SumsTimes
  <2>3. QED
    BY <2>2
<1>18. Sums(M)[s] = Weight(i) * Magnitude(y)
  <2>1. \A j \in Nat : Sums(M)[j + i] = Weight(i) * Sums(Y)[j]
    BY <1>5, <1>8, MovedUp
  <2>2. s - i \in Nat /\ (s - i) + i = s /\ s - i >= n
    BY <1>1
  <2>3. Sums(M)[(s - i) + i] = Weight(i) * Sums(Y)[s - i]
    BY <2>1, <2>2
  <2>4. Sums(Y)[s - i] = Magnitude(y)
    BY <2>2, MagnitudeIsSum DEF Y, n
  <2>5. QED
    BY <2>2, <2>3, <2>4
<1>19. Sums(V)[s] = Sums(T)[s] + d * (Weight(i) * Magnitude(y))
  BY <1>15, <1>16, <1>17, <1>18
<1>20. QED
  BY <1>19 DEF V, T, r

(* The rows of baselineMultiply add up to the product of the magnitudes. *)
LEMMA RowsExact ==
  ASSUME NEW x, Safe(x), NEW y, Safe(y)
  PROVE  LET s == New(x.used + y.used + 1).size
         IN  Sums(Extended(MulRows(x, y)[x.used], s))[s] = Magnitude(x) * Magnitude(y)
<1> DEFINE n == x.used + y.used + 1
           s == New(n).size
           zeros == New(n).dig
           row == MulRows(x, y)
           m == x.used
           X == Words(x)
           V == Magnitude(y)
<1>1. /\ \A i \in 0 .. m : row[i] \in Rows(s, n)
      /\ row[0] = zeros
      /\ \A i \in 0 .. m - 1 :
           row[i + 1] = IF IsZero(y) THEN zeros ELSE AddRow(row[i], Dig(x, i), y, i)
      /\ s \in Nat /\ n \in 0 .. s
      /\ \A k \in 0 .. s - 1 : zeros[k] = 0
  BY MulRowsInVector
<1>2. m \in Nat /\ y.used \in Nat /\ n = m + y.used + 1
  BY Fields DEF Safe
<1>3. X \in [Nat -> Int] /\ \A i \in Nat : X[i] = Dig(x, i) /\ X[i] \in Digit
  BY WordsAreDigits, WordsAreDig DEF Safe
<1>4. V \in Nat
  BY MagnitudeIsSum
<1> HIDE DEF row, s, zeros, n
<1>5. zeros \in Rows(s, y.used) /\ Sums(Extended(zeros, s))[s] = 0
  <2>1. zeros \in [0 .. s - 1 -> Digit]
    <3>1. 0 \in 0 .. m
      BY <1>2
    <3>2. row[0] \in [0 .. s - 1 -> Digit]
      BY <1>1, <3>1 DEF Rows
    <3>3. QED
      BY <1>1, <3>2
  <2>2. zeros \in Rows(s, y.used)
    <3>1. \A k \in y.used .. s - 1 : k \in 0 .. s - 1
      BY <1>1, <1>2
    <3>2. QED
      BY <1>1, <2>1, <3>1 DEF Rows
  <2> DEFINE E == Extended(zeros, s)
  <2>3. E \in [Nat -> Int] /\ \A i \in 0 .. s - 1 : E[i] = 0
    BY <1>1 DEF Extended
  <2> HIDE DEF E
  <2>4. s \in 0 .. s
    BY <1>1
  <2>5. Sums(E)[s] = 0
    BY <1>1, <2>3, <2>4, SumsOfZeros
  <2>6. QED
    BY <2>2, <2>5 DEF E
<1> HIDE DEF X, V, m
<1> DEFINE S == {i \in Nat : i <= m =>
                   /\ row[i] \in Rows(s, i + y.used)
                   /\ Sums(Extended(row[i], s))[s] = Sums(X)[i] * V}
<1>6. 0 \in S
  <2>1. Sums(X)[0] = 0 /\ 0 * V = 0 /\ 0 + y.used = y.used
    BY <1>2, <1>3, <1>4, SumsUnfold
  <2>2. row[0] \in Rows(s, 0 + y.used)
    BY <1>1, <1>5, <2>1
  <2>3. Sums(Extended(row[0], s))[s] = Sums(X)[0] * V
    BY <1>1, <1>5, <2>1
  <2>4. QED
    BY <2>2, <2>3
<1>7. ASSUME NEW i \in S PROVE i + 1 \in S
  <2>1. SUFFICES ASSUME i + 1 <= m
                 PROVE  /\ row[i + 1] \in Rows(s, (i + 1) + y.used)
                        /\ Sums(Extended(row[i + 1], s))[s] = Sums(X)[i + 1] * V
    OBVIOUS
  <2>2. /\ i \in Nat /\ i + 1 \in Nat /\ i \in 0 .. m - 1 /\ i + 1 \in 0 .. m
        /\ row[i] \in Rows(s, i + y.used)
        /\ Sums(Extended(row[i], s))[s] = Sums(X)[i] * V
    BY <1>2, <2>1
  <2>3. PICK a \in Int, d \in Nat, w \in Nat, v \in Nat :
          Sums(X)[i] = a /\ X[i] = d /\ Weight(i) = w /\ V = v
    <3>1. Sums(X) \in [Nat -> Int]
      BY <1>3, SumsUnfold
    <3>2. Sums(X)[i] \in Int /\ X[i] \in Nat /\ Weight(i) \in Nat
      BY <1>3, <2>2, <3>1, Weights, RadixPositive DEF Digit
    <3>3. QED
      BY <1>4, <3>2
  <2>4. Sums(X)[i + 1] = a + d * w
    BY <1>3, <2>2, <2>3, SumsUnfold
  <2>5. CASE IsZero(y)
    <3>1. row[i + 1] = zeros /\ y.used = 0
      BY <1>1, <2>2, <2>5 DEF IsZero
    <3>2. v = 0
      BY <2>3, <3>1, ZeroMagnitude DEF V
    <3>3. zeros \in Rows(s, (i + 1) + y.used)
      <4>1. \A k \in (i + 1) + y.used .. s - 1 : k \in y.used .. s - 1
        BY <1>1, <1>2, <2>2
      <4>2. QED
        BY <1>5, <4>1 DEF Rows
    <3>4. (a + d * w) * v = 0
      BY <3>2
    <3>5. QED
      BY <1>5, <2>3, <2>4, <3>1, <3>3, <3>4
  <2>6. CASE ~IsZero(y)
    <3> DEFINE e == Dig(x, i)
               r == AddRow(row[i], e, y, i)
    <3>1. row[i + 1] = r /\ e = d /\ e \in Digit
      BY <1>1, <1>3, <2>2, <2>3, <2>6
    <3>2. i + y.used < s /\ i + y.used < (i + 1) + y.used /\ (i + 1) + y.used \in 0 .. s
      BY <1>1, <1>2, <2>2
    <3>3. row[i] \in Rows(s, (i + 1) + y.used)
      <4>1. \A k \in (i + 1) + y.used .. s - 1 : k \in i + y.used .. s - 1
        BY <1>1, <1>2, <2>2
      <4>2. QED
        BY <2>2, <4>1 DEF Rows
    <3> HIDE DEF e
    <3>4. r \in Rows(s, (i + 1) + y.used)
      BY <1>1, <2>2, <3>1, <3>2, <3>3, AddRowInVector
    <3>5. Sums(Extended(r, s))[s]
            = Sums(Extended(row[i], s))[s] + e * (Weight(i) * Magnitude(y))
      BY <1>1, <2>2, <3>1, <3>2, RowExact
    <3>6. Sums(Extended(r, s))[s] = a * v + d * (w * v)
      BY <2>2, <2>3, <3>1, <3>5 DEF V
    <3>7. a * v + d * (w * v) = (a + d * w) * v
      OBVIOUS
    <3>8. QED
      BY <2>3, <2>4, <3>1, <3>4, <3>6, <3>7
  <2>7. QED
    BY <2>5, <2>6
<1> HIDE DEF S
<1>8. S = Nat
  BY <1>6, <1>7, SetInduction DEF S
<1>9. Sums(Extended(row[m], s))[s] = Sums(X)[m] * V
  <2>1. m <= m
    BY <1>2
  <2>2. QED
    BY <1>2, <1>8, <2>1 DEF S
<1>10. Sums(X)[m] = Magnitude(x)
  <2>1. m <= m /\ m \in Nat
    BY <1>2
  <2>2. QED
    BY <2>1, MagnitudeIsSum DEF X, m
<1>11. QED
  BY <1>9, <1>10 DEF row, s, n, m, V

(* The sign of a product. *)
LEMMA ProductSign ==
  ASSUME NEW s \in BOOLEAN, NEW t \in BOOLEAN, NEW a \in Nat, NEW b \in Nat
  PROVE  (IF s THEN -a ELSE a) * (IF t THEN -b ELSE b)
           = IF s # t THEN -(a * b) ELSE a * b
<1>1. (-a) * (-b) = a * b /\ (-a) * b = -(a * b) /\ a * (-b) = -(a * b)
  OBVIOUS
<1>2. QED
  BY <1>1

(* *=, but for a zero and a number of the other sign. *)
LEMMA MulExact ==
  ASSUME NEW x, Proper(x), NEW y, Proper(y),
         ~(x.neg # y.neg /\ (IsZero(x) \/ IsZero(y)))
  PROVE  Proper(Mul(x, y)) /\ Value(Mul(x, y)) = Value(x) * Value(y)
<1> DEFINE n == x.used + y.used + 1
           sz == New(n).size
           d == MulRows(x, y)[x.used]
           s == (x.neg # y.neg)
<1>0. Safe(x) /\ Safe(y)
  BY DEF Proper
<1>1. PICK z : /\ Mul(x, y) = [Clamp(z) EXCEPT !.neg = s]
               /\ Safe(z) /\ z.used = n /\ z.size = sz /\ z.dig = d
  BY <1>0, MulSafe
<1>2. Sums(Extended(d, sz))[sz] = Magnitude(x) * Magnitude(y)
  BY <1>0, RowsExact
<1> HIDE DEF n, sz, d
<1>3. Words(z) = Extended(d, sz)
  BY <1>1 DEF Words, Extended
<1>4. z.size \in Nat /\ z.size >= z.used
  BY <1>1, Fields DEF Safe, UsedInVector
<1>5. Magnitude(z) = Magnitude(x) * Magnitude(y)
  BY <1>1, <1>2, <1>3, <1>4, MagnitudeIsSum
<1>6. Proper(Clamp(z)) /\ Magnitude(Clamp(z)) = Magnitude(z)
  BY <1>1, ClampExact
<1>7. PICK a \in Nat, b \in Nat : Magnitude(x) = a /\ Magnitude(y) = b
  BY ProperValue
<1>8. /\ x.neg \in BOOLEAN /\ y.neg \in BOOLEAN /\ s \in BOOLEAN
      /\ Value(x) = (IF x.neg THEN -a ELSE a) /\ Value(y) = (IF y.neg THEN -b ELSE b)
  BY <1>7, ProperValue DEF Value
<1>9. ~s \/ a * b # 0
  <2>1. (x.used = 0 <=> a = 0) /\ (y.used = 0 <=> b = 0)
    BY <1>7, ProperValue
  <2>2. a # 0 /\ b # 0 => a * b # 0
    OBVIOUS
  <2>3. QED
    BY <2>1, <2>2 DEF IsZero
<1>10. Value(x) * Value(y) = IF s THEN -(a * b) ELSE a * b
  BY <1>8, ProductSign
<1> HIDE DEF s
<1> DEFINE p == Clamp(z)
<1>11. Proper(p) /\ Magnitude(p) = a * b /\ Mul(x, y) = [p EXCEPT !.neg = s]
  BY <1>1, <1>5, <1>6, <1>7
<1> HIDE DEF p
<1>12. LET q == [p EXCEPT !.neg = s]
       IN  Proper(q) /\ Value(q) = IF s THEN -Magnitude(p) ELSE Magnitude(p)
  BY <1>8, <1>9, <1>11, SignedProper
<1>13. QED
  BY <1>10, <1>11, <1>12

-----------------------------------------------------------------------------
(***************************************************************************)
(* Shifts.                                                                 *)
(***************************************************************************)
(* A magnitude of at least the weight of the leading digit has one. *)
LEMMA LeadingByMagnitude ==
  ASSUME NEW x, Safe(x), x.used > 0 => Magnitude(x) >= Weight(x.used - 1)
  PROVE  LeadingNonzero(x)
<1>1. SUFFICES ASSUME x.used > 0, x.dig[x.used - 1] = 0 PROVE FALSE
  BY DEF LeadingNonzero
<1>2. PICK n \in Nat : x.used = n + 1 /\ x.used - 1 = n
  <2>1. x.used - 1 \in Nat /\ x.used = (x.used - 1) + 1
    BY <1>1, Fields DEF Safe
  <2>2. QED
    BY <2>1
<1>3. Words(x) \in [Nat -> Digit] /\ Words(x) \in [Nat -> Int]
  BY WordsAreDigits DEF Safe
<1>4. Words(x)[n] = 0
  <2>1. x.size \in Nat /\ x.used <= x.size
    BY Fields DEF Safe, UsedInVector
  <2>2. QED
    BY <1>1, <1>2, <2>1 DEF Words
<1>5. PICK w \in Nat \ {0} : Weight(n) = w
  BY Weights
<1>6. PICK s \in 0 .. w - 1 : Sums(Words(x))[n] = s
  BY <1>3, <1>5, SumsBound
<1>7. Sums(Words(x))[n + 1] = s + 0 * w
  BY <1>3, <1>4, <1>5, <1>6, SumsUnfold
<1>8. Magnitude(x) = s
  BY <1>2, <1>7, MagnitudeIsSum
<1>9. QED
  BY <1>1, <1>2, <1>5, <1>8

(* A digit shifted up, and what it loses. *)
LEMMA ShiftedUp ==
  ASSUME NEW P \in Nat \ {0}, NEW Q \in Nat \ {0}, NEW d \in Nat
  PROVE  ((d * P) % (P * Q)) + (P * Q) * (d \div Q) = P * d
<1>1. (d * P) % (P * Q) = P * (d % Q)
  BY MulMod
<1>2. PICK q \in Int, r \in Int : d \div Q = q /\ d % Q = r /\ d = Q * q + r
  BY DivMod
<1>3. P * r + (P * Q) * q = P * (Q * q + r)
  OBVIOUS
<1>4. QED
  BY <1>1, <1>2, <1>3

(* The loop of <<= multiplies by a power of two. *)
LEMMA ShlBitsExact ==
  ASSUME NEW x, Safe(x), x.used < x.size, NEW n \in 0 .. DigitBits
  PROVE  /\ Safe(ShlBits(x, n)) /\ ShlBits(x, n).neg = x.neg
         /\ Magnitude(ShlBits(x, n)) = Pow2[n] * Magnitude(x)
         /\ LeadingNonzero(x) => LeadingNonzero(ShlBits(x, n))
         /\ x.used = 0 => ShlBits(x, n).used = 0
<1> DEFINE z == ShlBits(x, n)
           m == x.used
           C(i) == IF i = 0 THEN 0 ELSE Dig(x, i - 1) \div Pow2[DigitBits - n]
           c == [i \in Nat |-> C(i)]
           X == Words(x)
<1>1. PICK P \in Nat \ {0}, Q \in Nat \ {0} :
        Pow2[n] = P /\ Pow2[DigitBits - n] = Q /\ DigitRadix = P * Q
  BY RadixSplit
<1>2. m \in Nat /\ x.size \in Nat /\ m < x.size
  BY Fields DEF Safe
<1>3. Safe(z) /\ z.size = x.size /\ z.used \in m .. m + 1
  BY ShlBitsSafe
<1>4. /\ z.neg = x.neg
      /\ z.used = IF C(m) # 0 THEN m + 1 ELSE m
      /\ \A i \in 0 .. x.size - 1 :
           z.dig[i] = IF i < m THEN ((x.dig[i] * Pow2[n]) % DigitRadix) + C(i)
                      ELSE IF i = m /\ C(m) # 0 THEN C(m) ELSE x.dig[i]
  <2>1. x \in Exactly(x.neg, x.used, x.size, x.dig)
    BY Shape DEF Safe
  <2>2. QED
    BY <2>1 DEF ShlBits, Exactly
<1>5. X \in [Nat -> Int] /\ \A i \in Nat : X[i] = Dig(x, i) /\ X[i] \in Nat
  <2>1. X \in [Nat -> Digit] /\ X \in [Nat -> Int] /\ \A i \in Nat : X[i] = Dig(x, i)
    BY WordsAreDigits, WordsAreDig DEF Safe
  <2>2. QED
    BY <2>1, RadixPositive DEF Digit
<1>6. X[m] = 0
  BY <1>2, WordsAreDig
<1>7. /\ c[0] = 0
      /\ \A i \in Nat : c[i] = C(i)
      /\ \A i \in Nat : c[i + 1] = X[i] \div Q
  <2>1. ASSUME NEW i \in Nat PROVE c[i + 1] = X[i] \div Q
    <3>1. i + 1 \in Nat /\ i + 1 # 0 /\ (i + 1) - 1 = i
      OBVIOUS
    <3>2. c[i + 1] = Dig(x, (i + 1) - 1) \div Pow2[DigitBits - n]
      BY <3>1
    <3>3. QED
      BY <1>1, <1>5, <3>1, <3>2, Zenon
  <2>2. QED
    BY <2>1
<1>8. \A i \in Nat : c[i] \in Int
  <2>1. ASSUME NEW i \in Nat, i # 0 PROVE c[i] \in Int
    <3>1. i - 1 \in Nat /\ (i - 1) + 1 = i
      BY <2>1
    <3>2. X[i - 1] \div Q \in Int
      BY <1>5, <3>1, DivMod
    <3>3. c[(i - 1) + 1] = X[i - 1] \div Q
      BY <1>7, <3>1
    <3>4. QED
      BY <3>1, <3>2, <3>3
  <2>2. c[0] \in Int
    <3>1. c[0] = 0
      BY <1>7
    <3>2. QED
      BY <3>1
  <2> HIDE DEF c
  <2>3. QED
    BY <2>1, <2>2
<1> DEFINE u == [i \in Nat |-> P * X[i]]
<1>9. u \in [Nat -> Int] /\ \A i \in Nat : u[i] = P * X[i]
  BY <1>5
<1> HIDE DEF z, X, c, u
<1>10. c[m + 1] = 0
  <2>1. 0 = Q * 0 + 0
    OBVIOUS
  <2>2. 0 \div Q = 0
    BY <2>1, DivModUnique
  <2>3. QED
    BY <1>2, <1>6, <1>7, <2>2
<1>11. ASSUME NEW i \in 0 .. (m + 1) - 1
       PROVE  Words(z)[i] + DigitRadix * c[i + 1] = u[i] + c[i]
  <2>1. i \in Nat /\ i <= m /\ i < x.size
    BY <1>2
  <2>2. PICK d \in Nat, f \in Int : X[i] = d /\ c[i] = f
    BY <1>5, <1>8, <2>1
  <2>3. Words(z)[i] = z.dig[i]
    BY <1>3, <2>1 DEF Words
  <2>4. PICK k \in Int, h \in Int : k = (d * P) % (P * Q) /\ h = d \div Q
    <3>1. P * Q \in Nat \ {0}
      OBVIOUS
    <3>2. (d * P) % (P * Q) \in Int /\ d \div Q \in Int
      <4>1. PICK e \in Int : d * P = e
        OBVIOUS
      <4>2. PICK R \in Nat \ {0} : P * Q = R
        BY <3>1
      <4>3. e % R \in Int
        BY DivMod
      <4>4. d \div Q \in Int
        BY DivMod
      <4>5. QED
        BY <4>1, <4>2, <4>3, <4>4
    <3>3. QED
      BY <3>2
  <2>5. k + (P * Q) * h = P * d
    BY <2>4, ShiftedUp
  <2>6. CASE i < m
    <3>1. z.dig[i] = k + f
      <4>1. z.dig[i] = ((x.dig[i] * Pow2[n]) % DigitRadix) + C(i)
        BY <1>2, <1>4, <2>1, <2>6
      <4>2. x.dig[i] = d
        BY <1>5, <2>1, <2>2, <2>6 DEF Dig
      <4>3. C(i) = f
        BY <1>7, <2>1, <2>2
      <4>4. QED
        BY <1>1, <2>4, <4>1, <4>2, <4>3
    <3>2. c[i + 1] = h
      BY <1>7, <2>1, <2>2, <2>4
    <3>3. (k + f) + (P * Q) * h = P * d + f
      BY <2>5
    <3>4. QED
      BY <1>1, <1>9, <2>1, <2>2, <2>3, <3>1, <3>2, <3>3
  <2>7. CASE i = m
    <3>1. z.dig[m] = f
      <4>1. C(m) = f
        BY <1>2, <1>7, <2>2, <2>7
      <4>2. x.dig[m] = 0
        BY <1>2 DEF Safe, ClearAboveUsed
      <4>3. m \in 0 .. x.size - 1 /\ ~(m < m)
        BY <1>2
      <4>4. z.dig[m] = IF C(m) # 0 THEN C(m) ELSE x.dig[m]
        BY <1>4, <4>3
      <4>5. QED
        BY <4>1, <4>2, <4>4
    <3>2. d = 0
      BY <1>6, <2>2, <2>7
    <3>3. f + (P * Q) * 0 = P * 0 + f
      OBVIOUS
    <3>4. QED
      BY <1>1, <1>9, <1>10, <2>1, <2>2, <2>3, <2>7, <3>1, <3>2, <3>3
  <2>8. QED
    BY <1>2, <2>1, <2>6, <2>7
<1>12. Magnitude(z) = Sums(u)[m + 1]
  <2>1. /\ m + 1 \in Nat /\ z.used <= m + 1
        /\ \A i \in 0 .. m + 1 : c[i] \in Int
    BY <1>2, <1>3, <1>8
  <2> DEFINE k == m + 1
  <2>2. \A i \in 0 .. k - 1 : Words(z)[i] + DigitRadix * c[i + 1] = u[i] + c[i]
    BY <1>11
  <2>3. k \in Nat /\ z.used <= k /\ c[k] = 0 /\ \A i \in 0 .. k : c[i] \in Int
    BY <1>10, <2>1
  <2> HIDE DEF k
  <2>4. Magnitude(z) + c[k] * Weight(k) = Sums(u)[k] + c[0]
    BY <1>3, <1>9, <2>2, <2>3, ChainExact
  <2>5. Magnitude(z) \in Int /\ Weight(k) \in Int /\ Sums(u)[k] \in Int
    <3>1. Sums(u) \in [Nat -> Int]
      BY <1>9, SumsUnfold
    <3>2. QED
      BY <1>3, <2>3, <3>1, MagnitudeIsSum, Weights
  <2>6. Magnitude(z) = Sums(u)[k]
    BY <1>7, <2>3, <2>4, <2>5
  <2>7. QED
    BY <2>6 DEF k
<1>13. Magnitude(z) = P * Magnitude(x)
  <2>1. m + 1 \in Nat /\ m + 1 >= m
    BY <1>2
  <2>2. Sums(X)[m + 1] = Magnitude(x)
    BY <2>1, MagnitudeIsSum DEF X
  <2>3. Sums(u)[m + 1] = P * Sums(X)[m + 1]
    BY <1>5, <1>9, <2>1, SumsTimes
  <2>4. QED
    BY <1>12, <2>2, <2>3
<1>14. ASSUME LeadingNonzero(x) PROVE LeadingNonzero(z)
  <2>1. CASE C(m) # 0
    <3>1. z.used = m + 1 /\ (m + 1) - 1 = m /\ m \in 0 .. x.size - 1 /\ ~(m < m)
      BY <1>2, <1>4, <2>1
    <3>2. z.dig[m] = C(m)
      BY <1>4, <2>1, <3>1
    <3>3. QED
      BY <2>1, <3>1, <3>2 DEF LeadingNonzero
  <2>2. CASE C(m) = 0
    <3>1. z.used = m
      BY <1>4, <2>2
    <3>2. SUFFICES ASSUME m > 0 PROVE Magnitude(z) >= Weight(m - 1)
      BY <1>3, <3>1, LeadingByMagnitude
    <3>3. Magnitude(x) >= Weight(m - 1) /\ Weight(m - 1) \in Nat /\ Magnitude(x) \in Nat
      BY <1>2, <1>14, <3>2, MagnitudeAtLeast, MagnitudeIsSum, Weights
    <3>4. PICK a \in Nat : Magnitude(x) = a
      BY <3>3
    <3>5. P * a >= a
      OBVIOUS
    <3>6. QED
      BY <1>13, <3>3, <3>4, <3>5
  <2>3. QED
    BY <2>1, <2>2
<1>15. m = 0 => z.used = 0
  BY <1>4
<1>16. QED
  BY <1>1, <1>3, <1>4, <1>13, <1>14, <1>15 DEF z

(* The loop of >>= divides by a power of two. *)
LEMMA ShrBitsExact ==
  ASSUME NEW x, Safe(x), NEW n \in 0 .. DigitBits
  PROVE  /\ Safe(ShrBits(x, n)) /\ ShrBits(x, n).neg = x.neg
         /\ Magnitude(ShrBits(x, n)) = Magnitude(x) \div Pow2[n]
<1> DEFINE z == ShrBits(x, n)
           m == x.used
           X == Words(x)
           Z == Words(z)
           c == [i \in Nat |-> -(X[i] % Pow2[n])]
<1>1. PICK P \in Nat \ {0}, Q \in Nat \ {0} :
        Pow2[n] = P /\ Pow2[DigitBits - n] = Q /\ DigitRadix = P * Q
  BY RadixSplit
<1>2. m \in Nat /\ x.size \in Nat /\ m <= x.size
  BY Fields DEF Safe, UsedInVector
<1>3. Safe(z) /\ z.size = x.size /\ z.used = m
  BY ShrBitsSafe
<1>4. /\ z.neg = x.neg
      /\ \A i \in 0 .. m - 1 :
           z.dig[i] = x.dig[i] \div Pow2[n]
                      + ((Dig(x, i + 1) % Pow2[n]) * Pow2[DigitBits - n])
  <2>1. x \in Exactly(x.neg, x.used, x.size, x.dig)
    BY Shape DEF Safe
  <2>2. \A i \in 0 .. m - 1 : i \in 0 .. x.size - 1 /\ i < m
    BY <1>2
  <2>3. QED
    BY <2>1, <2>2 DEF ShrBits, Exactly
<1>5. X \in [Nat -> Int] /\ \A i \in Nat : X[i] = Dig(x, i) /\ X[i] \in Nat
  <2>1. X \in [Nat -> Digit] /\ X \in [Nat -> Int] /\ \A i \in Nat : X[i] = Dig(x, i)
    BY WordsAreDigits, WordsAreDig DEF Safe
  <2>2. QED
    BY <2>1, RadixPositive DEF Digit
<1>6. X[m] = 0
  BY <1>2, WordsAreDig
<1>7. Z \in [Nat -> Int]
  BY <1>3, WordsAreDigits DEF Safe
<1>8. \A i \in Nat : c[i] = -(X[i] % P) /\ c[i] \in Int /\ X[i] % P \in 0 .. P - 1
  <2>1. ASSUME NEW i \in Nat PROVE X[i] % P \in 0 .. P - 1
    BY <1>5, DivMod
  <2>2. ASSUME NEW i \in Nat PROVE c[i] = -(X[i] % P)
    BY <1>1
  <2>3. QED
    BY <2>1, <2>2
<1>10. c[m] = 0
  <2>1. 0 = P * 0 + 0
    OBVIOUS
  <2>2. 0 % P = 0
    BY <2>1, DivModUnique
  <2>3. QED
    BY <1>2, <1>6, <1>8, <2>2
<1> HIDE DEF c, X
<1>11. ASSUME NEW i \in 0 .. m - 1
       PROVE  P * Words(z)[i] + DigitRadix * c[i + 1] = X[i] + c[i]
  <2>1. i \in Nat /\ i + 1 \in Nat /\ i < m /\ i < x.size
    BY <1>2
  <2>2. PICK d \in Nat, e \in Nat : X[i] = d /\ X[i + 1] = e
    BY <1>5, <2>1
  <2>3. PICK q \in Int, r \in Int, f \in Int :
          d \div P = q /\ d % P = r /\ e % P = f /\ d = P * q + r
    <3>1. d \div P \in Int /\ d % P \in Int /\ d = P * (d \div P) + (d % P)
      BY DivMod
    <3>2. e % P \in Int
      BY DivMod
    <3>3. QED
      BY <3>1, <3>2
  <2>4. Z[i] = q + f * Q
    <3>1. Z[i] = z.dig[i]
      BY <1>3, <2>1 DEF Words
    <3>2. x.dig[i] = d /\ Dig(x, i + 1) = e
      BY <1>5, <2>1, <2>2 DEF Dig
    <3>3. QED
      BY <1>1, <1>4, <2>3, <3>1, <3>2
  <2>6. c[i + 1] = -f /\ c[i] = -r
    BY <1>8, <2>1, <2>2, <2>3
  <2>7. P * (q + f * Q) + (P * Q) * (-f) = (P * q + r) + (-r)
    OBVIOUS
  <2>8. QED
    BY <1>1, <2>2, <2>3, <2>4, <2>6, <2>7
<1>12. /\ m \in Nat /\ z.used <= m /\ X \in [Nat -> Int]
       /\ \A i \in 0 .. m : c[i] \in Int
       /\ \A i \in 0 .. m - 1 :
            P * Words(z)[i] + DigitRadix * c[i + 1] = X[i] + c[i]
  BY <1>2, <1>3, <1>5, <1>8, <1>11
<1>13. Sums(X)[m] = Magnitude(x)
  <2>1. m <= m
    BY <1>2
  <2>2. QED
    BY <1>2, <2>1, MagnitudeIsSum DEF X
<1>14. P * Magnitude(z) + c[m] * Weight(m) = Sums(X)[m] + c[0]
  <2> HIDE DEF m, z
  <2>1. QED
    <3>1. /\ Safe(z) /\ m \in Nat /\ z.used <= m /\ X \in [Nat -> Int] /\ P \in Nat
          /\ \A i \in 0 .. m : c[i] \in Int
          /\ \A i \in 0 .. m - 1 :
               P * Words(z)[i] + DigitRadix * c[i + 1] = X[i] + c[i]
      BY <1>3, <1>12
    <3>2. QED
      BY <3>1, ScaledChain
<1>15. PICK a \in Nat, b \in Nat, r \in 0 .. P - 1, w \in Nat :
         Magnitude(x) = a /\ Magnitude(z) = b /\ c[0] = -r /\ Weight(m) = w
  <2>1. Magnitude(x) \in Nat /\ Magnitude(z) \in Nat /\ Weight(m) \in Nat
    BY <1>2, <1>3, MagnitudeIsSum, Weights
  <2>2. PICK r \in 0 .. P - 1 : c[0] = -r
    BY <1>8
  <2>3. QED
    BY <2>1, <2>2
<1>16. a = P * b + r
  <2>1. P * b + 0 * w = a + (-r)
    BY <1>10, <1>13, <1>14, <1>15
  <2>2. QED
    BY <2>1
<1>17. a \div P = b
  BY <1>16, DivModUnique
<1>18. QED
  BY <1>1, <1>3, <1>4, <1>15, <1>17 DEF z

(* A magnitude scaled by a positive number, with the sign kept, is the value *)
(* scaled.                                                                   *)
LEMMA ScaledValue ==
  ASSUME NEW x, Proper(x), NEW z, Safe(z), LeadingNonzero(z), z.neg = x.neg,
         NEW P \in Nat \ {0}, Magnitude(z) = P * Magnitude(x)
  PROVE  Proper(z) /\ Value(z) = Value(x) * P
<1>1. PICK a \in Nat : Magnitude(x) = a
  BY ProperValue
<1>2. Magnitude(z) = P * a /\ (P * a = 0 <=> a = 0)
  BY <1>1
<1>3. ZeroNonnegative(z)
  <2>1. z.used = 0 => a = 0
    BY <1>2, ZeroMagnitude
  <2>2. a = 0 => x.used = 0
    BY <1>1, ZeroMagnitude DEF Proper
  <2>3. QED
    BY <2>1, <2>2 DEF Proper, ZeroNonnegative, IsZero
<1>4. Value(z) = Value(x) * P
  <2>1. Value(x) = IF x.neg THEN -a ELSE a
    BY <1>1 DEF Value
  <2>2. Value(z) = IF x.neg THEN -(P * a) ELSE P * a
    BY <1>2 DEF Value
  <2>3. (-a) * P = -(P * a) /\ a * P = P * a
    OBVIOUS
  <2>4. QED
    BY <2>1, <2>2, <2>3
<1>5. QED
  BY <1>3, <1>4 DEF Proper

(* A magnitude with the sign of another number: what the operations that     *)
(* truncate towards zero leave, once clamp has made a zero nonnegative.      *)
Signed(x, m) == IF x.neg THEN -m ELSE m

(* Zero has no sign. *)
LEMMA SignedZero ==
  ASSUME NEW x
  PROVE  Signed(x, 0) = 0
<1>1. ASSUME NEW m \in Int, m + m = m PROVE -m = m
  BY <1>1
<1>2. 0 \in Int /\ 0 + 0 = 0
  OBVIOUS
<1>3. -0 = 0
  BY <1>1, <1>2, Zenon
<1>4. QED
  BY <1>3, Zenon DEF Signed

(* clamp leaves the sign and the magnitude it is given. *)
LEMMA ClampSigned ==
  ASSUME NEW x, NEW z, Safe(z), z.neg = x.neg \/ Magnitude(z) = 0
  PROVE  /\ Proper(Clamp(z)) /\ Value(Clamp(z)) = Signed(x, Magnitude(z))
         /\ Magnitude(Clamp(z)) = Magnitude(z)
<1>1. /\ Proper(Clamp(z)) /\ Value(Clamp(z)) = Value(z)
      /\ Magnitude(Clamp(z)) = Magnitude(z) /\ Magnitude(z) \in Nat
  BY ClampExact, MagnitudeIsSum
<1>3. CASE z.neg = x.neg
  BY <1>1, <1>3 DEF Value, Signed
<1>4. CASE Magnitude(z) = 0
  <2>1. Value(z) = 0
    BY <1>4, SignedZero, Zenon DEF Value, Signed
  <2>2. QED
    BY <1>1, <1>4, <2>1, SignedZero
<1>5. QED
  BY <1>3, <1>4

(* multiplyByTwo doubles the value. *)
LEMMA MultiplyByTwoExact ==
  ASSUME NEW x, Proper(x)
  PROVE  Proper(MultiplyByTwo(x)) /\ Value(MultiplyByTwo(x)) = Value(x) * 2
<1> DEFINE g == Grow(x, x.used + 1)
           z == ShlBits(g, 1)
<1>1. x.used \in Nat /\ x.used + 1 \in Nat
  BY Fields DEF Proper, Safe
<1>2. Safe(g) /\ g.size >= x.used + 1 /\ g.neg = x.neg /\ g.used = x.used
      /\ Magnitude(g) = Magnitude(x) /\ LeadingNonzero(g)
  BY <1>1, GrowWords, GrowExact DEF Proper
<1> HIDE DEF g
<1>3. g.used < g.size
  BY <1>1, <1>2, Fields DEF Safe
<1>4. 1 \in 0 .. DigitBits /\ Pow2[1] = 2
  <2>1. Pow2[0 + 1] = 2 * Pow2[0] /\ Pow2[0] = 1
    BY Pow2Unfold
  <2>2. 0 + 1 = 1 /\ 2 * 1 = 2
    OBVIOUS
  <2>3. QED
    BY <2>1, <2>2, DigitBitsAssumption
<1>5. /\ Safe(z) /\ z.neg = g.neg /\ LeadingNonzero(z)
      /\ Magnitude(z) = 2 * Magnitude(g)
  BY <1>2, <1>3, <1>4, ShlBitsExact
<1> HIDE DEF z
<1>6. Proper(z) /\ Value(z) = Value(x) * 2
  <2>1. z.neg = x.neg /\ Magnitude(z) = 2 * Magnitude(x) /\ 2 \in Nat \ {0}
    BY <1>2, <1>5
  <2>2. QED
    BY <1>5, <2>1, ScaledValue
<1>7. MultiplyByTwo(x) = z
  BY DEF MultiplyByTwo, z, g
<1>8. QED
  BY <1>6, <1>7

(* divideByTwo halves the magnitude. *)
LEMMA DivideByTwoExact ==
  ASSUME NEW x, Proper(x)
  PROVE  /\ Proper(DivideByTwo(x))
         /\ Value(DivideByTwo(x)) = Signed(x, Magnitude(x) \div 2)
<1> DEFINE z == ShrBits(x, 1)
<1>1. 1 \in 0 .. DigitBits /\ Pow2[1] = 2
  <2>1. Pow2[0 + 1] = 2 * Pow2[0] /\ Pow2[0] = 1
    BY Pow2Unfold
  <2>2. 0 + 1 = 1 /\ 2 * 1 = 2
    OBVIOUS
  <2>3. QED
    BY <2>1, <2>2, DigitBitsAssumption
<1>2. Safe(z) /\ z.neg = x.neg /\ Magnitude(z) = Magnitude(x) \div 2
  BY <1>1, ShrBitsExact DEF Proper
<1> HIDE DEF z
<1>3. QED
  BY <1>2, ClampSigned DEF DivideByTwo, z

(* leftDigitShift moves the words up. *)
LEMMA LeftDigitShiftExact ==
  ASSUME NEW x, Safe(x), NEW k \in Nat
  PROVE  LET z == LeftDigitShift(x, k)
         IN  /\ Safe(z) /\ z.neg = x.neg
             /\ Magnitude(z) = Weight(k) * Magnitude(x)
             /\ LeadingNonzero(x) /\ (k > 0 => x.used > 0) => LeadingNonzero(z)
<1> DEFINE z == LeftDigitShift(x, k)
           g == Grow(x, x.used + k)
           X == Words(x)
           Z == Words(z)
           m == x.used
<1>1. m \in Nat /\ m + k \in Nat
  BY Fields DEF Safe
<1>2. Safe(z) /\ z.used = m + k /\ z.size \in Nat /\ z.used <= z.size
  BY LeftDigitShiftSafe, Fields DEF Safe, UsedInVector
<1>3. /\ Safe(g) /\ g.neg = x.neg
      /\ \A i \in 0 .. x.size - 1 : g.dig[i] = x.dig[i]
  BY <1>1, GrowSafe DEF Safe
<1>4. /\ z.neg = x.neg
      /\ \A i \in 0 .. m + k - 1 : z.dig[i] = IF i < k THEN 0 ELSE x.dig[i - k]
  <2>1. CASE k = 0
    BY <2>1 DEF LeftDigitShift
  <2>2. CASE k # 0
    <3>1. g \in Exactly(g.neg, g.used, g.size, g.dig)
      BY <1>3, Shape DEF Safe
    <3>2. /\ z.neg = g.neg /\ z.size = g.size
          /\ \A i \in 0 .. g.size - 1 : z.dig[i] = IF i < k THEN 0
                                ELSE IF i < x.used + k THEN g.dig[i - k]
                                ELSE g.dig[i]
      BY <2>2, <3>1 DEF LeftDigitShift, Exactly
    <3>3. \A i \in 0 .. m + k - 1 :
            /\ i \in 0 .. g.size - 1 /\ i < x.used + k
            /\ ~(i < k) => i - k \in 0 .. x.size - 1
      BY <1>1, <1>2, <3>2, Fields DEF Safe, UsedInVector
    <3>4. QED
      BY <1>3, <3>2, <3>3
  <2>3. QED
    BY <2>1, <2>2
<1>5. x.size \in Nat /\ m <= x.size
  BY Fields DEF Safe, UsedInVector
<1>6. X \in [Nat -> Int] /\ Z \in [Nat -> Int]
  BY <1>2, WordsAreDigits DEF Safe
<1>7. ASSUME NEW i \in Nat PROVE Z[i] = IF i < k THEN 0 ELSE X[i - k]
  <2>1. CASE i < m + k
    <3>1. Z[i] = z.dig[i]
      BY <1>1, <1>2, <2>1 DEF Words
    <3>2. i >= k => X[i - k] = x.dig[i - k]
      BY <1>1, <1>5, <2>1 DEF Words
    <3>3. QED
      BY <1>1, <1>4, <2>1, <3>1, <3>2
  <2>2. CASE ~(i < m + k)
    <3>1. Z[i] = 0
      BY <1>1, <1>2, <2>2, WordsAreDig
    <3>2. i - k \in Nat /\ i - k >= m /\ ~(i < k)
      BY <1>1, <2>2
    <3>3. X[i - k] = 0
      BY <3>2, WordsAreDig
    <3>4. QED
      BY <3>1, <3>2, <3>3
  <2>3. QED
    BY <2>1, <2>2
<1>8. Magnitude(z) = Weight(k) * Magnitude(x)
  <2>1. Sums(X)[m] = Magnitude(x) /\ Sums(Z)[m + k] = Magnitude(z)
    <3>1. m <= m /\ m + k <= m + k
      BY <1>1
    <3>2. QED
      BY <1>1, <1>2, <3>1, MagnitudeIsSum
  <2> HIDE DEF X, Z
  <2>2. \A j \in Nat : Sums(Z)[j + k] = Weight(k) * Sums(X)[j]
    BY <1>6, <1>7, MovedUp
  <2>3. QED
    BY <1>1, <2>1, <2>2
<1>9. ASSUME LeadingNonzero(x), k > 0 => x.used > 0 PROVE LeadingNonzero(z)
  <2>1. CASE m = 0
    BY <1>1, <1>2, <1>9, <2>1 DEF LeadingNonzero
  <2>2. CASE m # 0
    <3>1. m - 1 \in Nat /\ (m + k) - 1 \in Nat /\ (m + k) - 1 = (m - 1) + k
      BY <1>1, <2>2
    <3>2. x.dig[m - 1] # 0
      BY <1>1, <1>9, <2>2 DEF LeadingNonzero
    <3>3. /\ (m + k) - 1 \in 0 .. m + k - 1 /\ ~((m + k) - 1 < k)
          /\ ((m + k) - 1) - k = m - 1
      BY <1>1, <2>2
    <3>4. z.dig[(m + k) - 1] = x.dig[m - 1]
      BY <1>4, <3>3
    <3>5. QED
      BY <1>2, <3>2, <3>4 DEF LeadingNonzero
  <2>3. QED
    BY <2>1, <2>2
<1>10. QED
  BY <1>2, <1>4, <1>8, <1>9

(* rightDigitShift divides the magnitude by the weight it drops, and leaves  *)
(* no leading zero where there was none.                                     *)
LEMMA RightDigitShiftExact ==
  ASSUME NEW x, Proper(x), NEW k \in Nat
  PROVE  LET z == RightDigitShift(x, k)
         IN  /\ Proper(z) /\ Magnitude(z) = Magnitude(x) \div Weight(k)
             /\ Value(z) = Signed(x, Magnitude(z))
             /\ z.neg = x.neg \/ Magnitude(z) = 0
<1> DEFINE z == RightDigitShift(x, k)
           X == Words(x)
           Z == Words(z)
           m == x.used
<1>1. /\ Safe(x) /\ m \in Nat /\ x.size \in Nat /\ m <= x.size
      /\ Magnitude(x) \in Nat
  BY Fields, MagnitudeIsSum DEF Proper, Safe, UsedInVector
<1>2. PICK w \in Nat \ {0}, a \in Nat : Weight(k) = w /\ Magnitude(x) = a
  BY <1>1, Weights
<1>3. CASE k = 0
  <2>1. w = 1
    BY <1>2, <1>3, Weights
  <2>2. a \div 1 = a
    OBVIOUS
  <2>3. z = x
    BY <1>3 DEF RightDigitShift
  <2>4. QED
    BY <1>2, <2>1, <2>2, <2>3 DEF Value, Signed
<1>4. CASE k # 0 /\ m <= k
  <2>1. Weight(m) <= w /\ Weight(m) \in Nat
    BY <1>1, <1>2, <1>4, WeightsGrow, Weights
  <2>2. a < w
    <3>1. a \in 0 .. Weight(m) - 1
      BY <1>1, <1>2, MagnitudeIsSum
    <3>2. QED
      BY <2>1, <3>1
  <2>3. a \div w = 0
    <3>1. a = w * 0 + a
      OBVIOUS
    <3>2. QED
      BY <2>2, <3>1, DivModUnique
  <2>4. z = Zero(x)
    BY <1>4 DEF RightDigitShift
  <2>5. Proper(z) /\ Value(z) = 0 /\ Magnitude(z) = 0
    BY <1>1, <2>4, ZeroExact
  <2>6. Value(z) = Signed(x, Magnitude(z))
    BY <2>5, SignedZero
  <2>7. QED
    BY <1>2, <2>3, <2>5, <2>6
<1>5. CASE k # 0 /\ ~(m <= k)
  <2> DEFINE u == m - k
  <2>1. u \in Nat /\ u > 0 /\ m = u + k
    BY <1>1, <1>5
  <2>2. /\ z.neg = x.neg /\ z.used = u
        /\ \A i \in 0 .. u - 1 : z.dig[i] = x.dig[i + k]
    <3>1. x \in Exactly(x.neg, x.used, x.size, x.dig)
      BY <1>1, Shape DEF Safe
    <3>2. \A i \in 0 .. u - 1 : i \in 0 .. x.size - 1 /\ i < x.used - k
      BY <1>1, <2>1
    <3>3. QED
      BY <1>5, <3>1, <3>2 DEF RightDigitShift, Exactly
  <2>3. Safe(z) /\ z.size = x.size /\ u <= z.size
    <3>1. Safe(z) /\ z.size = x.size
      BY <1>1, RightDigitShiftSafe
    <3>2. QED
      BY <1>1, <2>1, <3>1
  <2>4. X \in [Nat -> Digit] /\ X \in [Nat -> Int] /\ Z \in [Nat -> Int]
    BY <1>1, <2>3, WordsAreDigits DEF Safe
  <2>5. ASSUME NEW i \in Nat PROVE Z[i] = X[i + k]
    <3>1. CASE i < u
      <4>1. Z[i] = z.dig[i] /\ X[i + k] = x.dig[i + k]
        BY <1>1, <2>1, <2>3, <3>1 DEF Words
      <4>2. QED
        BY <2>1, <2>2, <3>1, <4>1
    <3>2. CASE ~(i < u)
      <4>1. i + k \in Nat /\ i + k >= m /\ i >= u
        BY <2>1, <3>2
      <4>2. X[i + k] = 0
        BY <1>1, <4>1, WordsAreDig
      <4>3. Z[i] = 0
        BY <2>2, <2>3, <4>1, WordsAreDig
      <4>4. QED
        BY <4>2, <4>3
    <3>3. QED
      BY <3>1, <3>2
  <2>6. Sums(X)[m] = a /\ Sums(Z)[u] = Magnitude(z) /\ Magnitude(z) \in Nat
    <3>1. m <= m /\ u <= u
      BY <1>1, <2>1
    <3>2. QED
      BY <1>1, <1>2, <2>1, <2>2, <2>3, <3>1, MagnitudeIsSum
  <2> HIDE DEF X, Z
  <2>7. Sums(X)[u + k] = Sums(X)[k] + Weight(k) * Sums(Z)[u]
    <3>1. \A i \in Nat : Sums(X)[i + k] = Sums(X)[k] + Weight(k) * Sums(Z)[i]
      BY <2>4, <2>5, SumsSplit
    <3>2. QED
      BY <2>1, <3>1
  <2>8. Sums(X)[k] \in 0 .. w - 1
    <3>1. X \in [Nat -> Digit]
      BY <2>4
    <3>2. \A i \in Nat : Sums(X)[i] \in 0 .. Weight(i) - 1
      BY <3>1, SumsBound
    <3>3. QED
      BY <1>2, <3>2
  <2>9. PICK r \in 0 .. w - 1, q \in Nat : Sums(X)[k] = r /\ Magnitude(z) = q
    BY <2>6, <2>8
  <2>10. a = w * q + r
    BY <1>2, <2>1, <2>6, <2>7, <2>9
  <2>11. a \div w = q
    BY <2>10, DivModUnique
  <2>12. LeadingNonzero(z)
    <3>1. x.dig[m - 1] # 0
      BY <1>1, <1>5 DEF Proper, LeadingNonzero
    <3>2. u - 1 \in 0 .. u - 1 /\ (u - 1) + k = m - 1
      BY <1>1, <2>1
    <3>3. z.dig[u - 1] = x.dig[m - 1]
      BY <2>2, <3>2
    <3>4. QED
      BY <2>2, <3>1, <3>3 DEF LeadingNonzero
  <2>13. Proper(z)
    BY <2>1, <2>2, <2>3, <2>12 DEF Proper, ZeroNonnegative, IsZero
  <2>14. QED
    BY <1>2, <2>2, <2>9, <2>11, <2>13 DEF Value, Signed
<1>6. QED
  BY <1>3, <1>4, <1>5

(* <<= multiplies the value, except that a zero moved by whole digits keeps  *)
(* them in use.                                                              *)
LEMMA ShlExact ==
  ASSUME NEW x, Proper(x), NEW n \in Nat, ~(IsZero(x) /\ n >= DigitBits)
  PROVE  Proper(Shl(x, n)) /\ Value(Shl(x, n)) = Value(x) * Pow2[n]
<1> DEFINE k == n \div DigitBits
           r == n % DigitBits
           c == Grow(x, x.used + k + 1)
           g == LeftDigitShift(c, k)
           z == ShlBits(g, r)
<1>1. /\ k \in Nat /\ r \in 0 .. DigitBits /\ r \in Nat /\ x.used \in Nat
      /\ n = DigitBits * k + r /\ x.used + k + 1 \in Nat
      /\ n < DigitBits => k = 0
  <2>1. DigitBits \in Nat \ {0} /\ n \in Int
    BY DigitBitsAssumption
  <2>2. k \in Int /\ r \in 0 .. DigitBits - 1 /\ n = DigitBits * k + r
    BY <2>1, DivMod
  <2>3. n < DigitBits => k = 0
    <3>1. n = DigitBits * 0 + n
      BY <2>1
    <3>2. QED
      BY <2>1, <3>1, DivModUnique
  <2>4. k \in Nat
    BY <2>1
  <2>5. x.used \in Nat
    BY Fields DEF Proper, Safe
  <2>6. QED
    BY <2>1, <2>2, <2>3, <2>4, <2>5
<1>2. Shl(x, n) = IF r = 0 THEN g ELSE z
  BY DEF Shl
<1> HIDE DEF k, r
<1>3. /\ Safe(c) /\ c.size >= x.used + k + 1 /\ c.neg = x.neg /\ c.used = x.used
      /\ Magnitude(c) = Magnitude(x) /\ LeadingNonzero(c)
  BY <1>1, GrowWords, GrowExact DEF Proper
<1>4. k > 0 => c.used > 0
  BY <1>1, <1>3, DigitBitsAssumption DEF IsZero
<1> HIDE DEF c
<1>5. /\ Safe(g) /\ g.neg = x.neg /\ LeadingNonzero(g)
      /\ Magnitude(g) = Weight(k) * Magnitude(x)
      /\ g.used = x.used + k /\ g.size >= c.size
  BY <1>1, <1>3, <1>4, LeftDigitShiftExact, LeftDigitShiftSafe, ZenonT(60)
<1>6. g.used < g.size
  <2>1. g.size \in Int /\ c.size \in Int
    BY <1>3, <1>5, Fields DEF Safe
  <2>2. QED
    BY <1>1, <1>3, <1>5, <2>1
<1> HIDE DEF g
<1>7. /\ Safe(z) /\ z.neg = g.neg /\ LeadingNonzero(z)
      /\ Magnitude(z) = Pow2[r] * Magnitude(g)
  BY <1>1, <1>5, <1>6, ShlBitsExact
<1> HIDE DEF z
<1>8. PICK w \in Nat \ {0}, p \in Nat \ {0}, a \in Nat :
        Weight(k) = w /\ Pow2[r] = p /\ Magnitude(x) = a
  BY <1>1, Weights, Pow2Unfold, ProperValue
<1>9. Pow2[n] = w * p
  <2>1. DigitBits * k \in Nat
    BY <1>1, DigitBitsAssumption
  <2>2. Pow2[DigitBits * k + r] = Pow2[DigitBits * k] * Pow2[r]
    BY <1>1, <2>1, Pow2Sum
  <2>3. QED
    BY <1>1, <1>8, <2>2 DEF Weight
<1>10. w * p \in Nat \ {0} /\ p * (w * a) = (w * p) * a
  OBVIOUS
<1>11. CASE r = 0
  <2>1. p = 1
    BY <1>8, <1>11, Pow2Unfold
  <2>2. w * a = (w * p) * a
    BY <2>1
  <2>3. Magnitude(g) = (w * p) * Magnitude(x)
    BY <1>5, <1>8, <2>2
  <2>4. Proper(g) /\ Value(g) = Value(x) * (w * p)
    BY <1>5, <1>10, <2>3, ScaledValue
  <2>5. QED
    BY <1>2, <1>9, <1>11, <2>4
<1>12. CASE r # 0
  <2>1. Magnitude(z) = (w * p) * Magnitude(x) /\ z.neg = x.neg
    BY <1>5, <1>7, <1>8, <1>10
  <2>2. Proper(z) /\ Value(z) = Value(x) * (w * p)
    BY <1>7, <1>10, <2>1, ScaledValue
  <2>3. QED
    BY <1>2, <1>9, <1>12, <2>2
<1>13. QED
  BY <1>11, <1>12

(* >>= divides the magnitude by a power of two. *)
LEMMA ShrExact ==
  ASSUME NEW x, Proper(x), NEW n \in Nat
  PROVE  /\ Proper(Shr(x, n))
         /\ Value(Shr(x, n)) = Signed(x, Magnitude(x) \div Pow2[n])
<1> DEFINE k == n \div DigitBits
           r == n % DigitBits
           s == RightDigitShift(x, k)
           z == IF r = 0 THEN s ELSE ShrBits(s, r)
<1>1. /\ k \in Nat /\ r \in 0 .. DigitBits /\ r \in Nat
      /\ n = DigitBits * k + r
  <2>1. DigitBits \in Nat \ {0} /\ n \in Int
    BY DigitBitsAssumption
  <2>2. k \in Int /\ r \in 0 .. DigitBits - 1 /\ n = DigitBits * k + r
    BY <2>1, DivMod
  <2>3. k \in Nat
    BY <2>1
  <2>4. QED
    BY <2>1, <2>2, <2>3
<1>2. Shr(x, n) = IF n = 0 THEN x ELSE Clamp(z)
  BY DEF Shr
<1> HIDE DEF k, r
<1>3. /\ Safe(s) /\ Magnitude(s) = Magnitude(x) \div Weight(k)
      /\ s.neg = x.neg \/ Magnitude(s) = 0
      /\ Magnitude(s) \in Nat
  BY <1>1, RightDigitShiftExact, MagnitudeIsSum DEF Proper
<1> HIDE DEF s
<1>4. PICK w \in Nat \ {0}, p \in Nat \ {0}, a \in Nat, q \in Nat :
        Weight(k) = w /\ Pow2[r] = p /\ Magnitude(x) = a /\ Magnitude(s) = q
  BY <1>1, <1>3, Weights, Pow2Unfold, ProperValue
<1>5. Pow2[n] = w * p
  <2>1. DigitBits * k \in Nat
    BY <1>1, DigitBitsAssumption
  <2>2. Pow2[DigitBits * k + r] = Pow2[DigitBits * k] * Pow2[r]
    BY <1>1, <2>1, Pow2Sum
  <2>3. QED
    BY <1>1, <1>4, <2>2 DEF Weight
<1>6. a \div (w * p) = q \div p
  <2>1. a \div (w * p) = (a \div w) \div p
    <3>1. a \in Int
      OBVIOUS
    <3>2. QED
      BY <3>1, DivDiv, Zenon
  <2>2. QED
    BY <1>3, <1>4, <2>1
<1>7. Safe(z) /\ Magnitude(z) = q \div p /\ (z.neg = x.neg \/ Magnitude(z) = 0)
  <2>1. CASE r = 0
    <3>1. p = 1
      BY <1>4, <2>1, Pow2Unfold
    <3>2. q \div 1 = q
      OBVIOUS
    <3>3. QED
      BY <1>3, <1>4, <2>1, <3>1, <3>2
  <2>2. CASE r # 0
    <3>1. /\ Safe(ShrBits(s, r)) /\ ShrBits(s, r).neg = s.neg
          /\ Magnitude(ShrBits(s, r)) = Magnitude(s) \div Pow2[r]
      BY <1>1, <1>3, ShrBitsExact
    <3>2. Magnitude(z) = q \div p
      BY <1>4, <2>2, <3>1
    <3>3. q = 0 => q \div p = 0
      <4>1. 0 = p * 0 + 0
        OBVIOUS
      <4>2. QED
        BY <4>1, DivModUnique
    <3>4. QED
      BY <1>3, <1>4, <2>2, <3>1, <3>2, <3>3
  <2>3. QED
    BY <2>1, <2>2
<1> HIDE DEF z
<1>8. Proper(Clamp(z)) /\ Value(Clamp(z)) = Signed(x, Magnitude(z))
  BY <1>7, ClampSigned
<1>9. CASE n = 0
  <2>1. Pow2[n] = 1 /\ a \div 1 = a
    BY <1>9, Pow2Unfold
  <2>2. QED
    BY <1>2, <1>4, <1>9, <2>1 DEF Value, Signed
<1>10. CASE n # 0
  <2>1. Signed(x, Magnitude(z)) = Signed(x, Magnitude(x) \div Pow2[n])
    BY <1>4, <1>5, <1>6, <1>7
  <2>2. QED
    BY <1>2, <1>8, <1>10, <2>1
<1>11. QED
  BY <1>9, <1>10

(* The last p of the digits of d = X + p * p' * t are those of X. *)
LEMMA LowDigitMod ==
  ASSUME NEW p \in Nat \ {0}, NEW P \in Nat \ {0}, NEW d \in Int, NEW t \in Int
  PROVE  (d + (p * P) * t) % p = d % p
<1>1. PICK e \in Int, f \in 0 .. p - 1 : d \div p = e /\ d % p = f /\ d = p * e + f
  <2>1. d \div p \in Int /\ d % p \in 0 .. p - 1 /\ d = p * (d \div p) + (d % p)
    BY DivMod
  <2>2. QED
    BY <2>1
<1>2. d + (p * P) * t = p * (e + P * t) + f
  BY <1>1
<1>3. e + P * t \in Int /\ d + (p * P) * t \in Int
  OBVIOUS
<1>4. PICK v \in Int, q \in Int : v = d + (p * P) * t /\ q = e + P * t
  BY <1>3
<1>5. v = p * q + f
  BY <1>2, <1>4
<1>6. v % p = f
  BY <1>5, DivModUnique
<1>7. QED
  BY <1>1, <1>4, <1>6

(* Only the words below the boundary, and the low bits of the word there,    *)
(* count modulo a power of two.                                              *)
LEMMA LowWords ==
  ASSUME NEW x, Safe(x), NEW k \in Nat, NEW r \in 0 .. DigitBits
  PROVE  Magnitude(x) % (Weight(k) * Pow2[r])
           = Sums(Words(x))[k] + Weight(k) * (Words(x)[k] % Pow2[r])
<1> DEFINE X == Words(x)
           V == [i \in Nat |-> X[i + k]]
           U == [i \in Nat |-> V[i + 1]]
           n == x.used
<1>1. PICK p \in Nat \ {0}, P \in Nat \ {0} :
        Pow2[r] = p /\ Pow2[DigitBits - r] = P /\ DigitRadix = p * P
  BY RadixSplit
<1>2. n \in Nat /\ Magnitude(x) \in Nat
  BY Fields, MagnitudeIsSum DEF Safe
<1>3. X \in [Nat -> Int] /\ X \in [Nat -> Digit]
  BY WordsAreDigits DEF Safe
<1>4. Sums(X)[(n + 1) + k] = Magnitude(x)
  <2>1. (n + 1) + k \in Nat /\ (n + 1) + k >= n
    BY <1>2
  <2>2. QED
    BY <2>1, MagnitudeIsSum
<1> HIDE DEF X, n
<1>5. V \in [Nat -> Int] /\ \A i \in Nat : V[i] = X[i + k]
  BY <1>3
<1> HIDE DEF V
<1>6. U \in [Nat -> Int] /\ \A i \in Nat : U[i] = V[i + 1]
  BY <1>5
<1> HIDE DEF U
<1>7. Sums(X)[(n + 1) + k] = Sums(X)[k] + Weight(k) * Sums(V)[n + 1]
  <2>1. \A i \in Nat : Sums(X)[i + k] = Sums(X)[k] + Weight(k) * Sums(V)[i]
    BY <1>3, <1>5, SumsSplit
  <2>2. QED
    BY <1>2, <2>1
<1>8. Sums(V)[n + 1] = Sums(V)[1] + Weight(1) * Sums(U)[n]
  <2>1. 1 \in Nat
    OBVIOUS
  <2>2. \A i \in Nat : Sums(V)[i + 1] = Sums(V)[1] + Weight(1) * Sums(U)[i]
    BY <1>5, <1>6, <2>1, SumsSplit
  <2>3. QED
    BY <1>2, <2>2
<1>9. Sums(V)[1] = X[k] /\ Weight(1) = DigitRadix
  <2>1. Sums(V)[0 + 1] = Sums(V)[0] + V[0] * Weight(0) /\ Sums(V)[0] = 0
    BY <1>5, SumsUnfold
  <2>2. Weight(0 + 1) = Weight(0) * DigitRadix /\ Weight(0) = 1
    BY Weights
  <2>3. V[0] = X[0 + k] /\ 0 + k = k /\ X[k] \in Int /\ 0 + 1 = 1
    BY <1>3, <1>5
  <2>4. DigitRadix \in Int
    BY RadixPositive
  <2>5. PICK y \in Int, R \in Int : X[k] = y /\ DigitRadix = R
    BY <2>3, <2>4
  <2>6. V[0] = y
    BY <2>3, <2>5
  <2>7. 0 + y * 1 = y /\ 1 * R = R
    OBVIOUS
  <2>8. QED
    BY <2>1, <2>2, <2>3, <2>5, <2>6, <2>7
<1>10. Sums(X)[k] \in 0 .. Weight(k) - 1
  <2>1. \A i \in Nat : Sums(X)[i] \in 0 .. Weight(i) - 1
    BY <1>3, SumsBound
  <2>2. QED
    BY <2>1
<1>11. Sums(V)[n + 1] \in Int /\ Sums(U)[n] \in Int /\ X[k] \in Int /\ Weight(k) \in Nat \ {0}
  <2>1. Sums(V) \in [Nat -> Int] /\ Sums(U) \in [Nat -> Int]
    BY <1>5, <1>6, SumsUnfold
  <2>2. QED
    BY <1>2, <1>3, <2>1, Weights
<1>12. PICK w \in Nat \ {0}, s \in Int, q \in Int, t \in Int, d \in Int, a \in Int :
         /\ Weight(k) = w /\ Sums(X)[k] = s /\ Sums(V)[n + 1] = q
         /\ Sums(U)[n] = t /\ X[k] = d /\ Magnitude(x) = a
  <2>1. /\ Weight(k) \in Nat \ {0} /\ Sums(X)[k] \in Int /\ Sums(V)[n + 1] \in Int
        /\ Sums(U)[n] \in Int /\ X[k] \in Int /\ Magnitude(x) \in Int
    BY <1>2, <1>10, <1>11
  <2>2. QED
    BY <2>1
<1>13. a = w * q + s /\ 0 <= s /\ s < w
  <2>1. s \in 0 .. w - 1
    BY <1>10, <1>12
  <2>2. a = s + w * q
    BY <1>4, <1>7, <1>12
  <2>3. QED
    BY <2>1, <2>2
<1>14. q = d + (p * P) * t
  BY <1>1, <1>8, <1>9, <1>12
<1>15. a % w = s /\ a \div w = q
  BY <1>13, DivModUnique
<1>16. q % p = d % p
  BY <1>14, LowDigitMod, ZenonT(60)
<1>17. a % (w * p) = (a % w) + w * ((a \div w) % p)
  BY DivDiv, Zenon
<1>18. a % (w * p) = s + w * (d % p)
  BY <1>15, <1>16, <1>17
<1>19. QED
  BY <1>1, <1>12, <1>18 DEF X

(* mod2b leaves the remainder of the magnitude by a power of two. *)
LEMMA Mod2bExact ==
  ASSUME NEW x, Proper(x), NEW b \in Nat
  PROVE  /\ Proper(Mod2b(x, b))
         /\ Value(Mod2b(x, b)) = Signed(x, Magnitude(x) % Pow2[b])
<1> DEFINE k == b \div DigitBits
           r == b % DigitBits
           first == k + (IF r = 0 THEN 0 ELSE 1)
           d == [i \in 0 .. x.size - 1 |->
                   IF i = k THEN x.dig[i] % Pow2[r]
                   ELSE IF first <= i /\ i < x.used THEN 0 ELSE x.dig[i]]
           z == [x EXCEPT !.dig = d]
           X == Words(x)
           Z == Words(z)
<1>1. /\ Safe(x) /\ x.used \in Nat /\ x.size \in Nat /\ x.used <= x.size
      /\ x.neg \in BOOLEAN /\ Magnitude(x) \in Nat
      /\ x.dig \in [0 .. x.size - 1 -> Digit]
      /\ \A i \in x.used .. x.size - 1 : x.dig[i] = 0
  BY Fields, MagnitudeIsSum DEF Proper, Safe, UsedInVector, ClearAboveUsed
<1>2. /\ k \in Nat /\ r \in 0 .. DigitBits /\ r \in Nat /\ DigitBits \in Nat
      /\ b = DigitBits * k + r /\ r < DigitBits
  <2>1. DigitBits \in Nat \ {0} /\ b \in Int
    BY DigitBitsAssumption
  <2>2. k \in Int /\ r \in 0 .. DigitBits - 1 /\ b = DigitBits * k + r
    BY <2>1, DivMod
  <2>3. k \in Nat
    BY <2>1
  <2>4. QED
    BY <2>1, <2>2, <2>3
<1>3. Mod2bMasks(x, b) /\ b # 0 => Mod2b(x, b) = Clamp(z)
  BY DEF Mod2b, BoundaryDigit
<1>4. CASE b = 0
  <2>1. Mod2b(x, b) = Zero(x)
    BY <1>4 DEF Mod2b
  <2>2. Pow2[b] = 1
    BY <1>4, Pow2Unfold
  <2>3. PICK a \in Nat : Magnitude(x) = a
    BY <1>1
  <2>4. a % 1 = 0
    OBVIOUS
  <2>5. Signed(x, a % 1) = 0
    BY <2>4, SignedZero
  <2>6. QED
    BY <1>1, <2>1, <2>2, <2>3, <2>5, ZeroExact
<1>5. CASE b # 0 /\ ~Mod2bMasks(x, b)
  <2>1. Mod2b(x, b) = x
    BY <1>5 DEF Mod2b
  <2>2. b > x.used * DigitBits
    BY <1>1, <1>2, <1>5 DEF Mod2bMasks
  <2>3. PICK e \in Nat : DigitBits * x.used = e /\ b - e \in Nat
    BY <1>1, <1>2, <2>2
  <2>4. Pow2[b] = Pow2[e] * Pow2[b - e]
    <3>1. e + (b - e) = b
      OBVIOUS
    <3>2. Pow2[e + (b - e)] = Pow2[e] * Pow2[b - e]
      BY <2>3, Pow2Sum
    <3>3. QED
      BY <3>1, <3>2
  <2>5. PICK w \in Nat \ {0}, p \in Nat \ {0} :
          Pow2[e] = w /\ Pow2[b - e] = p /\ Pow2[b] = w * p /\ Weight(x.used) = w
    BY <2>3, <2>4, Pow2Unfold DEF Weight
  <2>6. Magnitude(x) \in 0 .. w - 1
    BY <1>1, <2>5, MagnitudeIsSum
  <2>7. PICK a \in 0 .. w - 1, Q \in Nat \ {0} : Magnitude(x) = a /\ Q = w * p
    BY <2>5, <2>6
  <2>8. w * p >= w
    OBVIOUS
  <2>9. a < Q /\ a = Q * 0 + a
    BY <2>7, <2>8
  <2>10. a % Q = a
    BY <2>9, DivModUnique
  <2>11. Magnitude(x) % Pow2[b] = Magnitude(x)
    BY <2>5, <2>7, <2>10
  <2>12. QED
    BY <2>1, <2>11 DEF Value, Signed
<1>6. CASE b # 0 /\ Mod2bMasks(x, b)
  <2>1. z.neg = x.neg /\ z.used = x.used /\ z.size = x.size /\ z.dig = d
    <3>1. x \in Exactly(x.neg, x.used, x.size, x.dig)
      BY <1>1, Shape DEF Safe
    <3>2. QED
      BY <3>1 DEF Exactly
  <2>2. PICK p \in Nat \ {0} : Pow2[r] = p
    BY <1>2, Pow2Unfold
  <2>3. \A i \in 0 .. x.size - 1 : d[i] =
                   IF i = k THEN x.dig[i] % Pow2[r]
                   ELSE IF first <= i /\ i < x.used THEN 0 ELSE x.dig[i]
    OBVIOUS
  <2> HIDE DEF k, r
  <2>4. 0 % p = 0
    <3>1. 0 = p * 0 + 0
      OBVIOUS
    <3>2. QED
      BY <3>1, DivModUnique
  <2>5. ASSUME NEW i \in Nat
        PROVE  Z[i] = IF i < k THEN X[i] ELSE IF i = k THEN X[i] % p ELSE 0
    <3> HIDE DEF d
    <3>1. CASE i < x.size
      <4>1. Z[i] = d[i] /\ X[i] = x.dig[i] /\ i \in 0 .. x.size - 1
        BY <1>1, <2>1, <3>1 DEF Words
      <4>2. i > k => first <= i
        BY <1>2
      <4>3. i < k => ~(first <= i)
        BY <1>2
      <4>4. i >= x.used => x.dig[i] = 0
        BY <1>1, <4>1
      <4> HIDE DEF first
      <4>5. d[i] = IF i = k THEN x.dig[i] % p
                   ELSE IF first <= i /\ i < x.used THEN 0 ELSE x.dig[i]
        BY <2>2, <2>3, <4>1
      <4>6. QED
        BY <1>1, <1>2, <4>1, <4>2, <4>3, <4>4, <4>5
    <3>2. CASE ~(i < x.size)
      BY <2>1, <2>4, <3>2 DEF Words
    <3>3. QED
      BY <3>1, <3>2
  <2> HIDE DEF d
  <2>6. Safe(z)
    <3>1. d \in [0 .. x.size - 1 -> Digit]
      <4>1. DOMAIN d = 0 .. x.size - 1 /\ d = [i \in 0 .. x.size - 1 |-> d[i]]
        BY DEF d
      <4>2. ASSUME NEW i \in 0 .. x.size - 1 PROVE d[i] \in Digit
        <5>1. x.dig[i] \in Digit
          BY <1>1
        <5>2. PICK y \in Nat : x.dig[i] = y /\ y < DigitRadix
          BY <1>1, Fields DEF Safe
        <5>3. y % p \in 0 .. y
          OBVIOUS
        <5>4. y % p \in Digit
          BY <5>2, <5>3, RadixPositive DEF Digit
        <5>5. QED
          BY <2>2, <2>3, <5>1, <5>2, <5>4, RadixPositive
      <4>3. QED
        BY <4>1, <4>2
    <3>2. ASSUME NEW i \in x.used .. x.size - 1 PROVE d[i] = 0
      <4>1. x.dig[i] = 0 /\ i \in 0 .. x.size - 1
        BY <1>1
      <4>2. QED
        BY <2>2, <2>3, <2>4, <4>1
    <3>3. z \in Exactly(x.neg, x.used, x.size, d)
      <4>1. x \in Exactly(x.neg, x.used, x.size, x.dig)
        BY <1>1, Shape DEF Safe
      <4>2. QED
        BY <4>1 DEF Exactly
    <3> HIDE DEF z
    <3>4. x.size > 0
      BY <1>1 DEF Safe
    <3>5. QED
      BY <1>1, <3>1, <3>2, <3>3, <3>4
      DEF Safe, IsNumber, UsedInVector, ClearAboveUsed, Exactly
  <2>7. /\ X \in [Nat -> Int] /\ Z \in [Nat -> Int]
    BY <1>1, <2>6, WordsAreDigits DEF Safe
  <2>8. Sums(Z)[x.used + (k + 1)] = Magnitude(z)
    <3>1. x.used + (k + 1) \in Nat /\ x.used + (k + 1) >= z.used
      BY <1>1, <1>2, <2>1, SMTT(30)
    <3>2. QED
      BY <2>6, <3>1, MagnitudeIsSum
  <2>9. Magnitude(x) % (Weight(k) * Pow2[r])
           = Sums(X)[k] + Weight(k) * (X[k] % Pow2[r])
    BY <1>1, <1>2, LowWords
  <2> HIDE DEF X, Z, z
  <2>10. Sums(Z)[x.used + (k + 1)] = Sums(Z)[k + 1]
    <3>1. k + 1 \in Nat /\ x.used + (k + 1) \in Nat /\ x.used + (k + 1) >= k + 1
      BY <1>1, <1>2
    <3>2. \A i \in Nat : i >= k + 1 => Z[i] = 0
      BY <1>2, <2>5
    <3>3. \A i \in Nat : i >= k + 1 => Sums(Z)[i] = Sums(Z)[k + 1]
      BY <2>7, <3>1, <3>2, SumsSettle
    <3>4. QED
      BY <3>1, <3>3
  <2>11. Sums(Z)[k + 1] = Sums(Z)[k] + Z[k] * Weight(k)
    BY <1>2, <2>7, SumsUnfold
  <2>12. Sums(Z)[k] = Sums(X)[k]
    <3>1. \A i \in 0 .. k - 1 : Z[i] = X[i]
      BY <1>2, <2>5
    <3>2. \A i \in 0 .. k : Sums(Z)[i] = Sums(X)[i]
      BY <1>2, <2>7, <3>1, SumsSame
    <3>3. QED
      BY <1>2, <3>2
  <2>13. Z[k] = X[k] % p /\ X[k] \in Int /\ Sums(X)[k] \in Int /\ Weight(k) \in Int
    <3>1. Sums(X) \in [Nat -> Int]
      BY <2>7, SumsUnfold
    <3>2. QED
      BY <1>2, <2>5, <2>7, <3>1, Weights
  <2>14. PICK w \in Int, s \in Int, y \in Int :
           Weight(k) = w /\ Sums(X)[k] = s /\ X[k] % p = y
    <3>1. X[k] % p \in Int
      <4>1. PICK y \in Int : X[k] = y
        BY <2>13
      <4>2. y % p \in Int
        BY DivMod
      <4>3. QED
        BY <4>1, <4>2
    <3>2. QED
      BY <2>13, <3>1
  <2>15. Magnitude(z) = Magnitude(x) % Pow2[b]
    <3>1. Pow2[b] = Weight(k) * Pow2[r]
      <4>1. DigitBits * k \in Nat
        BY <1>2
      <4>2. Pow2[DigitBits * k + r] = Pow2[DigitBits * k] * Pow2[r]
        BY <1>2, <4>1, Pow2Sum
      <4>3. QED
        BY <1>2, <4>2 DEF Weight
    <3>2. Magnitude(z) = s + y * w
      BY <2>8, <2>10, <2>11, <2>12, <2>13, <2>14
    <3>3. Magnitude(x) % (Weight(k) * Pow2[r]) = s + w * y
      BY <2>2, <2>9, <2>14
    <3>4. s + y * w = s + w * y
      OBVIOUS
    <3>5. QED
      BY <3>1, <3>2, <3>3, <3>4
  <2>16. Proper(Clamp(z)) /\ Value(Clamp(z)) = Signed(x, Magnitude(z))
    BY <2>1, <2>6, ClampSigned
  <2>17. QED
    BY <1>3, <1>6, <2>15, <2>16
<1>7. QED
  BY <1>4, <1>5, <1>6

-----------------------------------------------------------------------------
(***************************************************************************)
(* loadBytes.                                                              *)
(***************************************************************************)
(* All the words of an object, those between its digits in use and the end   *)
(* of its vector included: while bytes are loaded, used is only a count.     *)
Total(x) == Sums(Words(x))[x.size]

(* The words settle the total. *)
LEMMA TotalSettles ==
  ASSUME NEW x, IsNumber(x)
  PROVE  /\ \A i \in Nat : i >= x.size => Sums(Words(x))[i] = Total(x)
         /\ Total(x) \in Int
         /\ Safe(x) => Total(x) = Magnitude(x)
<1> DEFINE X == Words(x)
<1>1. x.size \in Nat /\ X \in [Nat -> Int]
  BY Fields, WordsAreDigits
<1>2. \A i \in Nat : i >= x.size => X[i] = 0
  BY <1>1 DEF Words
<1>3. Safe(x) => Total(x) = Magnitude(x)
  BY <1>1, MagnitudeIsSum DEF Total, Safe, UsedInVector
<1> HIDE DEF X
<1>4. \A i \in Nat : i >= x.size => Sums(X)[i] = Sums(X)[x.size]
  BY <1>1, <1>2, SumsSettle
<1>5. Sums(X)[x.size] \in Int
  <2>1. Sums(X) \in [Nat -> Int]
    BY <1>1, SumsUnfold
  <2>2. QED
    BY <1>1, <2>1
<1>6. QED
  BY <1>3, <1>4, <1>5 DEF X, Total

(* grow clears the words it adds. *)
LEMMA GrowTotal ==
  ASSUME NEW x, Counted(x), NEW c \in Nat, Safe(Grow(x, c)), Grow(x, c).size >= x.size
  PROVE  Total(Grow(x, c)) = Total(x)
<1> DEFINE g == Grow(x, c)
<1>1. x.size \in Nat /\ g.size \in Nat /\ IsNumber(g) /\ IsNumber(x)
  BY Fields DEF Counted, Safe
<1>2. \A i \in 0 .. g.size - 1 : g.dig[i] = IF i < x.size THEN x.dig[i] ELSE 0
  <2>1. CASE x.size >= c
    BY <1>1, <2>1 DEF Grow
  <2>2. CASE ~(x.size >= c)
    <3> DEFINE s == c + (2 * BaseCapacity - (c % BaseCapacity))
               e == [i \in 0 .. s - 1 |-> IF i < x.size THEN x.dig[i] ELSE 0]
    <3>1. x \in Exactly(x.neg, x.used, x.size, x.dig)
      BY <1>1, Shape
    <3>2. g = [x EXCEPT !.size = s, !.dig = e]
      BY <2>2 DEF Grow
    <3> HIDE DEF s
    <3>3. g.size = s /\ g.dig = e
      <4> HIDE DEF e, g
      <4>1. QED
        BY <3>1, <3>2 DEF Exactly
    <3>4. QED
      BY <3>3
  <2>3. QED
    BY <2>1, <2>2
<1> HIDE DEF g
<1>3. Words(g) = Words(x)
  <2>1. ASSUME NEW i \in Nat
        PROVE  (IF i < g.size THEN g.dig[i] ELSE 0) = (IF i < x.size THEN x.dig[i] ELSE 0)
    BY <1>1, <1>2 DEF g
  <2>2. QED
    BY <2>1 DEF Words
<1>4. Sums(Words(x))[g.size] = Total(x)
  BY <1>1, TotalSettles DEF g
<1>5. QED
  BY <1>3, <1>4 DEF Total, g

(* A byte is added below the digits, which the shift has moved up. *)
LEMMA LoadByteExact ==
  ASSUME NEW x, Counted(x), NEW b \in Byte
  PROVE  LET z == LoadByte(x, b)
         IN  /\ Counted(z) /\ z.neg = x.neg
             /\ Total(z) = Total(x) * Pow2[ByteBits] + b
<1> DEFINE g == Grow(x, x.used + 1)
           s == Shl(x, ByteBits)
           z == LoadByte(x, b)
           S == Words(s)
           Z == Words(z)
           B == [i \in Nat |-> IF i = 0 THEN b ELSE 0]
<1>1. /\ x.used \in Nat /\ x.used + 1 \in Nat /\ x.neg \in BOOLEAN
      /\ ByteBits \in 0 .. DigitBits /\ ByteBits \in Nat
      /\ ByteBits \div DigitBits = 0 /\ ByteBits % DigitBits = ByteBits
      /\ ByteBits # 0
  <2>1. x.used \in Nat /\ x.neg \in BOOLEAN
    BY Fields DEF Counted
  <2>2. DigitBits \in Nat \ {0} /\ ByteBits \in 1 .. DigitBits - 1
    BY ByteBitsAssumption, DigitBitsAssumption
  <2>3. ByteBits = DigitBits * 0 + ByteBits
    BY <2>2
  <2>4. ByteBits \div DigitBits = 0 /\ ByteBits % DigitBits = ByteBits
    BY <2>2, <2>3, DivModUnique
  <2>5. QED
    BY <2>1, <2>2, <2>4
<1>2. /\ Safe(g) /\ g.used = x.used /\ g.size >= x.used + 1 /\ g.neg = x.neg
      /\ g.size >= x.size
  <2>1. x.used <= x.used + 1
    BY <1>1
  <2>2. QED
    BY <1>1, <2>1, GrowSafe DEF Counted
<1>3. Total(g) = Total(x)
  BY <1>1, <1>2, GrowTotal
<1>4. s = ShlBits(g, ByteBits)
  <2>1. x.used + 0 + 1 = x.used + 1
    BY <1>1
  <2>2. QED
    BY <1>1, <2>1 DEF Shl, LeftDigitShift
<1>5. g.size \in Nat /\ g.used < g.size
  BY <1>1, <1>2, Fields DEF Safe
<1> HIDE DEF g
<1>6. /\ Safe(s) /\ s.neg = x.neg /\ Magnitude(s) = Pow2[ByteBits] * Magnitude(g)
  BY <1>1, <1>2, <1>4, <1>5, ShlBitsExact
<1>7. Magnitude(g) = Total(x) /\ Magnitude(s) = Total(s)
  BY <1>2, <1>3, <1>6, TotalSettles DEF Safe
<1>8. /\ z.neg = s.neg /\ z.size = s.size
      /\ z.dig = [s.dig EXCEPT ![0] = s.dig[0] + b]
  <2>1. s \in Exactly(s.neg, s.used, s.size, s.dig)
    BY <1>6, Shape DEF Safe
  <2>2. QED
    BY <2>1 DEF LoadByte, Exactly
<1>9. Counted(z) /\ IsNumber(z)
  BY LoadByteCounted DEF Counted
<1>10. /\ s.size \in Nat /\ s.size > 0
       /\ s.dig \in [0 .. s.size - 1 -> Digit] /\ IsNumber(s)
  BY <1>6, Fields DEF Safe
<1>11. /\ S \in [Nat -> Int] /\ Z \in [Nat -> Int] /\ B \in [Nat -> Int]
       /\ b \in Int
  <2>1. b \in Int
    BY DEF Byte
  <2>2. QED
    BY <1>9, <1>10, <2>1, WordsAreDigits
<1> HIDE DEF s, z
<1>12. ASSUME NEW i \in Nat PROVE Z[i] = S[i] + B[i]
  <2>1. S[i] \in Int
    BY <1>11
  <2>2. CASE i = 0
    BY <1>8, <1>10, <1>11, <2>2 DEF Words
  <2>3. CASE i # 0
    <3>1. Z[i] = S[i]
      BY <1>8, <1>10, <2>3 DEF Words
    <3>2. B[i] = 0
      BY <2>3
    <3>3. QED
      BY <2>1, <3>1, <3>2
  <2>4. QED
    BY <2>2, <2>3
<1>13. B[0] = b /\ \A i \in Nat : i >= 1 => B[i] = 0
  OBVIOUS
<1>14. Total(s) = Sums(S)[s.size] /\ Total(z) = Sums(Z)[s.size]
  BY <1>8 DEF Total
<1> HIDE DEF S, Z, B
<1>15. Sums(Z)[s.size] = Sums(S)[s.size] + Sums(B)[s.size]
  <2>1. \A i \in Nat : Sums(Z)[i] = Sums(S)[i] + Sums(B)[i]
    BY <1>11, <1>12, SumsPlus
  <2>2. QED
    BY <1>10, <2>1
<1>16. Sums(B)[s.size] = b
  <2>1. Sums(B)[0 + 1] = Sums(B)[0] + B[0] * Weight(0) /\ Sums(B)[0] = 0
    BY <1>11, SumsUnfold
  <2>2. 0 + b * 1 = b /\ 0 + 1 = 1
    BY <1>11
  <2>3. Sums(B)[1] = b
    BY <1>13, <2>1, <2>2, Weights
  <2>4. 1 \in Nat /\ B \in [Nat -> Int]
    BY <1>11
  <2>5. \A i \in Nat : i >= 1 => Sums(B)[i] = Sums(B)[1]
    BY <1>13, <2>4, SumsSettle
  <2>6. QED
    BY <1>10, <2>3, <2>5
<1>17. Total(z) = Total(x) * Pow2[ByteBits] + b
  <2>1. PICK p \in Nat, a \in Int : Pow2[ByteBits] = p /\ Total(x) = a
    <3>1. Pow2[ByteBits] \in Nat /\ Total(x) \in Int
      BY <1>1, Pow2Unfold, TotalSettles DEF Counted
    <3>2. QED
      BY <3>1
  <2>2. Total(s) = p * a
    BY <1>6, <1>7, <2>1
  <2>3. Total(z) = p * a + b
    BY <1>14, <1>15, <1>16, <2>2
  <2>4. p * a = a * p
    OBVIOUS
  <2>5. QED
    BY <2>1, <2>3, <2>4
<1>18. QED
  BY <1>6, <1>8, <1>9, <1>17 DEF z

(* The number a buffer denotes, its first byte the most significant. *)
BytesNumber(bytes) ==
  LET v[i \in 0 .. Len(bytes)] ==
        IF i = 0 THEN 0 ELSE v[i - 1] * Pow2[ByteBits] + bytes[i]
  IN  v[Len(bytes)]

(* The recursion that reads a buffer is well founded. *)
LEMMA BytesNumberUnfold ==
  ASSUME NEW bytes \in Seq(Byte)
  PROVE  \E v : /\ BytesNumber(bytes) = v[Len(bytes)] /\ v[0] = 0
                /\ \A i \in 0 .. Len(bytes) - 1 :
                     v[i + 1] = v[i] * Pow2[ByteBits] + bytes[i + 1]
                /\ \A i \in 0 .. Len(bytes) : v[i] \in Nat
<1> DEFINE m == Len(bytes)
           step == [p \in (0 .. m - 1) \X Nat |->
                      p[2] * Pow2[ByteBits] + bytes[p[1] + 1]]
           Body(g) == [i \in 0 .. m |->
                         IF i = 0 THEN 0 ELSE g[i - 1] * Pow2[ByteBits] + bytes[i]]
           c == CHOOSE g : g = Body(g)
<1>1. m \in Nat /\ \A i \in 1 .. m : bytes[i] \in Nat
  <2>1. \A b \in Byte : b \in Nat
    BY DEF Byte
  <2>2. m \in Nat /\ \A i \in 1 .. m : bytes[i] \in Byte
    OBVIOUS
  <2>3. QED
    BY <2>1, <2>2
<1>2. BytesNumber(bytes) = c[m]
  BY DEF BytesNumber
<1>3. Pow2[ByteBits] \in Nat
  <2>1. ByteBits \in Nat
    BY ByteBitsAssumption, DigitBitsAssumption
  <2>2. QED
    BY <2>1, Pow2Unfold
<1> HIDE DEF m
<1>4. ASSUME NEW p \in (0 .. m - 1) \X Nat
      PROVE  p[2] * Pow2[ByteBits] + bytes[p[1] + 1] \in Nat
  <2>1. p[2] \in Nat /\ p[1] + 1 \in 1 .. m
    BY <1>1
  <2>2. PICK a \in Nat, w \in Nat, y \in Nat :
          p[2] = a /\ Pow2[ByteBits] = w /\ bytes[p[1] + 1] = y
    BY <1>1, <1>3, <2>1
  <2>3. a * w + y \in Nat
    OBVIOUS
  <2>4. QED
    BY <2>2, <2>3
<1>5. step \in [(0 .. m - 1) \X Nat -> Nat]
  BY <1>4
<1>6. PICK f : SolvesUpTo(m, Nat, 0, step, f)
  <2>1. 0 \in Nat
    OBVIOUS
  <2> HIDE DEF step
  <2>2. QED
    BY <1>1, <1>5, <2>1, BoundedRecursionSolves
<1>7. f = Body(f)
  <2>1. ASSUME NEW i \in 0 .. m, i # 0
        PROVE  f[i] = f[i - 1] * Pow2[ByteBits] + bytes[i]
    <3>1. i - 1 \in 0 .. m - 1 /\ f[i - 1] \in Nat /\ (i - 1) + 1 = i
      <4>1. i - 1 \in 0 .. m - 1 /\ i - 1 \in 0 .. m /\ (i - 1) + 1 = i
        BY <1>1, <2>1
      <4>2. f \in [0 .. m -> Nat]
        BY <1>6 DEF SolvesUpTo
      <4>3. QED
        BY <4>1, <4>2
    <3>2. f[i] = step[<<i - 1, f[i - 1]>>]
      BY <2>1, <1>6 DEF SolvesUpTo
    <3>3. step[<<i - 1, f[i - 1]>>] = f[i - 1] * Pow2[ByteBits] + bytes[(i - 1) + 1]
      <4> DEFINE e == <<i - 1, f[i - 1]>>
      <4>1. e \in (0 .. m - 1) \X Nat /\ e[1] = i - 1 /\ e[2] = f[i - 1]
        BY <3>1
      <4> HIDE DEF e
      <4>2. step[e] = e[2] * Pow2[ByteBits] + bytes[e[1] + 1]
        BY <4>1, Zenon
      <4>3. QED
        BY <4>1, <4>2, Zenon DEF e
    <3>4. f[i] = f[i - 1] * Pow2[ByteBits] + bytes[(i - 1) + 1]
      BY <3>2, <3>3, Zenon
    <3>5. QED
      BY <3>1, <3>4
  <2>2. QED
    BY <2>1, <1>6 DEF SolvesUpTo
<1>8. c = Body(c)
  BY <1>7
<1> HIDE DEF c, step
<1>9. c[0] = 0
  BY <1>1, <1>8
<1>10. ASSUME NEW i \in 0 .. m - 1
       PROVE  c[i + 1] = c[i] * Pow2[ByteBits] + bytes[i + 1]
  <2>1. i + 1 \in 0 .. m /\ i + 1 # 0 /\ (i + 1) - 1 = i
    BY <1>1
  <2>2. c[i + 1] = c[(i + 1) - 1] * Pow2[ByteBits] + bytes[i + 1]
    BY <1>8, <2>1
  <2>3. QED
    BY <2>1, <2>2, Zenon
<1> DEFINE T == {i \in Nat : i <= m => c[i] \in Nat}
<1>11. 0 \in T
  BY <1>9
<1>12. ASSUME NEW i \in T PROVE i + 1 \in T
  <2>1. SUFFICES ASSUME i + 1 <= m PROVE c[i + 1] \in Nat
    OBVIOUS
  <2>2. i \in 0 .. m - 1 /\ i + 1 \in 1 .. m /\ c[i] \in Nat
    BY <1>1, <2>1
  <2>3. PICK a \in Nat, w \in Nat, y \in Nat :
          c[i] = a /\ Pow2[ByteBits] = w /\ bytes[i + 1] = y
    BY <1>1, <1>3, <2>2
  <2>4. c[i + 1] = a * w + y
    BY <1>10, <2>2, <2>3
  <2>5. QED
    BY <2>4
<1> HIDE DEF T
<1>13. T = Nat
  BY <1>11, <1>12, SetInduction DEF T
<1>14. \A i \in 0 .. m : c[i] \in Nat
  <2>1. \A i \in 0 .. m : i \in T /\ i <= m
    BY <1>1, <1>13
  <2>2. QED
    BY <2>1 DEF T
<1>15. QED
  BY <1>2, <1>9, <1>10, <1>14 DEF m

(* The bytes of a buffer follow the number they are loaded behind. *)
LEMMA LoadUnclampedExact ==
  ASSUME NEW x, Counted(x), NEW bytes \in Seq(Byte)
  PROVE  LET y == LoadUnclamped(x, bytes)
         IN  /\ Counted(y) /\ y.neg = x.neg
             /\ Total(y) = Total(x) * Pow2[ByteBits * Len(bytes)]
                           + BytesNumber(bytes)
<1> DEFINE m == Len(bytes)
<1>1. m \in Nat /\ \A i \in 1 .. m : bytes[i] \in Byte
  OBVIOUS
<1>2. PICK c : /\ LoadUnclamped(x, bytes) = c[m] /\ c[0] = x
               /\ \A i \in 0 .. m - 1 : c[i + 1] = LoadByte(c[i], bytes[i + 1])
               /\ \A i \in 0 .. m : Counted(c[i])
  BY LoadUnclampedCounted
<1>3. PICK v : /\ BytesNumber(bytes) = v[m] /\ v[0] = 0
               /\ \A i \in 0 .. m - 1 : v[i + 1] = v[i] * Pow2[ByteBits] + bytes[i + 1]
               /\ \A i \in 0 .. m : v[i] \in Nat
  BY BytesNumberUnfold
<1>4. ByteBits \in Nat /\ Total(x) \in Int
  BY ByteBitsAssumption, DigitBitsAssumption, TotalSettles DEF Counted
<1>5. \A i \in Nat : ByteBits * i \in Nat
  BY <1>4
<1> HIDE DEF m
<1> DEFINE Loaded(i) == /\ c[i].neg = x.neg
                        /\ Total(c[i]) = Total(x) * Pow2[ByteBits * i] + v[i]
           T == {i \in Nat : i <= m => Loaded(i)}
<1>6. 0 \in T
  <2>1. Pow2[ByteBits * 0] = 1
    <3>1. ByteBits * 0 = 0
      BY <1>4
    <3>2. QED
      BY <3>1, Pow2Unfold
  <2>2. PICK a \in Int : Total(x) = a
    BY <1>4
  <2>3. a = a * 1 + 0
    OBVIOUS
  <2>4. Total(c[0]) = Total(x) * Pow2[ByteBits * 0] + v[0]
    BY <1>2, <1>3, <2>1, <2>2, <2>3
  <2>5. QED
    BY <1>2, <2>4
<1>7. ASSUME NEW i \in T PROVE i + 1 \in T
  <2>1. SUFFICES ASSUME i + 1 <= m PROVE Loaded(i + 1)
    OBVIOUS
  <2>2. /\ i \in Nat /\ i \in 0 .. m - 1 /\ i \in 0 .. m /\ i + 1 \in 1 .. m
        /\ Loaded(i)
    BY <1>1, <2>1
  <2>3. bytes[i + 1] \in Byte /\ Counted(c[i])
    BY <1>1, <1>2, <2>2
  <2>4. c[i + 1] = LoadByte(c[i], bytes[i + 1])
    BY <1>2, <2>2
  <2>5. /\ c[i + 1].neg = c[i].neg
        /\ Total(c[i + 1]) = Total(c[i]) * Pow2[ByteBits] + bytes[i + 1]
    BY <2>3, <2>4, LoadByteExact
  <2>6. Pow2[ByteBits * (i + 1)] = Pow2[ByteBits * i] * Pow2[ByteBits]
    BY <1>4, <2>2, Pow2Digits
  <2>7. /\ Total(x) \in Int /\ Pow2[ByteBits * i] \in Nat /\ Pow2[ByteBits] \in Nat
        /\ v[i] \in Nat /\ bytes[i + 1] \in Int
    <3>1. bytes[i + 1] \in Int
      BY <2>3 DEF Byte
    <3>2. QED
      BY <1>3, <1>4, <1>5, <2>2, <3>1, Pow2Unfold
  <2>8. PICK a \in Int, w \in Nat, p \in Nat, e \in Nat, d \in Int :
          /\ Total(x) = a /\ Pow2[ByteBits * i] = w /\ Pow2[ByteBits] = p
          /\ v[i] = e /\ bytes[i + 1] = d
    BY <2>7
  <2>9. Total(c[i]) = a * w + e
    BY <2>2, <2>8
  <2>10. Total(c[i + 1]) = (a * w + e) * p + d
    BY <2>5, <2>8, <2>9
  <2>11. v[i + 1] = e * p + d
    BY <1>3, <2>2, <2>8
  <2>12. Total(x) * Pow2[ByteBits * (i + 1)] = a * (w * p)
    BY <2>6, <2>8
  <2>13. (a * w + e) * p + d = a * (w * p) + (e * p + d)
    OBVIOUS
  <2>14. Total(c[i + 1]) = Total(x) * Pow2[ByteBits * (i + 1)] + v[i + 1]
    BY <2>10, <2>11, <2>12, <2>13
  <2>15. QED
    BY <2>2, <2>5, <2>14
<1> HIDE DEF T, Loaded
<1>8. T = Nat
  BY <1>6, <1>7, SetInduction DEF T
<1>9. Loaded(m)
  BY <1>1, <1>8 DEF T
<1>10. Counted(c[m])
  BY <1>1, <1>2
<1>11. QED
  BY <1>2, <1>3, <1>9, <1>10 DEF Loaded, m

(* loadBytes: whatever the word behind the vector is taken for, an outcome   *)
(* that ends in its vector is the exact one.                                 *)
LEMMA LoadBytesExact ==
  ASSUME NEW x, Proper(x), NEW bytes \in Seq(Byte), NEW preZero \in BOOLEAN,
         NEW z \in LoadBytes(x, bytes, preZero), z.used <= z.size
  PROVE  /\ Proper(z)
         /\ preZero => Value(z) = BytesNumber(bytes)
         /\ ~preZero =>
              Value(z) = Signed(x, Magnitude(x) * Pow2[ByteBits * Len(bytes)]
                                   + BytesNumber(bytes))
<1> DEFINE start == IF preZero THEN Zero(x) ELSE x
           y == LoadUnclamped(start, bytes)
           cut == [y EXCEPT !.used = y.size]
<1>1. z \in IF y.used <= y.size THEN {Clamp(y)} ELSE {Clamp(cut), y}
  BY DEF LoadBytes
<1>2. Proper(start) /\ Safe(start)
  BY ZeroExact DEF Proper
<1>3. preZero => start.neg = FALSE /\ Magnitude(start) = 0
  <2>1. preZero => start.used = 0 /\ Magnitude(start) = 0
    BY ZeroExact, ZeroSafe DEF Proper, Safe
  <2>2. start.neg \in BOOLEAN
    BY <1>2, Fields DEF Safe
  <2>3. QED
    BY <1>2, <2>1, <2>2 DEF Proper, ZeroNonnegative, IsZero
<1>4. ~preZero => start = x
  OBVIOUS
<1> HIDE DEF start
<1>5. Counted(start)
  <2>1. start.used \in Nat /\ start.size \in Nat /\ start.used <= start.size
    BY <1>2, Fields DEF Safe, UsedInVector
  <2>2. QED
    BY <1>2, <2>1 DEF Safe, Counted
<1>6. /\ Counted(y) /\ y.neg = start.neg
      /\ Total(y) = Magnitude(start) * Pow2[ByteBits * Len(bytes)]
                    + BytesNumber(bytes)
  <2>1. Total(start) = Magnitude(start)
    BY <1>2, TotalSettles DEF Safe
  <2>2. QED
    BY <1>5, <2>1, LoadUnclampedExact
<1> HIDE DEF y
<1>7. Proper(z) /\ Value(z) = Signed(start, Total(y))
  <2>1. CASE y.used <= y.size
    <3>1. Safe(y)
      BY <1>6, <2>1 DEF Safe, Counted, UsedInVector
    <3>2. Total(y) = Magnitude(y)
      BY <3>1, TotalSettles DEF Safe
    <3>3. Proper(Clamp(y)) /\ Value(Clamp(y)) = Signed(start, Magnitude(y))
      BY <1>6, <3>1, ClampSigned
    <3>4. QED
      BY <1>1, <2>1, <3>2, <3>3
  <2>2. CASE ~(y.used <= y.size)
    <3>1. y \in Exactly(y.neg, y.used, y.size, y.dig)
      BY <1>6, Shape DEF Counted
    <3>2. cut \in Exactly(y.neg, y.size, y.size, y.dig)
      BY <3>1 DEF Exactly
    <3> HIDE DEF cut
    <3>3. /\ y.neg \in BOOLEAN /\ y.size \in Nat /\ y.size > 0
          /\ y.dig \in [0 .. y.size - 1 -> Digit]
      BY <1>6, Fields DEF Counted
    <3>4. /\ Safe(cut) /\ cut.size = y.size /\ cut.dig = y.dig
          /\ cut.neg = y.neg
      BY <3>2, <3>3 DEF Safe, IsNumber, UsedInVector, ClearAboveUsed, Exactly
    <3>5. Words(cut) = Words(y)
      BY <3>4 DEF Words
    <3>6. Magnitude(cut) = Total(y)
      <4>1. Magnitude(cut) = Total(cut)
        BY <3>4, TotalSettles DEF Safe
      <4>2. QED
        BY <3>4, <3>5, <4>1 DEF Total
    <3>7. Proper(Clamp(cut)) /\ Value(Clamp(cut)) = Signed(start, Magnitude(cut))
      BY <1>6, <3>4, ClampSigned
    <3>8. z = Clamp(cut)
      BY <1>1, <2>2
    <3>9. QED
      BY <3>6, <3>7, <3>8
  <2>3. QED
    BY <2>1, <2>2
<1>8. ASSUME preZero PROVE Value(z) = BytesNumber(bytes)
  <2>1. PICK v : /\ BytesNumber(bytes) = v[Len(bytes)]
                 /\ \A i \in 0 .. Len(bytes) : v[i] \in Nat
    BY BytesNumberUnfold
  <2>2. Len(bytes) \in Nat /\ Len(bytes) \in 0 .. Len(bytes)
    OBVIOUS
  <2>3. BytesNumber(bytes) \in Nat
    BY <2>1, <2>2
  <2>4. Pow2[ByteBits * Len(bytes)] \in Nat
    <3>1. ByteBits * Len(bytes) \in Nat
      BY <2>2, ByteBitsAssumption, DigitBitsAssumption
    <3>2. QED
      BY <3>1, Pow2Unfold
  <2>5. PICK e \in Nat, w \in Nat :
          BytesNumber(bytes) = e /\ Pow2[ByteBits * Len(bytes)] = w
    BY <2>3, <2>4
  <2>6. 0 * w + e = e
    OBVIOUS
  <2>7. Total(y) = e
    BY <1>3, <1>6, <1>8, <2>5, <2>6
  <2>8. QED
    BY <1>3, <1>7, <1>8, <2>5, <2>7 DEF Signed
<1>9. QED
  BY <1>4, <1>6, <1>7, <1>8 DEF Signed

(* The digits of a natural, as Represent computes them, sum to it. *)
LEMMA DigitsOf ==
  ASSUME NEW m \in Nat, NEW u \in [Nat -> Int],
         \A j \in Nat : u[j] = (m \div Weight(j)) % DigitRadix
  PROVE  \A i \in Nat : Sums(u)[i] = m % Weight(i)
<1> DEFINE S == {i \in Nat : Sums(u)[i] = m % Weight(i)}
<1>1. 0 \in S
  <2>1. m % 1 = 0
    OBVIOUS
  <2>2. QED
    BY <2>1, Weights, SumsUnfold
<1>2. ASSUME NEW i \in S PROVE i + 1 \in S
  <2>1. i \in Nat /\ Sums(u)[i] = m % Weight(i)
    OBVIOUS
  <2>2. Sums(u)[i + 1] = Sums(u)[i] + u[i] * Weight(i)
    BY <2>1, SumsUnfold
  <2>3. PICK W \in Nat \ {0} : Weight(i) = W
    BY <2>1, Weights
  <2>4. PICK Q \in Nat \ {0} : DigitRadix = Q
    BY RadixPositive
  <2>5. Weight(i + 1) = W * Q
    BY <2>1, <2>3, <2>4, Weights
  <2>6. m % (W * Q) = (m % W) + W * ((m \div W) % Q)
    <3>1. m \in Int
      OBVIOUS
    <3>2. QED
      BY <3>1, <2>3, <2>4, DivDiv, Zenon
  <2>7. u[i] = (m \div W) % Q
    BY <2>1, <2>3, <2>4, Zenon
  <2>8. PICK d \in Int : u[i] = d
    BY <2>1
  <2>9. PICK s \in Int : m % W = s
    BY <2>3
  <2>10. s + d * W = s + W * d
    OBVIOUS
  <2>11. QED
    BY <2>1, <2>2, <2>3, <2>5, <2>6, <2>7, <2>8, <2>9, <2>10
<1>3. S = Nat
  <2>1. S \in SUBSET Nat
    OBVIOUS
  <2> HIDE DEF S
  <2>2. QED
    BY <1>1, <1>2, <2>1, SetInduction
<1>4. QED
  BY <1>3 DEF S

(* BigNum() makes a zero, with a word for a digit. *)
LEMMA DefaultExact == Proper(BigNumDefault) /\ Value(BigNumDefault) = 0
<1>1. BaseCapacity \in Nat \ {0}
  BY BaseCapacityAssumption
<1>2. /\ Safe(BigNumDefault) /\ BigNumDefault.used = 0 /\ BigNumDefault.neg = FALSE
  BY <1>1, NewSafe DEF BigNumDefault
<1>3. Magnitude(BigNumDefault) = 0
  BY <1>2, ZeroMagnitude
<1>4. QED
  BY <1>2, <1>3 DEF Proper, LeadingNonzero, ZeroNonnegative, Value

(* An integer's representation is proper and stands for it. *)
LEMMA RepresentExact ==
  ASSUME NEW v \in Int
  PROVE  /\ Proper(Represent(v)) /\ Value(Represent(v)) = v
         /\ Represent(v).size >= BigNumDefault.size
<1> DEFINE m == IF v < 0 THEN -v ELSE v
           Enough(k) == /\ m < Pow2[DigitBits * k]
                        /\ k > 0 => m >= Pow2[DigitBits * (k - 1)]
           used == CHOOSE k \in 0 .. m : Enough(k)
           g == Grow(BigNumDefault, used)
           z == Represent(v)
<1>1. m \in Nat
  OBVIOUS
<1>2. used \in 0 .. m /\ m < Weight(used) /\ (used > 0 => m >= Weight(used - 1))
  <2> DEFINE f == [k \in Nat |-> Weight(k)]
  <2>1. f \in [Nat -> Nat] /\ f[0] = 1
    BY Weights
  <2>2. m < f[m]
    <3>1. DigitBits * m \in Nat /\ m \in 0 .. DigitBits * m
      <4>1. PICK d \in Nat \ {0} : DigitBits = d
        BY DigitBitsAssumption
      <4>2. d * m \in Nat /\ m <= d * m
        BY <1>1
      <4>3. QED
        BY <1>1, <4>1, <4>2
    <3>2. DigitBits * m < Pow2[DigitBits * m] /\ Pow2[DigitBits * m] \in Nat
      BY <3>1, Pow2Grows, Pow2Unfold
    <3>3. QED
      BY <1>1, <3>1, <3>2 DEF Weight
  <2> HIDE DEF f, m
  <2>3. PICK k \in 0 .. m : m < f[k] /\ (k > 0 => f[k - 1] <= m)
    BY <1>1, <2>1, <2>2, FirstAbove
  <2>4. Enough(k)
    <3>1. m < Weight(k)
      BY <1>1, <2>3 DEF f
    <3>2. ASSUME k > 0 PROVE m >= Weight(k - 1)
      <4>1. k - 1 \in Nat
        BY <1>1, <3>2
      <4>2. QED
        BY <1>1, <2>3, <3>2, <4>1, Weights DEF f
    <3>3. QED
      BY <3>1, <3>2 DEF Weight
  <2>5. used \in 0 .. m /\ Enough(used)
    BY <2>4
  <2>6. QED
    BY <2>5 DEF Weight
<1> HIDE DEF used
<1>3. used \in Nat
  BY <1>1, <1>2
<1>4. /\ Safe(g) /\ g.used = 0 /\ g.size >= used /\ g.size >= BigNumDefault.size
  <2>1. Safe(BigNumDefault) /\ BigNumDefault.used = 0
    BY BaseCapacityAssumption, NewSafe DEF BigNumDefault
  <2>2. QED
    BY <1>3, <2>1, GrowSafe DEF Safe
<1>5. /\ z.neg = (v < 0) /\ z.used = used /\ z.size = g.size
      /\ z.dig = [j \in 0 .. g.size - 1 |->
                    IF j < used THEN (m \div Pow2[DigitBits * j]) % DigitRadix ELSE 0]
      /\ z \in Exactly(z.neg, z.used, z.size, z.dig)
  <2>1. g \in Exactly(g.neg, g.used, g.size, g.dig)
    BY <1>4, Shape DEF Safe
  <2>2. z = [g EXCEPT !.neg = v < 0, !.used = used,
                !.dig = [j \in 0 .. g.size - 1 |->
                           IF j < used
                           THEN (m \div Pow2[DigitBits * j]) % DigitRadix
                           ELSE 0]]
    BY DEF Represent, used
  <2> HIDE DEF g, m, z
  <2>3. QED
    BY <2>1, <2>2 DEF Exactly
<1>6. \A j \in Nat : (m \div Weight(j)) % DigitRadix \in Digit
  <2>1. TAKE j \in Nat
  <2>2. PICK W \in Nat \ {0} : Weight(j) = W
    BY Weights
  <2>3. PICK Q \in Nat \ {0} : DigitRadix = Q
    BY RadixPositive
  <2>4. (m \div W) % Q \in 0 .. Q - 1
    BY <1>1
  <2>5. QED
    BY <2>2, <2>3, <2>4 DEF Digit
<1>7. g.size \in Nat /\ g.size > 0
  BY <1>4, Fields DEF Safe
<1> HIDE DEF g, z
<1>8. Safe(z)
  <2>1. z.dig \in [0 .. z.size - 1 -> Digit]
    <3>1. \A j \in 0 .. g.size - 1 : j \in Nat
      BY <1>7
    <3> HIDE DEF m
    <3>2. \A j \in 0 .. g.size - 1 :
            (m \div Pow2[DigitBits * j]) % DigitRadix \in Digit
      BY <1>6, <3>1, Zenon DEF Weight
    <3>3. 0 \in Digit
      BY RadixPositive
    <3>4. QED
      BY <1>5, <3>2, <3>3, Zenon
  <2>2. z.neg \in BOOLEAN /\ z.used \in Nat /\ z.size \in Nat
    BY <1>3, <1>5, <1>7
  <2>3. IsNumber(z)
    BY <1>5, <2>1, <2>2 DEF IsNumber, Exactly
  <2>4. UsedInVector(z) /\ ClearAboveUsed(z) /\ z.size > 0
    <3>1. z.used = used /\ z.size = g.size /\ used <= g.size
      BY <1>4, <1>5
    <3>2. \A j \in used .. g.size - 1 : z.dig[j] = 0
      <4>1. TAKE j \in used .. g.size - 1
      <4>2. j \in 0 .. g.size - 1 /\ ~(j < used)
        BY <1>3, <1>7
      <4> HIDE DEF m
      <4>3. QED
        BY <1>5, <4>2
    <3>3. QED
      BY <1>7, <3>1, <3>2 DEF UsedInVector, ClearAboveUsed
  <2>5. QED
    BY <2>3, <2>4 DEF Safe
<1>9. Magnitude(z) = m
  <2> DEFINE u == Words(z)
  <2>1. u \in [Nat -> Int]
    BY <1>8, WordsAreDigits DEF Safe
  <2>2. \A j \in Nat : u[j] = (m \div Weight(j)) % DigitRadix
    <3>1. TAKE j \in Nat
    <3>2. CASE j < used
      BY <1>3, <1>4, <1>5, <1>7, <3>2 DEF Words, Weight
    <3>3. CASE ~(j < used)
      <4>1. u[j] = 0
        BY <1>3, <1>5, <1>7, <3>3 DEF Words
      <4>2. PICK W \in Nat \ {0} : Weight(j) = W
        BY Weights
      <4>3. m < W
        <5>1. DigitBits * used \in 0 .. DigitBits * j /\ DigitBits * j \in Nat
          <6>1. PICK d \in Nat \ {0} : DigitBits = d
            BY DigitBitsAssumption
          <6>2. d * used \in Nat /\ d * j \in Nat /\ d * used <= d * j
            BY <1>3, <3>3
          <6>3. QED
            BY <6>1, <6>2
        <5>2. Weight(used) <= Weight(j)
          BY <5>1, Pow2Grows DEF Weight
        <5>3. Weight(used) \in Nat
          BY <1>3, Weights
        <5>4. QED
          BY <1>1, <1>2, <4>2, <5>2, <5>3
      <4>4. m \div W = 0
        BY <1>1, <4>3
      <4>5. PICK Q \in Nat \ {0} : DigitRadix = Q
        BY RadixPositive
      <4>6. 0 % Q = 0
        OBVIOUS
      <4>7. QED
        BY <4>1, <4>2, <4>4, <4>5, <4>6
    <3>4. QED
      BY <3>2, <3>3
  <2> HIDE DEF u, m
  <2>3. Sums(u)[used] = m % Weight(used)
    BY <1>1, <1>3, <2>1, <2>2, DigitsOf
  <2>4. PICK W \in Nat \ {0} : Weight(used) = W
    BY <1>3, Weights
  <2>5. m % W = m
    BY <1>1, <1>2, <2>4
  <2>6. Sums(u)[used] = Magnitude(z)
    BY <1>3, <1>5, <1>8, MagnitudeIsSum DEF u
  <2>7. QED
    BY <2>3, <2>4, <2>5, <2>6
<1>10. LeadingNonzero(z)
  <2>1. z.used > 0 => Magnitude(z) >= Weight(z.used - 1)
    <3> HIDE DEF m
    <3>1. QED
      BY <1>2, <1>5, <1>9
  <2>2. QED
    BY <1>8, <2>1, LeadingByMagnitude
<1>11. ZeroNonnegative(z)
  <2>1. z.used = 0 => m = 0
    BY <1>8, <1>9, ZeroMagnitude
  <2>2. m = 0 => ~(v < 0)
    OBVIOUS
  <2>3. z.neg = (v < 0)
    BY <1>5
  <2> HIDE DEF m
  <2>4. QED
    BY <2>1, <2>2, <2>3 DEF ZeroNonnegative, IsZero
<1>12. Value(z) = v
  <2>1. z.neg = (v < 0) /\ Magnitude(z) = m
    BY <1>5, <1>9
  <2>2. (v < 0 => -m = v) /\ (~(v < 0) => m = v)
    OBVIOUS
  <2> HIDE DEF m
  <2>3. QED
    BY <2>1, <2>2 DEF Value
<1>13. QED
  BY <1>4, <1>5, <1>8, <1>10, <1>11, <1>12 DEF Proper, z

-----------------------------------------------------------------------------
(***************************************************************************)
(* Bits.                                                                   *)
(***************************************************************************)
(* The length of a digit in bits. *)
LEMMA BitLengthExact ==
  ASSUME NEW d \in Digit
  PROVE  /\ BitLength(d) \in 0 .. DigitBits /\ d < Pow2[BitLength(d)]
         /\ BitLength(d) > 0 => Pow2[BitLength(d) - 1] <= d
<1> DEFINE f == [k \in Nat |-> Pow2[k]]
           Enough(k) == d < Pow2[k] /\ (k > 0 => Pow2[k - 1] <= d)
<1>1. DigitBits \in Nat /\ d \in Nat /\ d < Pow2[DigitBits]
  BY DigitBitsAssumption, RadixPositive DEF Digit, DigitRadix
<1>2. f \in [Nat -> Nat] /\ f[0] = 1 /\ d < f[DigitBits]
  BY <1>1, Pow2Unfold
<1>3. PICK k \in 0 .. DigitBits : d < f[k] /\ (k > 0 => f[k - 1] <= d)
  <2> HIDE DEF f
  <2>1. QED
    BY <1>1, <1>2, FirstAbove
<1>4. Enough(k)
  <2>1. k > 0 => k - 1 \in Nat
    BY <1>1
  <2>2. QED
    BY <1>1, <1>3, <2>1
<1>5. LET c == CHOOSE j \in 0 .. DigitBits : Enough(j)
      IN  c \in 0 .. DigitBits /\ Enough(c)
  <2> HIDE DEF Enough
  <2>1. QED
    BY <1>4
<1>6. QED
  BY <1>5 DEF BitLength

(* A word is a digit of the magnitude. *)
LEMMA DigitOf ==
  ASSUME NEW x, Safe(x), NEW i \in Nat
  PROVE  Words(x)[i] = (Magnitude(x) \div Weight(i)) % DigitRadix
<1>1. PICK M \in Nat : Magnitude(x) = M
  BY MagnitudeIsSum
<1>2. PICK W \in Nat \ {0} : Weight(i) = W
  BY Weights
<1>3. PICK Q \in Nat \ {0} : DigitRadix = Q
  BY RadixPositive
<1>4. Words(x) \in [Nat -> Digit] /\ Words(x) \in [Nat -> Int]
  BY WordsAreDigits DEF Safe
<1>5. PICK d \in 0 .. Q - 1 : Words(x)[i] = d
  BY <1>3, <1>4 DEF Digit
<1>6. PICK s \in Int : Sums(Words(x))[i] = s
  BY <1>4, SumsUnfold
<1>7. DigitBits \in Nat /\ 0 \in 0 .. DigitBits /\ DigitBits \in 0 .. DigitBits
  BY DigitBitsAssumption
<1>8. M % W = s
  <2>1. Magnitude(x) % (Weight(i) * Pow2[0])
          = Sums(Words(x))[i] + Weight(i) * (Words(x)[i] % Pow2[0])
    BY <1>7, LowWords
  <2>2. M % (W * 1) = s + W * (d % 1)
    BY <1>1, <1>2, <1>5, <1>6, <2>1, Pow2Unfold
  <2>3. W * 1 = W /\ s + W * (d % 1) = s
    <3>1. d % 1 = 0
      OBVIOUS
    <3>2. QED
      BY <3>1
  <2>4. QED
    BY <2>2, <2>3
<1>9. M % (W * Q) = s + W * d
  <2>1. Magnitude(x) % (Weight(i) * Pow2[DigitBits])
          = Sums(Words(x))[i] + Weight(i) * (Words(x)[i] % Pow2[DigitBits])
    BY <1>7, LowWords
  <2>2. d % Q = d
    OBVIOUS
  <2>3. QED
    BY <1>1, <1>2, <1>3, <1>5, <1>6, <2>1, <2>2 DEF DigitRadix
<1>10. M % (W * Q) = (M % W) + W * ((M \div W) % Q)
  <2>1. M \in Int
    OBVIOUS
  <2>2. QED
    BY <2>1, DivDiv, Zenon
<1>11. PICK e \in Nat : (M \div W) % Q = e
  OBVIOUS
<1>12. W * d = W * e
  BY <1>8, <1>9, <1>10, <1>11
<1>13. d = e
  BY <1>12
<1>14. QED
  BY <1>1, <1>2, <1>3, <1>5, <1>11, <1>13

(* numberBits is the number of bits of the magnitude. *)
LEMMA NumberBitsExact ==
  ASSUME NEW x, Proper(x)
  PROVE  /\ NumberBits(x) \in Nat
         /\ Magnitude(x) < Pow2[NumberBits(x)]
         /\ NumberBits(x) > 0 => Pow2[NumberBits(x) - 1] <= Magnitude(x)
         /\ NumberBits(x) = 0 <=> x.used = 0
<1>1. CASE x.used = 0
  <2>1. Magnitude(x) = 0 /\ NumberBits(x) = 0
    BY <1>1, ProperValue DEF NumberBits, IsZero
  <2>2. QED
    BY <1>1, <2>1, Pow2Unfold
<1>2. CASE x.used # 0
  <2> DEFINE t == x.used - 1
             top == x.dig[t]
             k == BitLength(top)
  <2>1. t \in Nat /\ x.used = t + 1 /\ t < x.size
    BY <1>2, Fields DEF Proper, Safe, UsedInVector
  <2>2. top \in Digit /\ top # 0 /\ Words(x)[t] = top /\ top \in Nat
    <3>1. t \in 0 .. x.size - 1
      BY <2>1, Fields DEF Proper, Safe
    <3>2. top # 0
      BY <2>1 DEF Proper, LeadingNonzero
    <3>3. QED
      BY <2>1, <3>1, <3>2, Fields, RadixPositive DEF Proper, Safe, Words, Digit
  <2>3. k \in 0 .. DigitBits /\ top < Pow2[k] /\ (k > 0 => Pow2[k - 1] <= top)
    BY <2>2, BitLengthExact
  <2>4. NumberBits(x) = t * DigitBits + k
    BY <1>2 DEF NumberBits, IsZero
  <2> HIDE DEF t, top, k
  <2>5. k \in Nat /\ DigitBits \in Nat
    BY <2>3, DigitBitsAssumption
  <2>6. k > 0
    <3>1. k = 0 => FALSE
      BY <2>2, <2>3, Pow2Unfold
    <3>2. QED
      BY <2>5, <3>1
  <2>7. k - 1 \in Nat
    BY <2>5, <2>6
  <2>8. PICK W \in Nat \ {0} : Weight(t) = W
    BY <2>1, Weights
  <2>9. PICK P \in Nat \ {0} : Pow2[k - 1] = P
    BY <2>7, Pow2Unfold
  <2>10. Pow2[k] = 2 * P
    <3>1. k = (k - 1) + 1
      BY <2>5
    <3>2. QED
      BY <2>7, <2>9, <3>1, Pow2Unfold
  <2>11. PICK d \in Nat : top = d /\ P <= d /\ d < 2 * P
    BY <2>2, <2>3, <2>6, <2>9, <2>10
  <2>12. PICK s \in 0 .. W - 1 : Sums(Words(x))[t] = s
    BY <2>1, <2>8, WordsAreDigits, SumsBound DEF Proper, Safe
  <2>13. Magnitude(x) = s + d * W
    <3>1. Words(x) \in [Nat -> Int] /\ Safe(x) /\ x.used \in Nat
      BY WordsAreDigits, Fields DEF Proper, Safe
    <3>2. Sums(Words(x))[t + 1] = s + d * W
      BY <2>1, <2>2, <2>8, <2>11, <2>12, <3>1, SumsUnfold
    <3>3. Sums(Words(x))[x.used] = Magnitude(x)
      BY <3>1, MagnitudeIsSum
    <3>4. QED
      BY <2>1, <3>2, <3>3
  <2>14. P * W <= s + d * W /\ s + d * W < (2 * P) * W
    <3>1. P * W <= d * W
      BY <2>11
    <3>2. (d + 1) * W <= (2 * P) * W
      BY <2>11
    <3>3. (d + 1) * W = d * W + W /\ d * W \in Nat
      OBVIOUS
    <3>4. QED
      BY <3>1, <3>2, <3>3
  <2>15. t * DigitBits = DigitBits * t /\ t * DigitBits \in Nat
    BY <2>1, <2>5
  <2>16. Pow2[NumberBits(x)] = W * (2 * P)
    BY <2>4, <2>5, <2>8, <2>10, <2>15, Pow2Sum DEF Weight
  <2>17. Pow2[NumberBits(x) - 1] = W * P
    <3>1. NumberBits(x) - 1 = t * DigitBits + (k - 1)
      BY <2>4, <2>5, <2>15
    <3>2. QED
      BY <2>7, <2>8, <2>9, <2>15, <3>1, Pow2Sum DEF Weight
  <2>18. NumberBits(x) \in Nat /\ NumberBits(x) # 0
    BY <2>4, <2>5, <2>6, <2>15
  <2>19. W * P = P * W /\ W * (2 * P) = (2 * P) * W
    OBVIOUS
  <2>20. QED
    BY <1>2, <2>13, <2>14, <2>16, <2>17, <2>18, <2>19
<1>3. QED
  BY <1>1, <1>2

(* A bit of a digit of N is a bit of N. *)
LEMMA BitOfDigit ==
  ASSUME NEW N \in Nat, NEW P \in Nat \ {0}, NEW H \in Nat \ {0}
  PROVE  ((N % (P * (2 * H))) \div P) % 2 = (N \div P) % 2
<1> DEFINE Q == 2 * H
           d == N % (P * Q)
<1>1. Q \in Nat \ {0} /\ P * Q \in Nat \ {0}
  OBVIOUS
<1>2. PICK c \in Int : N = (P * Q) * c + d
  <2>1. PICK m \in Nat \ {0} : m = P * Q
    BY <1>1
  <2>2. N = m * (N \div m) + (N % m) /\ N \div m \in Int
    OBVIOUS
  <2>3. QED
    BY <2>1, <2>2
<1>3. d \in Int
  BY <1>1
<1> HIDE DEF d, Q
<1>4. d \div P \in Int /\ d % P \in 0 .. P - 1 /\ d = P * (d \div P) + (d % P)
  BY <1>3
<1>5. PICK q \in Int, r \in 0 .. P - 1 : q = d \div P /\ d = P * q + r
  BY <1>4
<1>6. N = P * (Q * c + q) + r
  <2>1. (P * Q) * c = P * (Q * c) /\ P * (Q * c + q) = P * (Q * c) + P * q
    BY <1>1
  <2>2. Q * c \in Int /\ (P * Q) * c \in Int /\ P * q \in Int
    BY <1>1
  <2>3. QED
    BY <1>2, <1>3, <1>5, <2>1, <2>2
<1>7. N \div P = Q * c + q
  <2>1. Q * c + q \in Int /\ 0 <= r /\ r < P /\ r \in Int /\ N \in Int
    BY <1>1
  <2>2. QED
    BY <1>6, <2>1, DivModUnique
<1>8. Q * c + q = q + 2 * (H * c)
  BY DEF Q
<1>9. (q + 2 * (H * c)) % 2 = q % 2
  <2>1. PICK e \in Int : e = H * c
    OBVIOUS
  <2>2. (q + 2 * e) % 2 = q % 2
    OBVIOUS
  <2>3. QED
    BY <2>1, <2>2
<1>10. QED
  BY <1>5, <1>7, <1>8, <1>9 DEF d, Q

(* The place of the bit above which a biterator stands: how many are left. *)
BitsLeft(it) == it.digit * DigitBits + it.bits

(* A position of a biterator of x. *)
IsPosition(x, it) ==
  /\ it \in [digit : Nat, bits : 0 .. DigitBits]
  /\ HasBits(it) => it.digit < x.used
  /\ ~HasBits(it) => it.digit = 0

(* nextBit's mask picks that bit of the magnitude. *)
LEMMA BitAtExact ==
  ASSUME NEW x, Safe(x), NEW it, IsPosition(x, it), HasBits(it)
  PROVE  /\ BitsLeft(it) - 1 \in Nat
         /\ BitAt(x, it) = (Magnitude(x) \div Pow2[BitsLeft(it) - 1]) % 2
<1> DEFINE t == it.digit
           k == it.bits - 1
<1>1. DigitBits \in Nat /\ t \in Nat /\ k \in 0 .. DigitBits - 1 /\ it.bits = k + 1
  BY DigitBitsAssumption DEF IsPosition, HasBits
<1>2. t < x.size /\ t < x.used
  BY <1>1, Fields DEF IsPosition, Safe, UsedInVector
<1>3. k \in Nat /\ DigitBits - k - 1 \in Nat
  BY <1>1
<1>4. BitAt(x, it) = (x.dig[t] \div Pow2[k]) % 2
  BY DEF BitAt
<1>5. BitsLeft(it) - 1 = DigitBits * t + k /\ DigitBits * t \in Nat
  <2>1. it.bits - 1 = k /\ t * DigitBits = DigitBits * t /\ DigitBits * t \in Nat
    BY <1>1
  <2>2. QED
    BY <1>1, <2>1 DEF BitsLeft
<1> HIDE DEF t, k
<1>6. PICK M \in Nat : Magnitude(x) = M
  BY MagnitudeIsSum
<1>7. PICK W \in Nat \ {0} : Weight(t) = W
  BY <1>1, Weights
<1>8. PICK P \in Nat \ {0} : Pow2[k] = P
  BY <1>3, Pow2Unfold
<1>9. PICK H \in Nat \ {0} : Pow2[DigitBits - k - 1] = H
  BY <1>3, Pow2Unfold
<1>10. DigitRadix = P * (2 * H)
  <2>1. DigitBits = k + ((DigitBits - k - 1) + 1) /\ (DigitBits - k - 1) + 1 \in Nat
    BY <1>1, <1>3
  <2>2. Pow2[(DigitBits - k - 1) + 1] = 2 * H
    BY <1>3, <1>9, Pow2Unfold
  <2>3. PICK e \in Nat : e = (DigitBits - k - 1) + 1
    BY <2>1
  <2>4. Pow2[k + e] = Pow2[k] * Pow2[e]
    BY <1>3, Pow2Sum
  <2>5. DigitBits = k + e
    BY <2>1, <2>3
  <2>6. Pow2[e] = 2 * H
    BY <2>2, <2>3
  <2>7. QED
    BY <1>8, <2>4, <2>5, <2>6 DEF DigitRadix
<1>11. PICK N \in Nat : M \div W = N
  OBVIOUS
<1>12. x.dig[t] = N % (P * (2 * H))
  <2>1. Words(x)[t] = (Magnitude(x) \div Weight(t)) % DigitRadix
    BY <1>1, DigitOf
  <2>2. Words(x)[t] = x.dig[t]
    BY <1>1, <1>2 DEF Words
  <2>3. QED
    BY <1>6, <1>7, <1>10, <1>11, <2>1, <2>2
<1>13. M \div (W * P) = N \div P
  <2>1. M \in Int
    OBVIOUS
  <2>2. M \div (W * P) = (M \div W) \div P
    BY <2>1, DivDiv, Zenon
  <2>3. QED
    BY <1>11, <2>2
<1>14. Pow2[DigitBits * t + k] = W * P
  BY <1>3, <1>5, <1>7, <1>8, Pow2Sum DEF Weight
<1>15. ((N % (P * (2 * H))) \div P) % 2 = (N \div P) % 2
  BY BitOfDigit
<1>16. BitsLeft(it) - 1 \in Nat
  BY <1>3, <1>5
<1>17. BitAt(x, it) = (N \div P) % 2
  BY <1>4, <1>8, <1>12, <1>15
<1>18. QED
  BY <1>5, <1>6, <1>13, <1>14, <1>16, <1>17

(* The biterator begins above the leading bit of x. *)
LEMMA BiteratorExact ==
  ASSUME NEW x, Proper(x)
  PROVE  IsPosition(x, Biterator(x)) /\ BitsLeft(Biterator(x)) = NumberBits(x)
<1>1. PICK D \in Nat \ {0} : DigitBits = D
  BY DigitBitsAssumption
<1>2. CASE x.used = 0
  BY <1>1, <1>2 DEF Biterator, IsZero, NumberBits, BitsLeft, IsPosition, HasBits
<1>3. CASE x.used # 0
  <2> DEFINE t == x.used - 1
             k == BitLength(x.dig[t])
             r == IF NumberBits(x) % DigitBits = 0 THEN DigitBits
                  ELSE NumberBits(x) % DigitBits
  <2>1. t \in Nat /\ t < x.used /\ x.used \in Nat /\ t < x.size
    BY <1>3, Fields DEF Proper, Safe, UsedInVector
  <2>2. x.dig[t] \in Digit /\ x.dig[t] # 0 /\ x.dig[t] \in Nat
    <3>1. t \in 0 .. x.size - 1
      BY <2>1, Fields DEF Proper, Safe
    <3>2. x.dig[t] # 0
      BY <2>1 DEF Proper, LeadingNonzero
    <3>3. QED
      BY <2>1, <3>1, <3>2, Fields, RadixPositive DEF Proper, Safe, Digit
  <2>3. k \in 0 .. DigitBits /\ x.dig[t] < Pow2[k]
    BY <2>2, BitLengthExact
  <2>4. NumberBits(x) = t * DigitBits + k
    BY <1>3 DEF NumberBits, IsZero
  <2>5. Biterator(x) = [digit |-> t, bits |-> r]
    BY <1>3 DEF Biterator, IsZero
  <2> HIDE DEF t, k
  <2>6. k # 0
    <3>1. k = 0 => FALSE
      BY <2>2, <2>3, Pow2Unfold
    <3>2. QED
      BY <3>1
  <2>7. (t * D + k) % D = IF k = D THEN 0 ELSE k
    <3>1. t * D \in Nat /\ k \in 1 .. D
      BY <1>1, <2>1, <2>3, <2>6
    <3>2. CASE k = D
      <4>1. t * D + k = D * (t + 1) + 0 /\ t + 1 \in Int /\ t * D + k \in Int
        BY <2>1, <3>1, <3>2
      <4>2. QED
        BY <3>2, <4>1, DivModUnique
    <3>3. CASE k # D
      <4>1. t * D + k = D * t + k /\ t \in Int /\ t * D + k \in Int /\ k \in Int
            /\ 0 <= k /\ k < D
        BY <2>1, <3>1, <3>3
      <4>2. QED
        BY <3>3, <4>1, DivModUnique
    <3>4. QED
      BY <3>2, <3>3
  <2>8. r = k
    BY <1>1, <2>3, <2>4, <2>6, <2>7
  <2> HIDE DEF r
  <2>9. Biterator(x).digit = t /\ Biterator(x).bits = k
        /\ Biterator(x) \in [digit : Nat, bits : 0 .. DigitBits]
    BY <2>1, <2>3, <2>5, <2>8
  <2>10. k > 0
    BY <1>1, <2>3, <2>6
  <2>11. QED
    BY <2>1, <2>4, <2>9, <2>10 DEF IsPosition, HasBits, BitsLeft
<1>4. QED
  BY <1>2, <1>3

(* nextBit moves down by one bit, from digit to digit. *)
LEMMA NextBitExact ==
  ASSUME NEW x, x.used \in Nat, NEW it, IsPosition(x, it), HasBits(it)
  PROVE  IsPosition(x, NextBit(it)) /\ BitsLeft(NextBit(it)) = BitsLeft(it) - 1
<1>1. PICK D \in Nat \ {0} : DigitBits = D
  BY DigitBitsAssumption
<1>2. PICK t \in Nat, b \in 1 .. D : it = [digit |-> t, bits |-> b]
  <2>1. it.digit \in Nat /\ it.bits \in 1 .. D /\ it = [digit |-> it.digit, bits |-> it.bits]
    BY <1>1 DEF IsPosition, HasBits
  <2>2. QED
    BY <2>1
<1>3. it.digit = t /\ it.bits = b /\ t < x.used
  BY <1>2 DEF IsPosition
<1>4. BitsLeft(it) = t * D + b /\ t * D \in Nat
  BY <1>1, <1>3 DEF BitsLeft
<1>5. CASE b = 1 /\ t > 0
  <2>1. NextBit(it) = [digit |-> t - 1, bits |-> D]
    BY <1>1, <1>3, <1>5 DEF NextBit
  <2>2. BitsLeft(NextBit(it)) = (t - 1) * D + D
    BY <1>1, <2>1 DEF BitsLeft
  <2>3. (t - 1) * D + D = t * D
    BY <1>5
  <2>4. BitsLeft(NextBit(it)) = BitsLeft(it) - 1
    BY <1>4, <1>5, <2>2, <2>3
  <2>5. IsPosition(x, NextBit(it))
    <3>1. t - 1 \in Nat /\ D \in 0 .. D /\ D > 0 /\ t - 1 < x.used
      BY <1>3, <1>5
    <3>2. QED
      BY <1>1, <2>1, <3>1 DEF IsPosition, HasBits
  <2>6. QED
    BY <2>4, <2>5
<1>6. CASE ~(b = 1 /\ t > 0)
  <2>1. NextBit(it) = [digit |-> t, bits |-> b - 1]
    BY <1>1, <1>2, <1>3, <1>6 DEF NextBit
  <2>2. BitsLeft(NextBit(it)) = t * D + (b - 1)
    BY <1>1, <2>1 DEF BitsLeft
  <2>3. BitsLeft(NextBit(it)) = BitsLeft(it) - 1
    BY <1>4, <2>2
  <2>4. b - 1 \in 0 .. D /\ (b - 1 > 0 => t < x.used) /\ (~(b - 1 > 0) => t = 0)
    BY <1>3, <1>6
  <2>5. QED
    BY <1>1, <2>1, <2>3, <2>4 DEF IsPosition, HasBits
<1>7. QED
  BY <1>5, <1>6

(* The places of the biterator, one nextBit after the other, and the number *)
(* of bits after which there are no more.                                   *)
Places(x) ==
  LET it[k \in Nat] == IF k = 0 THEN Biterator(x) ELSE NextBit(it[k - 1])
  IN  it
Visits(x) ==
  CHOOSE k \in 0 .. x.used * DigitBits :
    ~HasBits(Places(x)[k]) /\ \A j \in 0 .. k - 1 : HasBits(Places(x)[j])

(* Each place is the next bit of the one before. *)
LEMMA PlacesUnfold ==
  ASSUME NEW x, Proper(x)
  PROVE  /\ Places(x)[0] = Biterator(x)
         /\ \A k \in Nat : Places(x)[k + 1] = NextBit(Places(x)[k])
<1> DEFINE V == [digit : Int, bits : Int]
           step == [p \in Nat \X V |-> NextBit(p[2])]
           Body(g) == [k \in Nat |-> IF k = 0 THEN Biterator(x) ELSE NextBit(g[k - 1])]
           c == Places(x)
<1>1. Biterator(x) \in V
  <2>1. Biterator(x) \in [digit : Nat, bits : 0 .. DigitBits]
    BY BiteratorExact DEF IsPosition
  <2>2. QED
    BY <2>1, DigitBitsAssumption
<1>2. \A w \in V : NextBit(w) \in V
  BY DigitBitsAssumption DEF NextBit
<1>3. step \in StepFunctions(V)
  BY <1>2 DEF StepFunctions
<1>4. PICK f : Solves(V, Biterator(x), step, f)
  <2> HIDE DEF V, step
  <2>1. QED
    BY <1>1, <1>3, RecursionSolves
<1>5. f = Body(f)
  <2>1. ASSUME NEW k \in Nat, k # 0 PROVE f[k] = NextBit(f[k - 1])
    <3>1. k - 1 \in Nat /\ f[k - 1] \in V
      <4>1. k - 1 \in Nat
        BY <2>1
      <4>2. f \in [Nat -> V]
        BY <1>4 DEF Solves
      <4>3. QED
        BY <4>1, <4>2
    <3>2. f[k] = step[<<k - 1, f[k - 1]>>]
      BY <2>1, <1>4 DEF Solves
    <3> HIDE DEF V
    <3>3. step[<<k - 1, f[k - 1]>>] = NextBit(f[k - 1])
      BY <3>1
    <3>4. QED
      BY <3>2, <3>3
  <2>2. f = [k \in Nat |-> f[k]] /\ f[0] = Biterator(x)
    BY <1>4 DEF Solves
  <2>3. QED
    BY <2>1, <2>2
<1>6. c = Body(c)
  <2>1. c = CHOOSE g : g = Body(g)
    BY DEF Places
  <2> HIDE DEF c
  <2>2. QED
    BY <1>5, <2>1
<1> HIDE DEF c
<1>7. c[0] = Biterator(x)
  BY <1>6
<1>8. ASSUME NEW k \in Nat PROVE c[k + 1] = NextBit(c[k])
  <2>1. k + 1 \in Nat /\ k + 1 # 0 /\ (k + 1) - 1 = k
    OBVIOUS
  <2>2. c[k + 1] = NextBit(c[(k + 1) - 1])
    BY <1>6, <2>1
  <2>3. QED
    BY <2>1, <2>2
<1>9. QED
  BY <1>7, <1>8 DEF c

(* The biterator visits every bit of the magnitude, the leading one first. *)
LEMMA BitsOfExact ==
  ASSUME NEW x, Proper(x)
  PROVE  BitsOf(x) = [k \in 1 .. NumberBits(x) |->
                        (Magnitude(x) \div Pow2[NumberBits(x) - k]) % 2]
<1> DEFINE p == Places(x)
           N == NumberBits(x)
           At(k) == IsPosition(x, p[k]) /\ BitsLeft(p[k]) = N - k
           S == {k \in Nat : k <= N => At(k)}
<1>1. N \in Nat /\ x.used \in Nat /\ Safe(x)
  BY NumberBitsExact, Fields DEF Proper, Safe
<1>2. /\ p[0] = Biterator(x)
      /\ \A k \in Nat : p[k + 1] = NextBit(p[k])
  BY PlacesUnfold
<1>3. IsPosition(x, Biterator(x)) /\ BitsLeft(Biterator(x)) = N
  BY BiteratorExact
<1> HIDE DEF p, N
<1>4. ASSUME NEW k \in Nat, At(k)
      PROVE  HasBits(p[k]) <=> k # N
  <2>1. /\ p[k].digit \in Nat /\ p[k].bits \in Nat
        /\ ~HasBits(p[k]) => p[k].digit = 0
    BY <1>4, DigitBitsAssumption DEF IsPosition
  <2>2. PICK d \in Nat, b \in Nat, D \in Nat : p[k].digit = d /\ p[k].bits = b /\ DigitBits = D
    BY <2>1, DigitBitsAssumption
  <2>3. d * D + b = N - k /\ d * D \in Nat /\ (b = 0 => d = 0)
    BY <1>4, <2>1, <2>2 DEF BitsLeft, HasBits
  <2>4. b = 0 => d * D = 0
    BY <2>3
  <2>5. b > 0 <=> k # N
    BY <1>1, <2>3, <2>4
  <2>6. QED
    BY <2>2, <2>5 DEF HasBits
<1>5. \A k \in Nat : k <= N => At(k)
  <2>1. 0 \in S
    BY <1>1, <1>2, <1>3
  <2>2. ASSUME NEW k \in S PROVE k + 1 \in S
    <3>1. SUFFICES ASSUME k + 1 <= N PROVE At(k + 1)
      OBVIOUS
    <3>2. k \in Nat /\ At(k) /\ k # N
      BY <1>1, <3>1
    <3>3. HasBits(p[k]) /\ p[k + 1] = NextBit(p[k])
      BY <1>2, <1>4, <3>2
    <3>4. IsPosition(x, p[k])
      BY <3>2
    <3>5. IsPosition(x, NextBit(p[k])) /\ BitsLeft(NextBit(p[k])) = BitsLeft(p[k]) - 1
      BY <1>1, <3>3, <3>4, NextBitExact
    <3>6. BitsLeft(p[k]) = N - k
      BY <3>2
    <3>7. BitsLeft(p[k]) - 1 = N - (k + 1)
      BY <1>1, <3>2, <3>6
    <3>8. QED
      BY <3>3, <3>5, <3>7
  <2> HIDE DEF S
  <2>3. S = Nat
    BY <2>1, <2>2, SetInduction DEF S
  <2>4. QED
    BY <2>3 DEF S
<1>6. \A k \in 0 .. N : HasBits(p[k]) <=> k # N
  <2>1. TAKE k \in 0 .. N
  <2>2. k \in Nat /\ At(k)
    BY <1>1, <1>5
  <2> HIDE DEF At
  <2>3. QED
    BY <1>4, <2>2
<1>7. N <= x.used * DigitBits
  <2>1. CASE x.used = 0
    <3>1. N = 0 /\ 0 * DigitBits = 0
      BY <2>1, NumberBitsExact, DigitBitsAssumption DEF N
    <3>2. QED
      BY <2>1, <3>1
  <2>2. CASE x.used # 0
    <3>1. N # 0 /\ 0 \in 0 .. N
      BY <1>1, <2>2, NumberBitsExact DEF N
    <3>2. HasBits(p[0]) /\ At(0)
      BY <1>1, <1>5, <1>6, <3>1
    <3>3. /\ p[0].digit \in Nat /\ p[0].digit < x.used /\ p[0].bits \in 0 .. DigitBits
          /\ p[0].digit * DigitBits + p[0].bits = N - 0
      BY <3>2 DEF IsPosition, BitsLeft
    <3>4. PICK d \in Nat, b \in Nat, D \in Nat :
            p[0].digit = d /\ p[0].bits = b /\ DigitBits = D
      BY <3>3, DigitBitsAssumption
    <3>5. d + 1 <= x.used /\ b <= D /\ N = d * D + b /\ d * D \in Nat
      BY <1>1, <3>3, <3>4
    <3>6. (d + 1) * D = d * D + D /\ (d + 1) * D <= x.used * D
      BY <1>1, <3>5
    <3>7. x.used * D \in Nat
      BY <1>1
    <3>8. QED
      BY <3>4, <3>5, <3>6, <3>7
  <2>3. QED
    BY <2>1, <2>2
<1>8. Visits(x) = N
  <2> DEFINE U == x.used * DigitBits
             Ends(k) == ~HasBits(p[k]) /\ \A j \in 0 .. k - 1 : HasBits(p[j])
  <2>1. U \in Nat /\ N \in 0 .. U
    BY <1>1, <1>7, DigitBitsAssumption
  <2>2. Visits(x) = CHOOSE k \in 0 .. U : Ends(k)
    BY DEF Visits, p
  <2> HIDE DEF U
  <2>3. Ends(N)
    BY <1>1, <1>6
  <2>4. ASSUME NEW k \in 0 .. U, Ends(k) PROVE k = N
    <3>1. CASE k < N
      BY <1>1, <1>6, <2>1, <2>4, <3>1
    <3>2. CASE N < k
      <4>1. N \in 0 .. k - 1 /\ N \in 0 .. N
        BY <1>1, <2>1, <3>2
      <4>2. HasBits(p[N])
        BY <2>4, <4>1
      <4>3. QED
        BY <1>6, <4>1, <4>2
    <3>3. QED
      BY <1>1, <2>1, <3>1, <3>2
  <2> HIDE DEF Ends
  <2>5. QED
    BY <2>1, <2>2, <2>3, <2>4
<1>9. BitsOf(x) = [k \in 1 .. N |-> BitAt(x, p[k - 1])]
  <2>1. BitsOf(x) = [k \in 1 .. Visits(x) |-> BitAt(x, Places(x)[k - 1])]
    BY DEF BitsOf, Visits, Places
  <2>2. QED
    BY <1>8, <2>1 DEF p
<1>10. ASSUME NEW k \in 1 .. N
       PROVE  BitAt(x, p[k - 1]) = (Magnitude(x) \div Pow2[N - k]) % 2
  <2>1. k - 1 \in Nat /\ k - 1 <= N /\ k - 1 \in 0 .. N /\ k - 1 # N /\ (N - (k - 1)) - 1 = N - k
    BY <1>1
  <2>2. At(k - 1) /\ HasBits(p[k - 1])
    BY <1>5, <1>6, <2>1
  <2>3. IsPosition(x, p[k - 1]) /\ BitsLeft(p[k - 1]) - 1 = N - k
    BY <2>1, <2>2
  <2>4. BitAt(x, p[k - 1]) = (Magnitude(x) \div Pow2[BitsLeft(p[k - 1]) - 1]) % 2
    BY <1>1, <2>2, <2>3, BitAtExact
  <2>5. QED
    BY <2>3, <2>4
<1>11. QED
  BY <1>9, <1>10 DEF N

(* The number that a sequence of bits spells, the first one leading. *)
BitsNumber(bits) ==
  LET v[i \in 0 .. Len(bits)] == IF i = 0 THEN 0 ELSE 2 * v[i - 1] + bits[i]
  IN  v[Len(bits)]

(* A quotient of naturals. *)
LEMMA NatQuotient ==
  ASSUME NEW a \in Nat, NEW b \in Nat \ {0}
  PROVE  a \div b \in Nat /\ (a < b => a \div b = 0)
OBVIOUS

(* Bits read off a number from the top spell the number. *)
LEMMA BitsSpell ==
  ASSUME NEW M \in Nat, NEW N \in Nat, M < Pow2[N], NEW bits \in Seq(Int),
         Len(bits) = N, \A k \in 1 .. N : bits[k] = (M \div Pow2[N - k]) % 2
  PROVE  BitsNumber(bits) = M
<1> DEFINE q == [i \in 0 .. N |-> M \div Pow2[N - i]]
           Body(g) == [i \in 0 .. N |-> IF i = 0 THEN 0 ELSE 2 * g[i - 1] + bits[i]]
           c == CHOOSE g : g = Body(g)
<1>1. ASSUME NEW i \in 0 .. N PROVE q[i] \in Nat
  <2>1. N - i \in Nat
    OBVIOUS
  <2>2. PICK P \in Nat \ {0} : Pow2[N - i] = P
    BY <2>1, Pow2Unfold
  <2>3. M \div P \in Nat
    BY NatQuotient
  <2>4. QED
    BY <2>2, <2>3
<1>2. q[0] = 0
  <2>1. PICK P \in Nat \ {0} : Pow2[N] = P
    BY Pow2Unfold
  <2>2. M \div P = 0
    BY <2>1, NatQuotient
  <2>3. N - 0 = N /\ 0 \in 0 .. N
    OBVIOUS
  <2>4. QED
    BY <2>1, <2>2, <2>3
<1>3. ASSUME NEW i \in 1 .. N PROVE q[i] = 2 * q[i - 1] + bits[i]
  <2>1. N - i \in Nat /\ N - (i - 1) = (N - i) + 1 /\ i \in 0 .. N /\ i - 1 \in 0 .. N
    OBVIOUS
  <2>2. PICK P \in Nat \ {0} : Pow2[N - i] = P /\ Pow2[(N - i) + 1] = P * 2
    <3>1. PICK j \in Nat : j = N - i
      BY <2>1
    <3>2. PICK P \in Nat \ {0} : Pow2[j] = P /\ Pow2[j + 1] = 2 * P
      BY Pow2Unfold
    <3>3. 2 * P = P * 2
      OBVIOUS
    <3>4. QED
      BY <3>1, <3>2, <3>3
  <2>3. q[i] = M \div P
    BY <2>1, <2>2
  <2>4. q[i - 1] = M \div (P * 2)
    BY <2>1, <2>2
  <2>5. M \div (P * 2) = (M \div P) \div 2
    <3>1. M \in Int /\ 2 \in Nat \ {0}
      OBVIOUS
    <3>2. QED
      BY <3>1, DivDiv
  <2>6. bits[i] = (M \div P) % 2
    BY <2>2
  <2>7. PICK d \in Nat : M \div P = d
    BY NatQuotient
  <2>8. d = 2 * (d \div 2) + (d % 2)
    OBVIOUS
  <2>9. QED
    BY <2>3, <2>4, <2>5, <2>6, <2>7, <2>8
<1> HIDE DEF q
<1>4. q = Body(q)
  <2>1. q = [i \in 0 .. N |-> q[i]]
    BY DEF q
  <2>2. \A i \in 0 .. N : q[i] = IF i = 0 THEN 0 ELSE 2 * q[i - 1] + bits[i]
    BY <1>2, <1>3
  <2>3. QED
    BY <2>1, <2>2
<1>5. BitsNumber(bits) = c[N]
  BY DEF BitsNumber
<1>6. c = Body(c)
  BY <1>4
<1> HIDE DEF c
<1> DEFINE S == {i \in Nat : i <= N => c[i] = q[i]}
<1>7. 0 \in S
  <2>1. c[0] = 0
    BY <1>6
  <2>2. QED
    BY <1>2, <2>1
<1>8. ASSUME NEW i \in S PROVE i + 1 \in S
  <2>1. SUFFICES ASSUME i + 1 <= N PROVE c[i + 1] = q[i + 1]
    OBVIOUS
  <2>2. i \in Nat /\ i + 1 \in 1 .. N /\ (i + 1) - 1 = i /\ c[i] = q[i]
    BY <2>1
  <2>3. q[i + 1] = 2 * q[i] + bits[i + 1]
    BY <1>3, <2>2
  <2>4. c[i + 1] = 2 * c[(i + 1) - 1] + bits[i + 1]
    BY <1>6, <2>2
  <2>5. QED
    BY <2>2, <2>3, <2>4
<1> HIDE DEF S
<1>9. S = Nat
  BY <1>7, <1>8, SetInduction DEF S
<1>10. c[N] = q[N]
  BY <1>9 DEF S
<1>11. q[N] = M
  <2>1. N - N = 0 /\ N \in 0 .. N /\ M \div 1 = M
    OBVIOUS
  <2>2. QED
    BY <2>1, Pow2Unfold DEF q
<1>12. QED
  BY <1>5, <1>10, <1>11

-----------------------------------------------------------------------------
(***************************************************************************)
(* Numbers that are not negative.                                          *)
(***************************************************************************)
(* A number that is not negative is its magnitude. *)
LEMMA Nonnegative ==
  ASSUME NEW v, Proper(v)
  PROVE  /\ Value(v) \in Int /\ Safe(v) /\ v.used \in Nat
         /\ ~v.neg <=> Value(v) >= 0
         /\ ~v.neg => /\ Value(v) = Magnitude(v) /\ Value(v) \in Nat
                      /\ Value(v) < Weight(v.used)
<1>1. Safe(v) /\ v.used \in Nat /\ v.neg \in BOOLEAN
  BY Fields DEF Proper, Safe
<1>2. PICK W \in Nat \ {0} : Weight(v.used) = W
  BY <1>1, Weights
<1>3. Magnitude(v) \in Nat /\ Magnitude(v) < W
  BY <1>1, <1>2, MagnitudeIsSum
<1>4. /\ Value(v) \in Int /\ (v.neg <=> Value(v) < 0)
      /\ Value(v) >= 0 => Value(v) = Magnitude(v)
  BY ProperValue
<1>5. QED
  BY <1>1, <1>2, <1>3, <1>4

(* getDigit of such a number. *)
LEMMA DigitRead ==
  ASSUME NEW v, Proper(v), ~v.neg, NEW k \in Nat, k < v.size
  PROVE  v.dig[k] = (Value(v) \div Weight(k)) % DigitRadix /\ v.dig[k] \in Digit
<1>1. Value(v) = Magnitude(v) /\ Safe(v)
  BY Nonnegative
<1>2. Words(v)[k] = v.dig[k]
  BY DEF Words
<1>3. k \in 0 .. v.size - 1
  BY <1>1, Fields DEF Safe
<1>4. v.dig[k] \in Digit
  BY <1>1, <1>3, Fields, RadixPositive DEF Safe
<1>5. QED
  BY <1>1, <1>2, <1>4, DigitOf

(* The first digit is the remainder by the radix. *)
LEMMA FirstDigit ==
  ASSUME NEW v, Proper(v), ~v.neg
  PROVE  v.dig[0] = Value(v) % DigitRadix
<1>1. v.size > 0 /\ 0 \in Nat /\ Value(v) \in Nat
  BY Nonnegative DEF Safe
<1>2. v.dig[0] = (Value(v) \div Weight(0)) % DigitRadix
  BY <1>1, DigitRead
<1>3. PICK n \in Nat : Value(v) = n
  BY <1>1
<1>4. n \div 1 = n
  OBVIOUS
<1>5. QED
  BY <1>2, <1>3, <1>4, Weights
-----------------------------------------------------------------------------
(***************************************************************************)
(* A load into a vector with room for it: the object is proper and is the  *)
(* number of the bytes, with no case left in which clamp reads a word that *)
(* nobody has written.                                                     *)
(***************************************************************************)

(* What the shift of loadBytes does to the count of digits: nothing, unless *)
(* the top digit has bits that leave it.                                    *)
LEMMA LoadByteUsed ==
  ASSUME NEW x, Safe(x), NEW b \in Byte
  PROVE  LET z == LoadByte(x, b)
         IN  /\ z.used \in x.used + 1 .. x.used + 2
             /\ z.size >= x.used + 1 /\ z.size >= x.size
             /\ x.used = 0 => z.used = 1
             /\ x.used > 0 /\ x.dig[x.used - 1] < Pow2[DigitBits - ByteBits]
                  => z.used = x.used + 1
             /\ x.used > 0 /\ x.dig[x.used - 1] >= Pow2[DigitBits - ByteBits]
                  => z.used = x.used + 2
<1> DEFINE g == Grow(x, x.used + 1)
           s == Shl(x, ByteBits)
           z == LoadByte(x, b)
<1>1. /\ x.used \in Nat /\ x.used + 1 \in Nat /\ x.size \in Nat
      /\ x.used <= x.size
      /\ ByteBits \in 0 .. DigitBits
      /\ ByteBits \div DigitBits = 0 /\ ByteBits % DigitBits = ByteBits
      /\ ByteBits # 0
  <2>1. x.used \in Nat /\ x.size \in Nat /\ x.used <= x.size
    BY Fields DEF Safe, UsedInVector
  <2>2. DigitBits \in Nat \ {0} /\ ByteBits \in 1 .. DigitBits - 1
    BY ByteBitsAssumption, DigitBitsAssumption
  <2>3. ByteBits = DigitBits * 0 + ByteBits
    BY <2>2
  <2>4. ByteBits \div DigitBits = 0 /\ ByteBits % DigitBits = ByteBits
    BY <2>2, <2>3, DivModUnique
  <2>5. QED
    BY <2>1, <2>2, <2>4
<1>2. /\ Safe(g) /\ g.used = x.used /\ g.size >= x.used + 1
      /\ g.size >= x.size
      /\ \A i \in 0 .. x.size - 1 : g.dig[i] = x.dig[i]
  <2>1. x.used <= x.used + 1
    BY <1>1
  <2>2. QED
    BY <1>1, <2>1, GrowSafe DEF Safe
<1>3. s = ShlBits(g, ByteBits)
  <2>1. x.used + 0 + 1 = x.used + 1
    BY <1>1
  <2>2. QED
    BY <1>1, <2>1 DEF Shl, LeftDigitShift
<1>4. g.size \in Nat /\ g.used < g.size /\ g.size > 0
  BY <1>1, <1>2, Fields DEF Safe
<1> HIDE DEF g
<1>5. Safe(s) /\ s.size = g.size /\ s.used \in x.used .. x.used + 1
  BY <1>1, <1>2, <1>3, <1>4, ShlBitsSafe
<1>6. z.used = s.used + 1 /\ z.size = s.size
  <2>1. s \in Exactly(s.neg, s.used, s.size, s.dig)
    BY <1>5, Shape DEF Safe
  <2>2. QED
    BY <2>1 DEF LoadByte, Exactly
<1>7. x.used = 0 => s.used = 0
  <2>1. g \in Exactly(g.neg, g.used, g.size, g.dig)
    BY <1>2, Shape DEF Safe
  <2>2. QED
    BY <1>2, <1>3, <2>1 DEF ShlBits, Exactly
<1>8. ASSUME x.used > 0
      PROVE  /\ x.dig[x.used - 1] < Pow2[DigitBits - ByteBits] => s.used = x.used
             /\ x.dig[x.used - 1] >= Pow2[DigitBits - ByteBits]
                  => s.used = x.used + 1
  <2>1. g \in Exactly(g.neg, g.used, g.size, g.dig)
    BY <1>2, Shape DEF Safe
  <2>2. PICK k \in Nat : k = DigitBits - ByteBits
    BY <1>1, DigitBitsAssumption
  <2>3. PICK Q \in Nat \ {0} : Pow2[k] = Q
    BY Pow2Unfold
  <2>4. PICK d \in Nat : Dig(g, g.used - 1) = d /\ x.dig[x.used - 1] = d
    <3>1. x.used - 1 \in 0 .. x.size - 1 /\ x.used - 1 < x.used
      BY <1>1, <1>8
    <3>2. x.dig[x.used - 1] \in Nat
      BY <3>1, Fields DEF Safe
    <3>3. Dig(g, g.used - 1) = x.dig[x.used - 1]
      BY <1>2, <3>1 DEF Dig
    <3>4. QED
      BY <3>2, <3>3
  <2>5. (d < Q => d \div Q = 0) /\ (d >= Q => d \div Q # 0)
    <3>1. d \in Int /\ d = Q * 0 + d /\ 0 <= d /\ 0 \in Int
      BY <2>3, <2>4
    <3>2. d < Q => d \div Q = 0
      BY <2>3, <2>4, <3>1, DivModUnique
    <3>3. d = Q * (d \div Q) + (d % Q) /\ d % Q \in 0 .. Q - 1
      BY <2>3, <3>1, DivMod
    <3>4. d \div Q = 0 => d < Q
      BY <2>3, <3>3
    <3>5. QED
      BY <2>3, <2>4, <3>2, <3>4
  <2>6. /\ d < Q => Dig(g, g.used - 1) \div Pow2[DigitBits - ByteBits] = 0
        /\ d >= Q => Dig(g, g.used - 1) \div Pow2[DigitBits - ByteBits] # 0
    BY <2>2, <2>3, <2>4, <2>5, Zenon
  <2>7. /\ d < Q => s.used = x.used
        /\ d >= Q => s.used = x.used + 1
    BY <1>1, <1>2, <1>3, <1>8, <2>1, <2>6 DEF ShlBits, Exactly
  <2>8. QED
    BY <2>2, <2>3, <2>4, <2>7, Zenon
<1> HIDE DEF s, z
<1>9. s.used \in Nat
  BY <1>5, Fields DEF Safe
<1>10. QED
  BY <1>1, <1>2, <1>5, <1>6, <1>7, <1>8, <1>9 DEF z

(* An object into which bytes were loaded after it was cleared: above the   *)
(* first digit there is none that a shift by one byte could carry out of.   *)
Loaded(x) ==
  /\ Safe(x) /\ x.size >= 3
  /\ x.used >= 2 => Magnitude(x) < Weight(x.used - 1)

(* It stays so: only the second byte can carry, and a vector has three words. *)
LEMMA LoadByteInside ==
  ASSUME NEW x, Loaded(x), NEW b \in Byte
  PROVE  LET z == LoadByte(x, b)
         IN  Loaded(z) /\ z.size >= x.size /\ z.neg = x.neg
<1> DEFINE z == LoadByte(x, b)
           Q == Pow2[DigitBits - ByteBits]
<1>1. /\ Safe(x) /\ x.used \in Nat /\ x.size \in Nat /\ x.size >= 3
      /\ x.used <= x.size
      /\ \A i \in 0 .. x.size - 1 : x.dig[i] \in Nat
  BY Fields DEF Loaded, Safe, UsedInVector
<1>2. /\ z.used \in x.used + 1 .. x.used + 2
      /\ z.size >= x.used + 1 /\ z.size >= x.size
      /\ x.used = 0 => z.used = 1
      /\ x.used > 0 /\ x.dig[x.used - 1] < Q => z.used = x.used + 1
      /\ x.used > 0 /\ x.dig[x.used - 1] >= Q => z.used = x.used + 2
  BY <1>1, LoadByteUsed
<1>3. Counted(x)
  BY <1>1 DEF Safe, Counted
<1>4. /\ Counted(z) /\ z.neg = x.neg
      /\ Total(z) = Magnitude(x) * Pow2[ByteBits] + b
  BY <1>1, <1>3, LoadByteExact, TotalSettles DEF Safe
<1>5. z.size \in Nat
  BY <1>4, Fields DEF Counted
<1> HIDE DEF z
<1>6. PICK p \in Nat \ {0}, q \in Nat \ {0}, R \in Nat \ {0} :
        /\ Pow2[ByteBits] = p /\ Q = q /\ DigitRadix = R /\ R = p * q
  <2>1. ByteBits \in 0 .. DigitBits
    BY ByteBitsAssumption, DigitBitsAssumption
  <2>2. /\ DigitRadix = Pow2[ByteBits] * Pow2[DigitBits - ByteBits]
        /\ Pow2[ByteBits] \in Nat \ {0}
        /\ Pow2[DigitBits - ByteBits] \in Nat \ {0}
    BY <2>1, RadixSplit
  <2>3. DigitRadix \in Nat \ {0}
    BY RadixPositive
  <2>4. QED
    BY <2>2, <2>3
<1> HIDE DEF Q
<1>7. b \in Nat /\ b < p
  BY <1>6 DEF Byte
<1>8. PICK m \in Nat : Magnitude(x) = m /\ m < Weight(x.used)
  <2>1. Magnitude(x) \in 0 .. Weight(x.used) - 1 /\ Weight(x.used) \in Nat
    BY <1>1, MagnitudeIsSum, Weights DEF Safe
  <2>2. QED
    BY <2>1
<1>9. Total(z) = m * p + b
  BY <1>4, <1>6, <1>8
<1>10. SUFFICES z.used <= z.size /\ (z.used >= 2 => m * p + b < Weight(z.used - 1))
  <2>1. ASSUME z.used <= z.size PROVE Safe(z) /\ Magnitude(z) = m * p + b
    <3>1. Safe(z)
      BY <1>4, <2>1 DEF Safe, Counted, UsedInVector
    <3>2. QED
      BY <1>9, <3>1, TotalSettles DEF Safe
  <2>2. z.size >= 3
    BY <1>1, <1>2, <1>5
  <2>3. QED
    BY <1>2, <1>4, <1>10, <2>1, <2>2, Zenon DEF Loaded, z
<1>11. Weight(0) = 1 /\ Weight(1) = R /\ Weight(2) = R * R
  <2>1. /\ Weight(0) = 1 /\ Weight(0 + 1) = Weight(0) * DigitRadix
        /\ Weight(1 + 1) = Weight(1) * DigitRadix
    BY Weights
  <2>2. 0 + 1 = 1 /\ 1 + 1 = 2 /\ 1 * R = R
    BY <1>6
  <2>3. QED
    BY <1>6, <2>1, <2>2
<1>12. CASE x.used = 0
  BY <1>1, <1>2, <1>5, <1>12
<1>13. CASE x.used = 1
  <2>1. x.dig[0] = m
    <3>1. Words(x)[0] = (m \div Weight(0)) % DigitRadix
      BY <1>1, <1>8, DigitOf
    <3>2. Words(x)[0] = x.dig[0]
      BY <1>1 DEF Words
    <3>3. m \div 1 = m /\ m % R = m
      BY <1>8, <1>11, <1>13
    <3>4. QED
      BY <1>6, <1>11, <3>1, <3>2, <3>3
  <2>2. CASE m < q
    <3>1. z.used = 2
      BY <1>1, <1>2, <1>6, <1>13, <2>1, <2>2
    <3>2. m * p + b < q * p
      <4>1. (m + 1) * p <= q * p
        BY <1>6, <2>2
      <4>2. (m + 1) * p = m * p + p
        BY <1>6
      <4>3. m * p \in Nat /\ q * p \in Nat
        BY <1>6
      <4>4. QED
        BY <1>6, <1>7, <4>1, <4>2, <4>3
    <3>3. q * p = R
      BY <1>6
    <3>4. z.used <= z.size /\ z.used - 1 = 1
      BY <1>1, <1>2, <1>5, <3>1
    <3>5. QED
      BY <1>11, <3>2, <3>3, <3>4
  <2>3. CASE m >= q
    <3>1. z.used = 3
      BY <1>1, <1>2, <1>6, <1>13, <2>1, <2>3
    <3>2. m * p + b < R * R
      <4>1. (m + 1) * p <= R * p
        BY <1>6, <1>8, <1>11, <1>13
      <4>2. (m + 1) * p = m * p + p
        BY <1>6
      <4>3. R * p <= R * R
        <5>1. p <= R
          BY <1>6
        <5>2. QED
          BY <1>6, <5>1
      <4>4. m * p \in Nat /\ R * p \in Nat /\ R * R \in Nat
        BY <1>6
      <4>5. QED
        BY <1>6, <1>7, <4>1, <4>2, <4>3, <4>4
    <3>3. z.used <= z.size /\ z.used - 1 = 2
      BY <1>1, <1>2, <1>5, <3>1
    <3>4. QED
      BY <1>11, <3>2, <3>3
  <2>4. QED
    BY <1>6, <2>2, <2>3
<1>14. CASE x.used >= 2
  <2>1. PICK k \in Nat : k = x.used - 1 /\ k + 1 = x.used /\ k < x.size
    BY <1>1, <1>14
  <2>2. PICK W \in Nat \ {0} : Weight(k) = W /\ Weight(k + 1) = W * R
    BY <1>6, Weights
  <2>3. m < W
    BY <1>8, <1>14, <2>1, <2>2 DEF Loaded
  <2>4. x.dig[k] = 0
    <3>1. Words(x)[k] = (m \div W) % R
      BY <1>1, <1>6, <1>8, <2>2, DigitOf
    <3>2. Words(x)[k] = x.dig[k]
      BY <2>1 DEF Words
    <3>3. m \div W = 0
      <4>1. m \in Int /\ m = W * 0 + m /\ 0 <= m /\ 0 \in Int
        BY <2>2
      <4>2. QED
        BY <2>2, <2>3, <4>1, DivModUnique
    <3>4. 0 % R = 0
      BY <1>6
    <3>5. QED
      BY <3>1, <3>2, <3>3, <3>4
  <2>5. z.used = x.used + 1
    BY <1>2, <1>6, <1>14, <2>1, <2>4
  <2>6. m * p + b < W * R
    <3>1. (m + 1) * p <= W * p
      BY <1>6, <2>2, <2>3
    <3>2. (m + 1) * p = m * p + p
      BY <1>6
    <3>3. W * p <= W * R
      <4>1. p <= R
        BY <1>6
      <4>2. QED
        BY <1>6, <2>2, <4>1
    <3>4. m * p \in Nat /\ W * p \in Nat /\ W * R \in Nat
      BY <1>6, <2>2
    <3>5. QED
      BY <1>6, <1>7, <3>1, <3>2, <3>3, <3>4
  <2>7. z.used <= z.size /\ z.used - 1 = k + 1
    BY <1>1, <1>2, <1>5, <2>1, <2>5
  <2>8. QED
    BY <2>2, <2>6, <2>7
<1>15. QED
  BY <1>1, <1>12, <1>13, <1>14

(* loadBytes into a cleared object of three words or more, as every object   *)
(* has: it stays in its vector, and has the one outcome that it should have. *)
LEMMA LoadClearedExact ==
  ASSUME NEW x, Safe(x), x.size >= 3, NEW bytes \in Seq(Byte)
  PROVE  \E z : /\ LoadBytes(x, bytes, TRUE) = {z}
                /\ Proper(z) /\ ~z.neg /\ z.size >= x.size
                /\ Value(z) = BytesNumber(bytes)
                /\ Magnitude(z) = BytesNumber(bytes)
<1> DEFINE start == Zero(x)
           y == LoadUnclamped(start, bytes)
           m == Len(bytes)
<1>1. /\ Proper(start) /\ Safe(start) /\ start.used = 0 /\ start.size = x.size
      /\ ~start.neg
  <2>1. Proper(start)
    BY ZeroExact
  <2>2. x.size \in Nat /\ x.size > 0 /\ IsNumber(x)
    BY Fields DEF Safe
  <2>3. start.used = 0 /\ start.size = x.size
    BY <2>2, ZeroSafe
  <2> HIDE DEF start
  <2>4. QED
    BY <2>1, <2>3 DEF Proper, ZeroNonnegative, IsZero
<1>2. x.size \in Nat
  BY Fields DEF Safe
<1>3. Loaded(start)
  BY <1>1 DEF Loaded
<1> HIDE DEF start
<1>4. Counted(start)
  BY <1>1, <1>2 DEF Safe, Counted
<1>5. PICK c : /\ y = c[m] /\ c[0] = start
               /\ \A i \in 0 .. m - 1 : c[i + 1] = LoadByte(c[i], bytes[i + 1])
  BY <1>4, LoadUnclampedCounted
<1>6. m \in Nat /\ \A i \in 0 .. m - 1 : bytes[i + 1] \in Byte
  OBVIOUS
<1> DEFINE S == {i \in Nat : i <= m => Loaded(c[i]) /\ c[i].size >= x.size /\ ~c[i].neg}
<1>7. 0 \in S
  BY <1>1, <1>2, <1>3, <1>5
<1>8. ASSUME NEW i \in S PROVE i + 1 \in S
  <2>1. SUFFICES ASSUME i + 1 <= m
                 PROVE  /\ Loaded(c[i + 1]) /\ c[i + 1].size >= x.size
                        /\ ~c[i + 1].neg
    OBVIOUS
  <2>2. i \in 0 .. m - 1 /\ Loaded(c[i]) /\ c[i].size >= x.size /\ ~c[i].neg
    BY <1>6, <2>1
  <2> DEFINE v == c[i]
             w == LoadByte(v, bytes[i + 1])
  <2>3. c[i + 1] = w
    BY <1>5, <2>2
  <2> HIDE DEF v
  <2>4. Loaded(w) /\ w.size >= v.size /\ w.neg = v.neg
    BY <1>6, <2>2, LoadByteInside DEF v
  <2>5. w.size \in Nat /\ v.size \in Nat
    BY <2>2, <2>4, Fields DEF v, Loaded, Safe
  <2> HIDE DEF w
  <2>6. QED
    BY <1>2, <2>2, <2>3, <2>4, <2>5 DEF v
<1> HIDE DEF S
<1>9. S = Nat
  BY <1>7, <1>8, SetInduction DEF S
<1>10. Loaded(y) /\ y.size >= x.size /\ ~y.neg
  BY <1>5, <1>6, <1>9 DEF S
<1> HIDE DEF y
<1>11. Safe(y) /\ y.used \in Nat /\ y.size \in Nat /\ y.used <= y.size
  BY <1>10, Fields DEF Loaded, Safe, UsedInVector
<1>12. LoadBytes(x, bytes, TRUE) = {Clamp(y)}
  BY <1>11 DEF LoadBytes, y, start
<1> DEFINE z == Clamp(y)
<1>13. /\ Proper(z) /\ z.size = y.size /\ Magnitude(z) = Magnitude(y)
       /\ Value(z) = Value(y)
  BY <1>11, ClampExact, ClampSafe
<1>14. Value(y) = Magnitude(y)
  BY <1>10 DEF Value
<1>15. ~z.neg
  <2>1. y \in Exactly(y.neg, y.used, y.size, y.dig)
    BY <1>11, Shape DEF Safe
  <2>2. QED
    BY <1>10, <2>1 DEF Clamp, Exactly
<1>16. Magnitude(y) = BytesNumber(bytes)
  <2>1. Total(start) = 0 /\ Total(y) = Magnitude(y)
    <3>1. Total(start) = Magnitude(start) /\ Total(y) = Magnitude(y)
      BY <1>1, <1>11, TotalSettles DEF Safe
    <3>2. QED
      BY <3>1, ZeroExact DEF start
  <2>2. Total(y) = Total(start) * Pow2[ByteBits * m] + BytesNumber(bytes)
    BY <1>4, LoadUnclampedExact DEF y
  <2>3. PICK j \in Nat : j = ByteBits * m
    BY <1>6, ByteBitsAssumption, DigitBitsAssumption
  <2>4. PICK P \in Nat : Pow2[j] = P
    BY Pow2Unfold
  <2>5. PICK v : /\ BytesNumber(bytes) = v[m]
                 /\ \A i \in 0 .. m : v[i] \in Nat
    BY BytesNumberUnfold
  <2>6. PICK n \in Nat : BytesNumber(bytes) = n
    BY <1>6, <2>5
  <2>7. Total(y) = 0 * P + n
    BY <2>1, <2>2, <2>3, <2>4, <2>6
  <2>8. QED
    BY <2>1, <2>4, <2>6, <2>7
<1>17. z.size >= x.size
  BY <1>2, <1>10, <1>11, <1>13
<1> HIDE DEF z
<1>18. QED
  BY <1>12, <1>13, <1>14, <1>15, <1>16, <1>17 DEF z


-----------------------------------------------------------------------------
(***************************************************************************)
(* The bytes of a number.                                                  *)
(***************************************************************************)
ByteRadix == Pow2[ByteBits]
ByteWeight(i) == Pow2[ByteBits * i]

(* The weight of a byte is the radix times that of the byte behind, and      *)
(* there are as many digits as bytes or more.                                *)
LEMMA ByteWeights ==
  /\ ByteRadix \in Nat \ {0} /\ ByteBits \in Nat \ {0} /\ Byte = 0 .. ByteRadix - 1
  /\ ByteWeight(0) = 1 /\ ByteWeight(1) = ByteRadix
  /\ \A i \in Nat : /\ ByteWeight(i) \in Nat \ {0}
                    /\ ByteWeight(i + 1) = ByteWeight(i) * ByteRadix
  /\ \E H \in Nat \ {0} : DigitRadix = ByteRadix * H
<1>1. ByteBits \in Nat \ {0} /\ ByteBits * 0 = 0 /\ ByteBits * 1 = ByteBits
      /\ ByteBits \in 0 .. DigitBits
  BY ByteBitsAssumption, DigitBitsAssumption
<1>2. \A i \in Nat : ByteBits * i \in Nat
  BY <1>1
<1>3. ByteWeight(0) = 1 /\ ByteWeight(1) = ByteRadix
  BY <1>1, Pow2Unfold DEF ByteWeight, ByteRadix
<1>4. \A i \in Nat : /\ ByteWeight(i) \in Nat \ {0}
                     /\ ByteWeight(i + 1) = ByteWeight(i) * ByteRadix
  BY <1>1, <1>2, Pow2Unfold, Pow2Digits DEF ByteWeight, ByteRadix
<1>5. ByteRadix \in Nat \ {0}
  BY <1>1, Pow2Unfold DEF ByteRadix
<1>6. \E H \in Nat \ {0} : DigitRadix = ByteRadix * H
  BY <1>1, RadixSplit DEF ByteRadix
<1>7. QED
  BY <1>1, <1>3, <1>4, <1>5, <1>6 DEF Byte, ByteRadix

(* More bytes weigh more. *)
LEMMA ByteWeightsGrow ==
  ASSUME NEW i \in Nat, NEW j \in Nat, i <= j
  PROVE  ByteWeight(i) <= ByteWeight(j)
<1>1. PICK a \in Nat, b \in Nat : a = ByteBits * i /\ b = ByteBits * j /\ a <= b
  <2>1. PICK k \in Nat : j = i + k
    <3>1. j - i \in Nat /\ j = i + (j - i)
      OBVIOUS
    <3>2. QED
      BY <3>1
  <2>2. PICK B \in Nat : ByteBits = B
    BY ByteWeights
  <2>3. B * (i + k) = B * i + B * k /\ B * i \in Nat /\ B * k \in Nat
    OBVIOUS
  <2>4. QED
    BY <2>1, <2>2, <2>3
<1>2. a \in 0 .. b
  BY <1>1
<1>3. QED
  BY <1>1, <1>2, Pow2Grows DEF ByteWeight

(* The numbers y that a loop of shifts by a byte makes of x, and their lowest  *)
(* bytes in the order in which they are stored.                                *)
ShiftedBy(x, y) ==
  \A i \in Nat : Proper(y[i]) /\ Magnitude(y[i]) = Magnitude(x) \div ByteWeight(i)
LowBytes(y, count) == [k \in 1 .. count |-> y[count - k].dig[0] % ByteRadix]

(* storeBytes shifts a copy of the number right by a byte, again and again. *)
LEMMA StoreBytesUnfold ==
  ASSUME NEW x, Proper(x)
  PROVE  \E y : /\ ShiftedBy(x, y)
                /\ \A count \in Nat : StoreBytes(x, count) = LowBytes(y, count)
<1> DEFINE Sized(s) == [neg : BOOLEAN, used : Nat, size : {s},
                        dig : [0 .. s - 1 -> Digit]]
           Numbers == UNION {Sized(s) : s \in Nat}
           V == {z \in Numbers : Proper(z)}
           step == [p \in Nat \X V |-> Shr(p[2], ByteBits)]
           Body(g) == [i \in Nat |-> IF i = 0 THEN x ELSE Shr(g[i - 1], ByteBits)]
           y == CHOOSE g : g = Body(g)
<1>1. ASSUME NEW z, Proper(z) PROVE z \in V
  <2>1. z.size \in Nat
    BY <1>1, Fields DEF Proper, Safe
  <2>2. z \in Sized(z.size)
    BY <1>1 DEF Proper, Safe, IsNumber
  <2> HIDE DEF Sized
  <2>3. QED
    BY <1>1, <2>1, <2>2
<1>2. \A z \in V : Proper(z)
  OBVIOUS
<1>3. \A count \in Nat : StoreBytes(x, count) = LowBytes(y, count)
  BY DEF StoreBytes, LowBytes, ByteRadix
<1> HIDE DEF V
<1>4. ByteBits \in Nat
  BY ByteWeights
<1>5. \A z \in V : Shr(z, ByteBits) \in V
  BY <1>1, <1>2, <1>4, ShrExact
<1>6. step \in StepFunctions(V)
  BY <1>5 DEF StepFunctions
<1>7. PICK f : Solves(V, x, step, f)
  <2>1. x \in V
    BY <1>1
  <2> HIDE DEF step
  <2>2. QED
    BY <1>6, <2>1, RecursionSolves
<1>8. f = Body(f)
  <2>1. ASSUME NEW i \in Nat, i # 0 PROVE f[i] = Shr(f[i - 1], ByteBits)
    <3>1. i - 1 \in Nat /\ f[i - 1] \in V
      <4>1. i - 1 \in Nat
        BY <2>1
      <4>2. f \in [Nat -> V]
        BY <1>7 DEF Solves
      <4>3. QED
        BY <4>1, <4>2
    <3>2. f[i] = step[<<i - 1, f[i - 1]>>]
      BY <2>1, <1>7 DEF Solves
    <3>3. QED
      BY <3>1, <3>2
  <2>2. QED
    BY <2>1, <1>7 DEF Solves
<1>9. y = Body(y)
  BY <1>8
<1> HIDE DEF y, step
<1>10. y[0] = x
  BY <1>9
<1>11. ASSUME NEW i \in Nat PROVE y[i + 1] = Shr(y[i], ByteBits)
  <2>1. i + 1 \in Nat /\ i + 1 # 0 /\ (i + 1) - 1 = i
    OBVIOUS
  <2>2. QED
    BY <1>9, <2>1
<1>12. PICK M \in Nat : Magnitude(x) = M
  BY ProperValue
<1> DEFINE S == {i \in Nat : Proper(y[i]) /\ Magnitude(y[i]) = M \div ByteWeight(i)}
<1>13. 0 \in S
  <2>1. M \div 1 = M
    OBVIOUS
  <2>2. QED
    BY <1>10, <1>12, <2>1, ByteWeights
<1>14. ASSUME NEW i \in S PROVE i + 1 \in S
  <2> DEFINE w == Shr(y[i], ByteBits)
  <2>1. Proper(y[i]) /\ Magnitude(y[i]) = M \div ByteWeight(i) /\ i \in Nat
    OBVIOUS
  <2>2. Proper(w) /\ Value(w) = Signed(y[i], Magnitude(y[i]) \div Pow2[ByteBits])
    BY <1>4, <2>1, ShrExact
  <2> HIDE DEF w
  <2>3. PICK P \in Nat \ {0}, Q \in Nat \ {0} :
          ByteWeight(i) = P /\ Pow2[ByteBits] = Q /\ ByteWeight(i + 1) = P * Q
    BY <2>1, ByteWeights DEF ByteRadix
  <2>4. PICK n \in Nat : n = (M \div P) \div Q
    <3>1. M \div P \in Nat
      BY <2>3, NatQuotient
    <3>2. PICK m \in Nat : m = M \div P
      BY <3>1
    <3>3. m \div Q \in Nat
      BY <2>3, NatQuotient
    <3>4. QED
      BY <3>2, <3>3
  <2>5. n = M \div (P * Q)
    <3>1. M \in Int
      OBVIOUS
    <3>2. QED
      BY <2>3, <2>4, <3>1, DivDiv
  <2>6. Value(w) = n \/ Value(w) = -n
    BY <2>1, <2>2, <2>3, <2>4, Zenon DEF Signed
  <2>7. Magnitude(w) = n
    <3>1. Value(w) \in Int /\ Magnitude(w) \in Nat
          /\ (Value(w) = -Magnitude(w) \/ Value(w) = Magnitude(w))
      BY <2>2, ProperValue
    <3>2. QED
      BY <2>6, <3>1
  <2>8. QED
    BY <1>11, <2>1, <2>2, <2>3, <2>5, <2>7 DEF w
<1> HIDE DEF S
<1>15. S = Nat
  BY <1>13, <1>14, SetInduction DEF S
<1>16. ShiftedBy(x, y)
  BY <1>12, <1>15 DEF S, ShiftedBy
<1>17. QED
  BY <1>3, <1>16

(* The bytes of a buffer that storeBytes has filled are the number's. *)
IsByteOf(b, m, i) == b = (m \div ByteWeight(i)) % ByteRadix

(* What storeBytes stores: the digits of the magnitude in the radix of bytes. *)
LEMMA StoreBytesExact ==
  ASSUME NEW x, Proper(x), NEW count \in Nat
  PROVE  /\ StoreBytes(x, count) \in [1 .. count -> Byte]
         /\ StoreBytes(x, count) \in Seq(Byte)
         /\ Len(StoreBytes(x, count)) = count
         /\ \A k \in 1 .. count :
              IsByteOf(StoreBytes(x, count)[k], Magnitude(x), count - k)
<1> DEFINE bytes == StoreBytes(x, count)
<1>1. PICK y : ShiftedBy(x, y) /\ bytes = LowBytes(y, count)
  BY StoreBytesUnfold
<1> HIDE DEF bytes
<1>2. ASSUME NEW k \in 1 .. count
      PROVE  bytes[k] \in Byte /\ IsByteOf(bytes[k], Magnitude(x), count - k)
  <2>1. PICK i \in Nat : i = count - k
    OBVIOUS
  <2> DEFINE w == y[i]
  <2>2. Proper(w) /\ Magnitude(w) = Magnitude(x) \div ByteWeight(i)
    BY <1>1 DEF ShiftedBy
  <2>3. bytes[k] = w.dig[0] % ByteRadix
    BY <1>1, <2>1 DEF LowBytes
  <2> HIDE DEF w
  <2>4. PICK m \in Nat : Magnitude(w) = m
    BY <2>2, ProperValue
  <2>5. PICK p \in Nat \ {0}, H \in Nat \ {0} : ByteRadix = p /\ DigitRadix = p * H
    BY ByteWeights
  <2>6. w.dig[0] = m % (p * H)
    <3>1. w.size \in Nat /\ w.size > 0
      BY <2>2, Fields DEF Proper, Safe
    <3>2. Words(w)[0] = w.dig[0]
      BY <3>1 DEF Words
    <3>3. Words(w)[0] = (m \div Weight(0)) % DigitRadix
      BY <2>2, <2>4, DigitOf DEF Proper
    <3>4. m \div 1 = m
      OBVIOUS
    <3>5. QED
      BY <2>5, <3>2, <3>3, <3>4, Weights
  <2>7. (m % (p * H)) % p = m % p
    <3>1. m \in Int
      OBVIOUS
    <3>2. m % (p * H) = (m % p) + p * ((m \div p) % H)
      BY <2>5, <3>1, DivDiv
    <3>3. m % p \in 0 .. p - 1 /\ m \div p \in Int
      BY <2>5, <3>1, DivMod
    <3>4. (m \div p) % H \in Int
      BY <2>5, <3>3
    <3>5. PICK r \in 0 .. p - 1, q \in Int : r = m % p /\ q = (m \div p) % H
      BY <3>3, <3>4
    <3>6. r + p * q = p * q + r /\ 0 <= r /\ r < p /\ r + p * q \in Int
      BY <2>5
    <3>7. (r + p * q) % p = r
      BY <2>5, <3>6, DivModUnique
    <3>8. QED
      BY <3>2, <3>5, <3>7
  <2>8. bytes[k] = m % p
    BY <2>3, <2>5, <2>6, <2>7
  <2>9. m % p \in 0 .. p - 1
    BY <2>5
  <2>10. bytes[k] \in Byte
    BY <2>5, <2>8, <2>9, ByteWeights
  <2>11. IsByteOf(bytes[k], Magnitude(x), count - k)
    BY <2>1, <2>2, <2>4, <2>5, <2>8 DEF IsByteOf
  <2>12. QED
    BY <2>10, <2>11
<1>3. bytes \in [1 .. count -> Byte]
  <2>1. bytes = [k \in 1 .. count |-> bytes[k]]
    BY <1>1 DEF LowBytes
  <2>2. QED
    BY <1>2, <2>1
<1>4. bytes \in Seq(Byte) /\ Len(bytes) = count
  BY <1>3
<1>5. QED
  BY <1>2, <1>3, <1>4 DEF bytes


(* The numbers that the first bytes of a buffer denote are the quotients of   *)
(* the number that all of them denote.                                        *)
HeadNumbers(bytes, v) ==
  /\ v[0] = 0 /\ v[Len(bytes)] = BytesNumber(bytes)
  /\ \A i \in 0 .. Len(bytes) :
       v[i] \in Nat /\ v[i] = BytesNumber(bytes) \div ByteWeight(Len(bytes) - i)
  /\ \A i \in 0 .. Len(bytes) - 1 : v[i + 1] = v[i] * ByteRadix + bytes[i + 1]

(* Each is the one after it without its last byte. *)
LEMMA HeadNumbersExist ==
  ASSUME NEW bytes \in Seq(Byte)
  PROVE  \E v : HeadNumbers(bytes, v)
<1> DEFINE m == Len(bytes)
<1>1. PICK v : /\ BytesNumber(bytes) = v[m] /\ v[0] = 0
               /\ \A i \in 0 .. m - 1 : v[i + 1] = v[i] * ByteRadix + bytes[i + 1]
               /\ \A i \in 0 .. m : v[i] \in Nat
  BY BytesNumberUnfold DEF ByteRadix
<1>2. m \in Nat /\ \A i \in 0 .. m - 1 : bytes[i + 1] \in Byte
  OBVIOUS
<1> HIDE DEF m
<1>3. PICK p \in Nat \ {0} : ByteRadix = p
  BY ByteWeights
<1>4. PICK n \in Nat : BytesNumber(bytes) = n
  BY <1>1, <1>2
<1> DEFINE S == {j \in Nat : j <= m => v[m - j] = n \div ByteWeight(j)}
<1>5. 0 \in S
  <2>1. n \div 1 = n /\ m - 0 = m
    BY <1>2
  <2>2. QED
    BY <1>1, <1>4, <2>1, ByteWeights
<1>6. ASSUME NEW j \in S PROVE j + 1 \in S
  <2>1. SUFFICES ASSUME j + 1 <= m
                 PROVE  v[m - (j + 1)] = n \div ByteWeight(j + 1)
    OBVIOUS
  <2>2. PICK i \in Nat : i = m - (j + 1)
    BY <1>2, <2>1
  <2>3. /\ j \in Nat /\ v[m - j] = n \div ByteWeight(j)
        /\ i \in 0 .. m - 1 /\ i \in 0 .. m /\ i + 1 = m - j
    BY <1>2, <2>1, <2>2
  <2>4. PICK a \in Nat : v[i] = a
    BY <1>1, <2>3
  <2>5. PICK b \in 0 .. p - 1 : bytes[i + 1] = b
    BY <1>2, <1>3, <2>3, ByteWeights
  <2>6. PICK W \in Nat \ {0} : ByteWeight(j) = W /\ ByteWeight(j + 1) = W * p
    BY <1>3, <2>3, ByteWeights
  <2>7. n \div W = a * p + b
    BY <1>1, <1>3, <2>3, <2>4, <2>5, <2>6
  <2>8. (a * p + b) \div p = a
    <3>1. a * p + b = p * a + b /\ a * p + b \in Int /\ 0 <= b /\ b < p
      BY <1>3
    <3>2. QED
      BY <1>3, <3>1, DivModUnique
  <2>9. n \div (W * p) = (n \div W) \div p
    <3>1. n \in Int
      OBVIOUS
    <3>2. QED
      BY <1>3, <2>6, <3>1, DivDiv
  <2>10. QED
    BY <2>2, <2>4, <2>6, <2>7, <2>8, <2>9
<1> HIDE DEF S
<1>7. S = Nat
  BY <1>5, <1>6, SetInduction DEF S
<1>8. ASSUME NEW i \in 0 .. m PROVE v[i] = n \div ByteWeight(m - i)
  <2>1. PICK j \in Nat : j = m - i /\ j <= m /\ m - j = i
    BY <1>2
  <2>2. QED
    BY <1>7, <2>1 DEF S
<1>9. QED
  BY <1>1, <1>4, <1>8 DEF HeadNumbers, m

(* The bytes of a buffer are the digits of the number it denotes. *)
LEMMA BytesAreDigits ==
  ASSUME NEW bytes \in Seq(Byte)
  PROVE  /\ BytesNumber(bytes) \in Nat
         /\ BytesNumber(bytes) < ByteWeight(Len(bytes))
         /\ \A k \in 1 .. Len(bytes) :
              IsByteOf(bytes[k], BytesNumber(bytes), Len(bytes) - k)
<1> DEFINE m == Len(bytes)
<1>1. PICK v : HeadNumbers(bytes, v)
  BY HeadNumbersExist
<1>2. m \in Nat /\ \A i \in 1 .. m : bytes[i] \in Byte
  OBVIOUS
<1>3. /\ v[0] = 0
      /\ \A i \in 0 .. m : v[i] \in Nat /\ v[i] = BytesNumber(bytes) \div ByteWeight(m - i)
      /\ \A i \in 0 .. m - 1 : v[i + 1] = v[i] * ByteRadix + bytes[i + 1]
      /\ v[m] = BytesNumber(bytes)
  BY <1>1 DEF HeadNumbers
<1> HIDE DEF m
<1>4. PICK n \in Nat : BytesNumber(bytes) = n
  BY <1>2, <1>3
<1>5. PICK p \in Nat \ {0} : ByteRadix = p
  BY ByteWeights
<1>6. n < ByteWeight(m)
  <2>1. PICK W \in Nat \ {0} : ByteWeight(m) = W
    BY <1>2, ByteWeights
  <2>2. 0 \in 0 .. m /\ m - 0 = m
    BY <1>2
  <2>3. n \div W = 0
    BY <1>3, <1>4, <2>1, <2>2
  <2>4. n = W * (n \div W) + (n % W) /\ n % W \in 0 .. W - 1
    <3>1. n \in Int
      OBVIOUS
    <3>2. QED
      BY <2>1, <3>1, DivMod
  <2>5. n < W
    BY <2>1, <2>3, <2>4
  <2>6. QED
    BY <2>1, <2>5
<1>7. ASSUME NEW k \in 1 .. m PROVE IsByteOf(bytes[k], n, m - k)
  <2>1. PICK i \in Nat : i = k - 1 /\ i \in 0 .. m - 1 /\ i + 1 = k
    BY <1>2
  <2>2. k \in 0 .. m /\ i \in 0 .. m
    BY <1>2, <2>1
  <2>3. PICK a \in Nat : v[i] = a
    BY <1>3, <2>2
  <2>4. PICK b \in 0 .. p - 1 : bytes[k] = b
    BY <1>2, <1>5, ByteWeights
  <2>5. v[k] = a * p + b
    BY <1>3, <1>5, <2>1, <2>3, <2>4
  <2>6. (a * p + b) % p = b
    <3>1. a * p + b = p * a + b /\ a * p + b \in Int /\ 0 <= b /\ b < p
      BY <1>5
    <3>2. QED
      BY <1>5, <3>1, DivModUnique
  <2>7. v[k] = n \div ByteWeight(m - k)
    BY <1>3, <1>4, <2>2
  <2>8. QED
    BY <1>5, <2>4, <2>5, <2>6, <2>7 DEF IsByteOf
<1>8. QED
  BY <1>4, <1>6, <1>7 DEF m

(* A buffer with the low digits of a number denotes the number, cut to them. *)
LEMMA BytesSpell ==
  ASSUME NEW bytes \in Seq(Byte), NEW M \in Nat,
         \A k \in 1 .. Len(bytes) : IsByteOf(bytes[k], M, Len(bytes) - k)
  PROVE  BytesNumber(bytes) = M % ByteWeight(Len(bytes))
<1> DEFINE m == Len(bytes)
<1>1. PICK v : HeadNumbers(bytes, v)
  BY HeadNumbersExist
<1>2. m \in Nat /\ \A k \in 1 .. m : IsByteOf(bytes[k], M, m - k)
  OBVIOUS
<1>3. /\ v[0] = 0
      /\ \A i \in 0 .. m : v[i] \in Nat
      /\ \A i \in 0 .. m - 1 : v[i + 1] = v[i] * ByteRadix + bytes[i + 1]
      /\ v[m] = BytesNumber(bytes)
  BY <1>1 DEF HeadNumbers
<1> HIDE DEF m
<1>4. PICK p \in Nat \ {0} : ByteRadix = p
  BY ByteWeights
<1> DEFINE S == {i \in Nat : i <= m => v[i] = (M \div ByteWeight(m - i)) % ByteWeight(i)}
<1>5. 0 \in S
  <2>1. PICK W \in Nat \ {0} : ByteWeight(m - 0) = W
    <3>1. m - 0 = m /\ m \in Nat
      BY <1>2
    <3>2. ByteWeight(m) \in Nat \ {0}
      BY <3>1, ByteWeights
    <3>3. QED
      BY <3>1, <3>2
  <2>2. M \div W \in Nat
    BY <2>1, NatQuotient
  <2>3. PICK q \in Nat : q = M \div W
    BY <2>2
  <2>4. q % 1 = 0
    OBVIOUS
  <2>5. QED
    BY <1>3, <2>1, <2>3, <2>4, ByteWeights
<1>6. ASSUME NEW i \in S PROVE i + 1 \in S
  <2>1. SUFFICES ASSUME i + 1 <= m
                 PROVE  v[i + 1] = (M \div ByteWeight(m - (i + 1))) % ByteWeight(i + 1)
    OBVIOUS
  <2>2. PICK j \in Nat : j = m - (i + 1)
    BY <1>2, <2>1
  <2>3. /\ i \in Nat /\ i \in 0 .. m - 1 /\ j + 1 = m - i /\ i + 1 \in 1 .. m
        /\ v[i] = (M \div ByteWeight(m - i)) % ByteWeight(i)
    BY <1>2, <2>1, <2>2
  <2>4. PICK W \in Nat \ {0} : ByteWeight(j) = W /\ ByteWeight(j + 1) = W * p
    BY <1>4, <2>2, ByteWeights
  <2>5. PICK U \in Nat \ {0} : ByteWeight(i) = U /\ ByteWeight(i + 1) = U * p
    BY <1>4, <2>3, ByteWeights
  <2>6. PICK q \in Nat : q = M \div W
    BY <2>4, NatQuotient
  <2>7. M \div (W * p) = q \div p
    <3>1. M \in Int
      OBVIOUS
    <3>2. M \div (W * p) = (M \div W) \div p
      BY <1>4, <2>4, <3>1, DivDiv
    <3>3. QED
      BY <2>6, <3>2
  <2>8. bytes[i + 1] = q % p
    BY <1>2, <1>4, <2>2, <2>3, <2>4, <2>6 DEF IsByteOf
  <2>9. v[i] = (q \div p) % U
    BY <2>3, <2>4, <2>5, <2>7
  <2>10. PICK a \in Nat, b \in Nat : a = (q \div p) % U /\ b = q % p
    <3>1. PICK t \in Nat : t = q \div p
      BY <1>4, NatQuotient
    <3>2. t % U \in Nat /\ q % p \in Nat
      BY <1>4, <2>5
    <3>3. QED
      BY <3>1, <3>2
  <2>11. q % (p * U) = b + p * a
    <3>1. q \in Int
      OBVIOUS
    <3>2. q % (p * U) = (q % p) + p * ((q \div p) % U)
      BY <1>4, <2>5, <3>1, DivDiv
    <3>3. QED
      BY <2>10, <3>2
  <2>12. v[i + 1] = a * p + b
    BY <1>3, <1>4, <2>3, <2>8, <2>9, <2>10
  <2>13. a * p + b = b + p * a /\ p * U = U * p
    BY <1>4, <2>5
  <2>14. QED
    BY <2>2, <2>4, <2>5, <2>6, <2>11, <2>12, <2>13
<1> HIDE DEF S
<1>7. S = Nat
  BY <1>5, <1>6, SetInduction DEF S
<1>8. v[m] = (M \div ByteWeight(m - m)) % ByteWeight(m)
  BY <1>2, <1>7 DEF S
<1>9. ByteWeight(m - m) = 1 /\ M \div 1 = M
  <2>1. m - m = 0 /\ M \div 1 = M
    BY <1>2
  <2>2. QED
    BY <2>1, ByteWeights
<1>10. QED
  BY <1>3, <1>8, <1>9, Zenon DEF m


(* The bytes that a number takes: one less does not hold it. *)
IsByteCount(c, m) ==
  c \in Nat /\ m < ByteWeight(c) /\ (c > 0 => ByteWeight(c - 1) <= m)

(* There is one such count. *)
LEMMA ByteCountUnique ==
  ASSUME NEW m \in Nat, NEW a, IsByteCount(a, m), NEW b, IsByteCount(b, m)
  PROVE  a = b
<1>1. a \in Nat /\ b \in Nat
  BY DEF IsByteCount
<1>2. ASSUME NEW c \in Nat, NEW d \in Nat, c < d, m < ByteWeight(c),
             ByteWeight(d - 1) <= m
      PROVE  FALSE
  <2>1. PICK j \in Nat : j = d - 1 /\ c <= j
    BY <1>2
  <2>2. PICK U \in Nat, W \in Nat : ByteWeight(c) = U /\ ByteWeight(j) = W
    BY ByteWeights
  <2>3. U <= W
    BY <2>1, <2>2, ByteWeightsGrow
  <2>4. QED
    BY <1>2, <2>1, <2>2, <2>3
<1>3. ~(a < b)
  BY <1>1, <1>2 DEF IsByteCount
<1>4. ~(b < a)
  BY <1>1, <1>2 DEF IsByteCount
<1>5. QED
  BY <1>1, <1>3, <1>4

(* numberBytes is the count of the magnitude. *)
LEMMA NumberBytesExact ==
  ASSUME NEW x, Proper(x)
  PROVE  IsByteCount(NumberBytes(x), Magnitude(x))
<1>1. PICK M \in Nat : Magnitude(x) = M
  BY ProperValue
<1>2. PICK N \in Nat : /\ NumberBits(x) = N /\ M < Pow2[N]
                       /\ N > 0 => Pow2[N - 1] <= M
  BY <1>1, NumberBitsExact
<1>3. PICK B \in Nat \ {0} : ByteBits = B
  BY ByteWeights
<1>4. PICK q \in Nat, r \in 0 .. B - 1 :
        /\ N = B * q + r /\ N \div B = q /\ N % B = r
  <2>1. N \in Int
    OBVIOUS
  <2>2. N \div B \in Nat /\ N % B \in 0 .. B - 1 /\ N = B * (N \div B) + (N % B)
    BY <1>3, <2>1, DivMod, NatQuotient
  <2>3. QED
    BY <2>2
<1>5. PICK c \in Nat : NumberBytes(x) = c /\ c = q + (IF r = 0 THEN 0 ELSE 1)
  <2>1. NumberBytes(x) = q + (IF r = 0 THEN 0 ELSE 1)
    BY <1>2, <1>3, <1>4, Zenon DEF NumberBytes
  <2>2. q + (IF r = 0 THEN 0 ELSE 1) \in Nat
    OBVIOUS
  <2>3. QED
    BY <2>1, <2>2
<1>6. PICK top \in Nat : top = B * c /\ N <= top
  <2>1. B * c \in Nat
    BY <1>3
  <2>2. CASE r = 0
    BY <1>3, <1>4, <1>5, <2>1, <2>2
  <2>3. CASE r # 0
    <3>1. c = q + 1 /\ B * (q + 1) = B * q + B
      BY <1>3, <1>5, <2>3
    <3>2. B * q \in Nat
      BY <1>3
    <3>3. QED
      BY <1>3, <1>4, <2>1, <3>1, <3>2
  <2>4. QED
    BY <2>2, <2>3
<1>7. M < ByteWeight(c)
  <2>1. N \in 0 .. top
    BY <1>6
  <2>2. PICK U \in Nat, W \in Nat : Pow2[N] = U /\ Pow2[top] = W
    BY Pow2Unfold
  <2>3. U <= W
    BY <2>1, <2>2, Pow2Grows
  <2>4. ByteWeight(c) = W
    BY <1>3, <1>6, <2>2 DEF ByteWeight
  <2>5. QED
    BY <1>2, <2>2, <2>3, <2>4
<1>8. ASSUME c > 0 PROVE ByteWeight(c - 1) <= M
  <2>1. PICK j \in Nat : j = c - 1
    BY <1>8
  <2>2. PICK low \in Nat : low = B * j /\ low + 1 <= N
    <3>1. B * j \in Nat
      BY <1>3
    <3>2. CASE r = 0
      <4>1. q = j + 1 /\ B * (j + 1) = B * j + B
        BY <1>3, <1>5, <2>1, <3>2
      <4>2. QED
        BY <1>3, <1>4, <3>1, <3>2, <4>1
    <3>3. CASE r # 0
      <4>1. q = j
        BY <1>5, <2>1, <3>3
      <4>2. QED
        BY <1>3, <1>4, <3>1, <3>3, <4>1
    <3>4. QED
      BY <3>2, <3>3
  <2>3. PICK t \in Nat : t = N - 1 /\ low \in 0 .. t /\ N > 0
    BY <2>2
  <2>4. PICK U \in Nat, W \in Nat : Pow2[low] = U /\ Pow2[t] = W
    BY Pow2Unfold
  <2>5. U <= W
    BY <2>3, <2>4, Pow2Grows
  <2>6. ByteWeight(c - 1) = U
    BY <1>3, <2>1, <2>2, <2>4 DEF ByteWeight
  <2>7. W <= M
    BY <1>2, <2>3, <2>4
  <2>8. QED
    BY <2>4, <2>5, <2>6, <2>7
<1>9. QED
  BY <1>1, <1>5, <1>7, <1>8 DEF IsByteCount


(* What is stored is the number, cut to the bytes of the buffer; and a buffer *)
(* of just as many bytes as the number takes begins with one that is not 0.   *)
LEMMA StoredNumber ==
  ASSUME NEW x, Proper(x), NEW count \in Nat
  PROVE  /\ BytesNumber(StoreBytes(x, count)) = Magnitude(x) % ByteWeight(count)
         /\ count > 0 /\ count = NumberBytes(x) => StoreBytes(x, count)[1] # 0
<1> DEFINE bytes == StoreBytes(x, count)
<1>1. /\ bytes \in Seq(Byte) /\ Len(bytes) = count
      /\ \A k \in 1 .. count : IsByteOf(bytes[k], Magnitude(x), count - k)
  BY StoreBytesExact
<1> HIDE DEF bytes
<1>2. PICK M \in Nat : Magnitude(x) = M
  BY ProperValue
<1>3. BytesNumber(bytes) = M % ByteWeight(count)
  BY <1>1, <1>2, BytesSpell
<1>4. ASSUME count > 0, count = NumberBytes(x) PROVE bytes[1] # 0
  <2>1. PICK j \in Nat : j = count - 1 /\ j + 1 = count /\ 1 \in 1 .. count
    BY <1>4
  <2>2. PICK p \in Nat \ {0}, W \in Nat \ {0} :
          ByteRadix = p /\ ByteWeight(j) = W /\ ByteWeight(j + 1) = W * p
    BY ByteWeights
  <2>3. W <= M /\ M < W * p
    BY <1>2, <1>4, <2>1, <2>2, NumberBytesExact DEF IsByteCount
  <2>4. PICK d \in Nat : d = M \div W /\ d \in 1 .. p - 1
    <3>1. M \div W \in Nat
      BY <2>2, NatQuotient
    <3>2. PICK d \in Nat, r \in 0 .. W - 1 : d = M \div W /\ M = W * d + r
      <4>1. M \in Int
        OBVIOUS
      <4>2. QED
        BY <2>2, <3>1, <4>1, DivMod
    <3>3. d # 0
      BY <2>2, <2>3, <3>2
    <3>4. d < p
      <4>1. SUFFICES ASSUME p <= d PROVE FALSE
        BY <2>2
      <4>2. W * p <= W * d
        BY <2>2, <4>1
      <4>3. W * p \in Nat /\ W * d \in Nat
        BY <2>2
      <4>4. QED
        BY <2>3, <3>2, <4>2, <4>3
    <3>5. QED
      BY <2>2, <3>2, <3>3, <3>4
  <2>5. bytes[1] = d % p
    BY <1>1, <1>2, <2>1, <2>2, <2>4 DEF IsByteOf
  <2>6. d % p = d
    BY <2>2, <2>4
  <2>7. QED
    BY <2>4, <2>5, <2>6
<1>5. QED
  BY <1>2, <1>3, <1>4 DEF bytes

(* A buffer swizzled twice in the same groups is the buffer. *)
LEMMA SwizzledTwice ==
  ASSUME NEW bytes \in Seq(Byte), NEW g \in {1, 2}, Len(bytes) % g = 0
  PROVE  /\ Swizzled(bytes, g) \in Seq(Byte)
         /\ Len(Swizzled(bytes, g)) = Len(bytes)
         /\ Swizzled(Swizzled(bytes, g), g) = bytes
<1> DEFINE m == Len(bytes)
           turned == [k \in 1 .. m |-> IF g = 1 THEN k ELSE IF k % 2 = 1 THEN k + 1 ELSE k - 1]
<1>1. m \in Nat /\ \A k \in 1 .. m : bytes[k] \in Byte
  OBVIOUS
<1>2. ASSUME NEW k \in 1 .. m
      PROVE  LET offset == (k - 1) % g
             IN  /\ k - offset + (g - 1 - offset) = turned[k]
                 /\ turned[k] \in 1 .. m /\ turned[turned[k]] = k
  <2>1. CASE g = 1
    <3>1. (k - 1) % g = 0
      BY <2>1
    <3>2. turned[k] = k
      BY <2>1
    <3>3. QED
      BY <2>1, <3>1, <3>2
  <2>2. CASE g = 2 /\ k % 2 = 1
    <3>1. (k - 1) % g = 0
      BY <2>2, <1>1
    <3>2. m % 2 = 0
      BY <2>2
    <3>3. k + 1 \in 1 .. m
      BY <2>2, <3>2, <1>1
    <3>4. turned[k] = k + 1 /\ (k + 1) % 2 = 0
      BY <2>2
    <3>5. turned[k + 1] = k
      BY <2>2, <3>3, <3>4
    <3>6. QED
      BY <2>2, <3>1, <3>3, <3>4, <3>5
  <2>3. CASE g = 2 /\ k % 2 = 0
    <3>1. (k - 1) % g = 1
      BY <2>3, <1>1
    <3>2. k - 1 \in 1 .. m /\ (k - 1) % 2 = 1
      BY <2>3, <1>1
    <3>3. turned[k] = k - 1
      BY <2>3
    <3>4. turned[k - 1] = k
      BY <2>3, <3>2
    <3>5. QED
      BY <2>3, <3>1, <3>2, <3>3, <3>4
  <2>4. k % 2 \in {0, 1}
    OBVIOUS
  <2>5. QED
    BY <2>1, <2>2, <2>3, <2>4
<1> HIDE DEF turned
<1> DEFINE once == [k \in 1 .. m |-> bytes[turned[k]]]
<1>3. Swizzled(bytes, g) = once
  BY <1>2 DEF Swizzled
<1>4. once \in Seq(Byte) /\ Len(once) = m
  BY <1>1, <1>2
<1>5. \A k \in 1 .. m : once[turned[k]] = bytes[k]
  BY <1>2
<1> HIDE DEF once
<1>6. Swizzled(once, g) = [k \in 1 .. m |-> once[turned[k]]]
  BY <1>2, <1>4 DEF Swizzled
<1>7. bytes = [k \in 1 .. m |-> bytes[k]]
  OBVIOUS
<1>8. Swizzled(once, g) = bytes
  BY <1>5, <1>6, <1>7
<1>9. QED
  BY <1>3, <1>4, <1>8

(* The last byte of a buffer is, once swizzled, at the head of its group.   *)
LEMMA SwizzledLast ==
  ASSUME NEW bytes \in Seq(Byte), NEW g \in {1, 2},
         Len(bytes) % g = 0, Len(bytes) # 0
  PROVE  Swizzled(bytes, g)[Len(bytes) - g + 1] = bytes[Len(bytes)]
<1> DEFINE m == Len(bytes)
           k == m - g + 1
<1>1. m \in Nat /\ m # 0 /\ m % g = 0
  OBVIOUS
<1> HIDE DEF m
<1>2. k \in 1 .. m /\ (k - 1) % g = 0 /\ k - 0 + (g - 1 - 0) = m
  BY <1>1
<1>3. Swizzled(bytes, g)[k] = bytes[k - 0 + (g - 1 - 0)]
  BY <1>2 DEF Swizzled, m
<1>4. QED
  BY <1>2, <1>3 DEF m

(* A vector has three words at the least: grow adds more than a base       *)
(* capacity to what is asked for, and two words when that is a single one. *)
LEMMA NewRoomy ==
  ASSUME NEW c \in Nat \ {0}
  PROVE  New(c).size >= 3
<1> DEFINE none == [neg |-> FALSE, used |-> 0, size |-> 0,
                    dig |-> [i \in {} |-> 0]]
           s == c + (2 * BaseCapacity - (c % BaseCapacity))
           d == [i \in 0 .. s - 1 |-> IF i < none.size THEN none.dig[i] ELSE 0]
<1>1. New(c) = [none EXCEPT !.size = s, !.dig = d]
  BY DEF New, Grow
<1>2. New(c).size = s
  BY <1>1
<1>3. PICK B \in Nat \ {0} : B = BaseCapacity
  BY BaseCapacityAssumption
<1>4. PICK r \in 0 .. B - 1 : r = c % B
  BY <1>3
<1>5. B = 1 \/ B >= 2
  BY <1>3
<1>6. QED
  BY <1>2, <1>3, <1>4, <1>5

(* So has the vector of a product. *)
LEMMA MulRoomy ==
  ASSUME NEW x, Safe(x), NEW y, Safe(y)
  PROVE  Mul(x, y).size >= 3
<1> DEFINE c == x.used + y.used + 1
<1>1. c \in Nat \ {0}
  BY Fields DEF Safe
<1>2. PICK z : /\ Mul(x, y) = [Clamp(z) EXCEPT !.neg = (x.neg # y.neg)]
               /\ Safe(z) /\ z.size = New(c).size
  BY MulSafe
<1>3. New(c).size >= 3
  BY <1>1, NewRoomy
<1>4. Clamp(z).size = z.size
  BY <1>2, ClampSafe
<1>5. Mul(x, y).size = Clamp(z).size
  <2>1. \A w, s : [w EXCEPT !.neg = s].size = w.size
    OBVIOUS
  <2>2. QED
    BY <1>2, <2>1
<1>6. QED
  BY <1>2, <1>3, <1>4, <1>5

=============================================================================
