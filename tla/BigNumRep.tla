----------------------------- MODULE BigNumRep -----------------------------
(***************************************************************************)
(* The representation of a BigNum object and the body of each of its       *)
(* member functions, as operators on representations (BigNum.h,            *)
(* BigNum.cpp).  A loop of the code is a function of its loop index: the   *)
(* carry chains are recursive functions, a loop whose iterations do not    *)
(* depend on one another is a function expression.                         *)
(*                                                                         *)
(* The code has DigitBits = 31 in a 32-bit digit_t, so a digit has exactly *)
(* one spare bit; that relation is kept here for every DigitBits.          *)
(***************************************************************************)
EXTENDS Powers, Sequences

CONSTANTS DigitBits,      \* bits of a digit that carry value
          BaseCapacity,   \* the unit in which the digit vector grows
          ByteBits        \* bits of a byte of loadBytes and storeBytes

ASSUME DigitBitsAssumption == DigitBits \in Nat \ {0}
ASSUME BaseCapacityAssumption == BaseCapacity \in Nat \ {0}
ASSUME ByteBitsAssumption == ByteBits \in 1 .. DigitBits - 1

DigitRadix == Pow2[DigitBits]
WordRadix  == 2 * DigitRadix      \* a digit_t holds DigitBits + 1 bits
Byte       == 0 .. Pow2[ByteBits] - 1
Digit      == 0 .. DigitRadix - 1

-----------------------------------------------------------------------------
(***************************************************************************)
(* An object: m_negative, m_numDigitsUsed, m_digits.size(), m_digits.      *)
(***************************************************************************)
IsNumber(x) ==
  x \in [neg : BOOLEAN, used : Nat, size : Nat,
         dig : [0 .. x.size - 1 -> Digit]]

IsZero(x) == x.used = 0

\* The parts of the form in which the operations leave an object.
UsedInVector(x)    == x.used <= x.size
ClearAboveUsed(x)  == \A i \in x.used .. x.size - 1 : x.dig[i] = 0
LeadingNonzero(x)  == x.used > 0 => x.dig[x.used - 1] # 0
ZeroNonnegative(x) == IsZero(x) => ~x.neg

\* The integer a representation stands for.
Magnitude(x) ==
  LET m[i \in Nat] ==
        IF i = 0 THEN 0 ELSE m[i - 1] + x.dig[i - 1] * Pow2[DigitBits * (i - 1)]
  IN  m[x.used]

Value(x) == IF x.neg THEN -Magnitude(x) ELSE Magnitude(x)

\* Digit i of x as the loops read it: only the digits below used count.
Dig(x, i) == IF i < x.used THEN x.dig[i] ELSE 0

\* vector::resize zero-initialises the new words.
Grow(x, newCapacity) ==
  IF x.size >= newCapacity
  THEN x
  ELSE LET s == newCapacity + (2 * BaseCapacity - (newCapacity % BaseCapacity))
       IN  [x EXCEPT !.size = s,
                     !.dig = [i \in 0 .. s - 1 |->
                                IF i < x.size THEN x.dig[i] ELSE 0]]

\* BigNum( capacity )
New(capacity) ==
  Grow([neg |-> FALSE, used |-> 0, size |-> 0, dig |-> [i \in {} |-> 0]],
       capacity)

\* The number of digits clamp leaves in use.
ClampedUsed(x) ==
  CHOOSE k \in 0 .. x.used : /\ k > 0 => x.dig[k - 1] # 0
                             /\ \A i \in k .. x.used - 1 : x.dig[i] = 0

Clamp(x) ==
  [x EXCEPT !.used = ClampedUsed(x),
            !.neg  = x.neg /\ ClampedUsed(x) # 0]

Zero(x) ==
  [x EXCEPT !.used = 0, !.neg = FALSE,
            !.dig = [i \in 0 .. x.size - 1 |-> 0]]

-----------------------------------------------------------------------------
(***************************************************************************)
(* Size in bits and bytes, and the iterator over the bits.                 *)
(***************************************************************************)
BitLength(d) ==
  CHOOSE k \in 0 .. DigitBits : d < Pow2[k] /\ (k > 0 => Pow2[k - 1] <= d)

NumberBits(x) ==
  IF IsZero(x) THEN 0
  ELSE (x.used - 1) * DigitBits + BitLength(x.dig[x.used - 1])

\* Mutant: a last byte that is not full is not counted.
NumberBytesTruncated(x) == NumberBits(x) \div ByteBits

NumberBytes(x) ==
  (NumberBits(x) \div ByteBits) + (IF NumberBits(x) % ByteBits = 0 THEN 0 ELSE 1)

\* Mutant: a full leading digit is not given its DigitBits bits.
BiteratorFullDigitLost(x) ==
  [digit |-> IF IsZero(x) THEN 0 ELSE x.used - 1,
   bits  |-> NumberBits(x) % DigitBits]

\* A biterator: m_iCurrentDigit, and the number of bits of that digit still to
\* be visited (m_currentBitInDigitMask is 2^(bits-1), or 0 when bits is 0).
Biterator(x) ==
  IF IsZero(x)
  THEN [digit |-> 0, bits |-> 0]
  ELSE [digit |-> x.used - 1,
        bits  |-> IF NumberBits(x) % DigitBits = 0
                  THEN DigitBits ELSE NumberBits(x) % DigitBits]

HasBits(it) == it.bits > 0

BitAt(x, it) == (x.dig[it.digit] \div Pow2[it.bits - 1]) % 2

\* Mutant: the mask is set up again below the last digit.
NextBitWraps(it) ==
  IF it.bits = 1
  THEN [digit |-> IF it.digit > 0 THEN it.digit - 1 ELSE 0, bits |-> DigitBits]
  ELSE [it EXCEPT !.bits = @ - 1]

NextBit(it) ==
  IF it.bits = 1 /\ it.digit > 0
  THEN [digit |-> it.digit - 1, bits |-> DigitBits]
  ELSE [it EXCEPT !.bits = @ - 1]

\* Everything the loop "while( hasBits() ) nextBit()" returns.
BitsOf(x) ==
  LET it[k \in Nat] == IF k = 0 THEN Biterator(x) ELSE NextBit(it[k - 1])
      n == CHOOSE k \in 0 .. x.used * DigitBits :
             ~HasBits(it[k]) /\ \A j \in 0 .. k - 1 : HasBits(it[j])
  IN  [k \in 1 .. n |-> BitAt(x, it[k - 1])]

-----------------------------------------------------------------------------
(***************************************************************************)
(* Comparison.                                                             *)
(***************************************************************************)
CompareMagnitude(x, y) ==
  LET Differ == {i \in 0 .. x.used - 1 : x.dig[i] # y.dig[i]}
      top == CHOOSE i \in Differ : \A j \in Differ : j <= i
  IN  CASE x.used > y.used -> "GreaterThan"
        [] x.used < y.used -> "LessThan"
        [] x.used = y.used /\ Differ = {} -> "Equal"
        [] OTHER -> IF x.dig[top] > y.dig[top] THEN "GreaterThan"
                                               ELSE "LessThan"

\* Mutant: two negative numbers are compared by magnitude, not reversed.
CompareNotReversed(x, y) ==
  CASE x.neg /\ ~y.neg -> "LessThan"
    [] ~x.neg /\ y.neg -> "GreaterThan"
    [] OTHER -> CompareMagnitude(x, y)

Compare(x, y) ==
  CASE x.neg /\ ~y.neg -> "LessThan"
    [] ~x.neg /\ y.neg -> "GreaterThan"
    [] x.neg /\ y.neg  -> CompareMagnitude(y, x)
    [] OTHER           -> CompareMagnitude(x, y)

-----------------------------------------------------------------------------
(***************************************************************************)
(* Sign changes and assignment.                                            *)
(***************************************************************************)
Abs(x)    == [x EXCEPT !.neg = FALSE]
Negate(x) == [x EXCEPT !.neg = ~IsZero(x) /\ ~x.neg]

\* Mutant: the digits above the copied ones are not cleared.
AssignNotCleared(x, y) ==
  LET g == Grow(x, y.used)
  IN  [g EXCEPT !.neg = y.neg, !.used = y.used,
                !.dig = [i \in 0 .. g.size - 1 |->
                           IF i < y.used THEN y.dig[i] ELSE g.dig[i]]]

\* Mutant: the compiler's own memberwise assignment.
AssignMemberwise(x, y) == y

\* operator=( const BigNum & ): the capacity stays the object's own, the digits
\* above the copied ones that were in use are cleared.
Assign(x, y) ==
  LET g == Grow(x, y.used)
  IN  [g EXCEPT !.neg = y.neg, !.used = y.used,
                !.dig = [i \in 0 .. g.size - 1 |->
                           IF i < y.used THEN y.dig[i]
                           ELSE IF i < x.used THEN 0 ELSE g.dig[i]]]

\* operator=( digit_t ); d is any digit_t.
AssignDigit(x, d) ==
  [Zero(x) EXCEPT !.dig[0] = d % DigitRadix,
                  !.used = IF d % DigitRadix # 0 THEN 1 ELSE 0]

-----------------------------------------------------------------------------
(***************************************************************************)
(* Shifts.  ShlBits and ShrBits are the carry loops that <<= and           *)
(* multiplyByTwo, >>= and divideByTwo share, for 0 < n < DigitBits: the    *)
(* carry into a digit is the n bits its neighbour loses.                   *)
(***************************************************************************)
\* Mutant: the shifted digit is not masked.
ShlBitsUnmasked(x, n) ==
  LET CarryInto(i) ==
        IF i = 0 THEN 0 ELSE Dig(x, i - 1) \div Pow2[DigitBits - n]
      carry == CarryInto(x.used)
  IN  [x EXCEPT !.used = IF carry # 0 THEN @ + 1 ELSE @,
                !.dig = [i \in 0 .. x.size - 1 |->
                           IF i < x.used
                           THEN ((x.dig[i] * Pow2[n]) % WordRadix) + CarryInto(i)
                           ELSE IF i = x.used /\ carry # 0 THEN carry
                           ELSE x.dig[i]]]

ShlBits(x, n) ==
  LET CarryInto(i) ==
        IF i = 0 THEN 0 ELSE Dig(x, i - 1) \div Pow2[DigitBits - n]
      carry == CarryInto(x.used)
  IN  [x EXCEPT !.used = IF carry # 0 THEN @ + 1 ELSE @,
                !.dig = [i \in 0 .. x.size - 1 |->
                           IF i < x.used
                           THEN ((x.dig[i] * Pow2[n]) % DigitRadix) + CarryInto(i)
                           ELSE IF i = x.used /\ carry # 0 THEN carry
                           ELSE x.dig[i]]]

ShrBits(x, n) ==
  [x EXCEPT !.dig = [i \in 0 .. x.size - 1 |->
                       IF i < x.used
                       THEN x.dig[i] \div Pow2[n]
                            + ((Dig(x, i + 1) % Pow2[n]) * Pow2[DigitBits - n])
                       ELSE x.dig[i]]]

MultiplyByTwo(x) == ShlBits(Grow(x, x.used + 1), 1)
DivideByTwo(x)   == Clamp(ShrBits(x, 1))

LeftDigitShift(x, k) ==
  LET g == Grow(x, x.used + k)
  IN  IF k = 0 THEN x
      ELSE [g EXCEPT !.used = x.used + k,
                     !.dig = [i \in 0 .. g.size - 1 |->
                                IF i < k THEN 0
                                ELSE IF i < x.used + k THEN g.dig[i - k]
                                ELSE g.dig[i]]]

RightDigitShift(x, k) ==
  IF k = 0 THEN x
  ELSE IF x.used <= k THEN Zero(x)
  ELSE [x EXCEPT !.used = x.used - k,
                 !.dig = [i \in 0 .. x.size - 1 |->
                            IF i < x.used - k THEN x.dig[i + k]
                            ELSE IF i < x.used THEN 0
                            ELSE x.dig[i]]]

\* Mutant: no room is reserved for the carry out of the leading digit.
ShlNoRoom(x, n) ==
  LET g == LeftDigitShift(Grow(x, x.used + n \div DigitBits), n \div DigitBits)
  IN  IF n % DigitBits = 0 THEN g ELSE ShlBits(g, n % DigitBits)

Shl(x, n) ==
  LET g == LeftDigitShift(Grow(x, x.used + n \div DigitBits + 1),
                          n \div DigitBits)
  IN  IF n % DigitBits = 0 THEN g ELSE ShlBits(g, n % DigitBits)

Shr(x, n) ==
  LET s == RightDigitShift(x, n \div DigitBits)
  IN  IF n = 0 THEN x
      ELSE Clamp(IF n % DigitBits = 0 THEN s ELSE ShrBits(s, n % DigitBits))

\* mod2b.  The boundary digit is masked even when it is not a digit of x; the
\* mask is then 0 and the word, if it is one of m_digits, is 0 already.
BoundaryDigit(b) == b \div DigitBits
Mod2bMasks(x, b) == b > 0 /\ b <= x.used * DigitBits

Mod2b(x, b) ==
  IF b = 0 THEN Zero(x)
  ELSE IF ~Mod2bMasks(x, b) THEN x
  ELSE LET firstToZero == (b \div DigitBits) + (IF b % DigitBits = 0 THEN 0 ELSE 1)
       IN  Clamp([x EXCEPT !.dig =
                    [i \in 0 .. x.size - 1 |->
                       IF i = BoundaryDigit(b)
                       THEN x.dig[i] % Pow2[b % DigitBits]
                       ELSE IF firstToZero <= i /\ i < x.used THEN 0
                       ELSE x.dig[i]]])
=============================================================================
