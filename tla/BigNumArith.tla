---------------------------- MODULE BigNumArith ----------------------------
(***************************************************************************)
(* The carry-chain arithmetic of BigNum.cpp on the representations of      *)
(* BigNumRep: addition, subtraction, multiplication, and the conversions   *)
(* from and to bytes.  Division is a machine of its own (BigNumDivide).    *)
(***************************************************************************)
EXTENDS BigNumRep

Larger(m, n) == IF m > n THEN m ELSE n

(***************************************************************************)
(* unsignedAddEquals.  Below the shorter length both digits are added,     *)
(* above it only the longer number's; the last carry is the new top digit. *)
(* x may be y itself: each digit is read before it is written.             *)
(***************************************************************************)
\* Mutant: no carry is propagated above the shorter number.
AddCarryStops(x, y) ==
  LET c[i \in Nat] ==
        IF i = 0 \/ i > x.used \/ i > y.used THEN 0
        ELSE (Dig(x, i - 1) + Dig(y, i - 1) + c[i - 1]) \div DigitRadix
  IN  c

AddCarry(x, y) ==
  LET c[i \in Nat] ==
        IF i = 0 THEN 0
        ELSE (Dig(x, i - 1) + Dig(y, i - 1) + c[i - 1]) \div DigitRadix
  IN  c

AddUnclamped(x, y) ==
  LET maxUsed == Larger(x.used, y.used)
      g == Grow(x, maxUsed + 1)
      c == AddCarry(x, y)
  IN  [g EXCEPT !.used = maxUsed + 1,
                !.dig = [i \in 0 .. g.size - 1 |->
                           IF i < maxUsed
                           THEN (Dig(x, i) + Dig(y, i) + c[i]) % DigitRadix
                           ELSE IF i = maxUsed THEN c[i]
                           ELSE g.dig[i]]]

UnsignedAdd(x, y) == Clamp(AddUnclamped(x, y))

(***************************************************************************)
(* unsignedSubtractEquals: the borrow is the sign bit of the digit_t       *)
(* difference.  Its callers give it y.used <= x.used.                      *)
(***************************************************************************)
SubBorrow(x, y) ==
  LET c[i \in Nat] ==
        IF i = 0 THEN 0
        ELSE ((Dig(x, i - 1) - Dig(y, i - 1) - c[i - 1]) % WordRadix)
               \div DigitRadix
  IN  c

SubUnclamped(x, y) ==
  LET c == SubBorrow(x, y)
  IN  [x EXCEPT !.dig = [i \in 0 .. x.size - 1 |->
                           IF i < x.used
                           THEN (x.dig[i] - Dig(y, i) - c[i]) % DigitRadix
                           ELSE x.dig[i]]]

UnsignedSub(x, y) == Clamp(SubUnclamped(x, y))

\* *this = unsignedSubtract( rhs, *this ): the difference is computed in a copy
\* of rhs, whose sign it keeps, and assigned back.
SubFrom(x, y) == Assign(x, UnsignedSub(y, x))

AddEq(x, y) ==
  CASE x.neg = y.neg -> UnsignedAdd(x, y)
    [] x.neg # y.neg /\ CompareMagnitude(x, y) = "LessThan" -> SubFrom(x, y)
    [] OTHER -> UnsignedSub(x, y)

SubEq(x, y) ==
  CASE x.neg # y.neg -> UnsignedAdd(x, y)
    [] x.neg = y.neg /\ CompareMagnitude(x, y) # "LessThan" -> UnsignedSub(x, y)
    [] OTHER -> [SubFrom(x, y) EXCEPT !.neg = ~x.neg]

-----------------------------------------------------------------------------
(***************************************************************************)
(* Multiplication by a digit d, in double-precision words.                 *)
(***************************************************************************)
MulCarry(x, d) ==
  LET c[i \in Nat] ==
        IF i = 0 THEN 0 ELSE (c[i - 1] + Dig(x, i - 1) * d) \div DigitRadix
  IN  c

MulDigit(x, d) ==
  LET g == Grow(x, x.used + 1)
      c == MulCarry(g, d)
  IN  Clamp([g EXCEPT !.used = x.used + 1,
                      !.dig = [i \in 0 .. g.size - 1 |->
                                 IF i < x.used
                                 THEN (c[i] + g.dig[i] * d) % DigitRadix
                                 ELSE IF i = x.used THEN c[i]
                                 ELSE g.dig[i]]])

(***************************************************************************)
(* baselineMultiply: row i adds digit i of x times y into the product, at  *)
(* offset i, and stores the row's last carry above it.                     *)
(***************************************************************************)
RowCarry(t, d, y, i) ==
  LET c[j \in 0 .. y.used] ==
        IF j = 0 THEN 0
        ELSE (t[i + j - 1] + d * Dig(y, j - 1) + c[j - 1]) \div DigitRadix
  IN  c

AddRow(t, d, y, i) ==
  LET c == RowCarry(t, d, y, i)
  IN  [k \in DOMAIN t |->
         IF i <= k /\ k < i + y.used
         THEN (t[k] + d * y.dig[k - i] + c[k - i]) % DigitRadix
         ELSE IF k = i + y.used THEN c[y.used]
         ELSE t[k]]

MulRows(x, y) ==
  LET temp == New(x.used + y.used + 1)
      row[i \in 0 .. x.used] ==
        IF i = 0 \/ IsZero(y) THEN temp.dig
        ELSE AddRow(row[i - 1], Dig(x, i - 1), y, i - 1)
  IN  row

\* operator*=: the sign is set first, and temp, not this object, is clamped.
\* The object takes temp's vector, whatever its own capacity was.
Mul(x, y) ==
  LET n == x.used + y.used + 1
      product == Clamp([New(n) EXCEPT !.used = n, !.dig = MulRows(x, y)[x.used]])
  IN  [product EXCEPT !.neg = (x.neg # y.neg)]

-----------------------------------------------------------------------------
(***************************************************************************)
(* Bytes.  A buffer is a sequence of bytes, most significant first.        *)
(***************************************************************************)
\* Mutant: used is not counted up, so a byte loaded into zero is lost.
LoadByteNotCounted(x, b) == [Shl(x, ByteBits) EXCEPT !.dig[0] = @ + b]

\* One turn of the inner loop of loadBytes.  The shift leaves the low bits
\* clear, so "|=" adds the byte; used is counted up once per byte.
LoadByte(x, b) ==
  LET s == Shl(x, ByteBits)
  IN  [s EXCEPT !.dig[0] = @ + b, !.used = @ + 1]

LoadUnclamped(x, bytes) ==
  LET y[i \in 0 .. Len(bytes)] ==
        IF i = 0 THEN x ELSE LoadByte(y[i - 1], bytes[i])
  IN  y[Len(bytes)]

\* The outcomes of loadBytes.  When used has passed the end of the vector, the
\* final clamp reads the word behind it, which is zero or not.
LoadBytes(x, bytes, preZero) ==
  LET y == LoadUnclamped(IF preZero THEN Zero(x) ELSE x, bytes)
  IN  IF y.used <= y.size THEN {Clamp(y)}
      ELSE {Clamp([y EXCEPT !.used = y.size]), y}

\* storeBytes works on a copy of x, from the last byte of the buffer back.
StoreBytes(x, count) ==
  LET y[i \in Nat] == IF i = 0 THEN x ELSE Shr(y[i - 1], ByteBits)
  IN  [k \in 1 .. count |-> y[count - k].dig[0] % Pow2[ByteBits]]

\* The order in which a swizzling load reads, or a swizzling store fills, a
\* buffer: backwards within each group of swizzleSize bytes.
Swizzled(bytes, swizzleSize) ==
  [k \in 1 .. Len(bytes) |->
     LET offset == (k - 1) % swizzleSize
     IN  bytes[k - offset + (swizzleSize - 1 - offset)]]
-----------------------------------------------------------------------------
\* BigNum()
BigNumDefault == New(BaseCapacity)

\* The form every operation leaves an integer in.
InForm(x) ==
  UsedInVector(x) /\ ClearAboveUsed(x) /\ LeadingNonzero(x) /\ ZeroNonnegative(x)

Represent(v) ==
  LET m == IF v < 0 THEN -v ELSE v
      used == CHOOSE k \in 0 .. m : /\ m < Pow2[DigitBits * k]
                                    /\ k > 0 => m >= Pow2[DigitBits * (k - 1)]
      g == Grow(BigNumDefault, used)
  IN  [g EXCEPT !.neg = v < 0, !.used = used,
                !.dig = [j \in 0 .. g.size - 1 |->
                           IF j < used
                           THEN (m \div Pow2[DigitBits * j]) % DigitRadix
                           ELSE 0]]
=============================================================================
