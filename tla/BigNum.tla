------------------------------- MODULE BigNum -------------------------------
(***************************************************************************)
(* Objects of class BigNum under arbitrary sequences of calls: one action  *)
(* per public member function that changes an object.  Division and mod    *)
(* are in BigNumDivide; the const members (compare, numberBits, the        *)
(* biterator, storeBytes) change nothing and are what the invariants       *)
(* below ask about.  An operation may name one object twice (x += x).  The *)
(* free functions (abs( x ), x + y, ...) are a copy, a member function on  *)
(* the copy and an assignment or another copy, each of which is an action. *)
(***************************************************************************)
EXTENDS BigNumArith

CONSTANTS Names,     \* the objects
          Capacity,  \* the capacity they are constructed with
          Counts,    \* numbers of bits, of digits, and capacities passed
          Buffers,   \* byte sequences loaded
          MaxUsed,   \* bound: the most digits the model lets an object use
          Corners    \* which of the calls below the callers make

(***************************************************************************)
(* Corners names calls that leave an object in a form the rest of the code *)
(* does not expect:                                                        *)
(*   "MulZero"    *= of a zero and a number of the other sign              *)
(*   "ShiftZero"  <<= by a digit or more, or leftDigitShift, of zero       *)
(*   "Append"     loadBytes without preZero that fills the vector, when    *)
(*                the memory behind it is not zero                         *)
(***************************************************************************)
ASSUME CapacityAssumption == Capacity \in Nat \ {0}
ASSUME CountsAssumption == Counts \subseteq Nat
ASSUME BuffersAssumption == Buffers \subseteq Seq(Byte) \ {<<>>}
ASSUME MaxUsedAssumption == MaxUsed \in [Names -> Nat]
ASSUME CornersAssumption == Corners \subseteq {"MulZero", "ShiftZero", "Append"}

VARIABLES num,       \* num[n] is the representation of object n
          call       \* the last call and its arguments

vars == <<num, call>>

Init ==
  /\ num = [n \in Names |-> New(Capacity)]
  /\ call = <<"construct">>

\* Object n becomes x, unless that takes it past the bound of the model.  The
\* bound does not hide an object that has left its vector.
Set(n, x) ==
  /\ x.used > MaxUsed[n] => ~UsedInVector(x)
  /\ num' = [num EXCEPT ![n] = x]

-----------------------------------------------------------------------------
DoAbs(n)    == call' = <<"abs", n>>    /\ Set(n, Abs(num[n]))
DoNegate(n) == call' = <<"negate", n>> /\ Set(n, Negate(num[n]))
DoZero(n)   == call' = <<"zero", n>>   /\ Set(n, Zero(num[n]))
DoClamp(n)  == call' = <<"clamp", n>>  /\ Set(n, Clamp(num[n]))

DoGrow(n, c) == call' = <<"grow", n, c>> /\ Set(n, Grow(num[n], c))

DoMultiplyByTwo(n) ==
  call' = <<"multiplyByTwo", n>> /\ Set(n, MultiplyByTwo(num[n]))

DoDivideByTwo(n) ==
  call' = <<"divideByTwo", n>> /\ Set(n, DivideByTwo(num[n]))

DoLeftDigitShift(n, k) ==
  /\ IsZero(num[n]) /\ k > 0 => "ShiftZero" \in Corners
  /\ call' = <<"leftDigitShift", n, k>>
  /\ Set(n, LeftDigitShift(num[n], k))

DoRightDigitShift(n, k) ==
  call' = <<"rightDigitShift", n, k>> /\ Set(n, RightDigitShift(num[n], k))

DoShiftLeft(n, k) ==
  /\ IsZero(num[n]) /\ k >= DigitBits => "ShiftZero" \in Corners
  /\ call' = <<"<<=", n, k>>
  /\ Set(n, Shl(num[n], k))

DoShiftRight(n, k) == call' = <<">>=", n, k>> /\ Set(n, Shr(num[n], k))

DoMod2b(n, b) == call' = <<"mod2b", n, b>> /\ Set(n, Mod2b(num[n], b))

\* Self-assignment returns at once.
DoAssign(n, m) ==
  /\ call' = <<"=", n, m>>
  /\ Set(n, IF m = n THEN num[n] ELSE Assign(num[n], num[m]))

DoAssignDigit(n, d) ==
  call' = <<"=digit", n, d>> /\ Set(n, AssignDigit(num[n], d))

DoAdd(n, m) == call' = <<"+=", n, m>> /\ Set(n, AddEq(num[n], num[m]))
DoSubtract(n, m) == call' = <<"-=", n, m>> /\ Set(n, SubEq(num[n], num[m]))

DoMultiply(n, m) ==
  /\ num[n].neg # num[m].neg /\ (IsZero(num[n]) \/ IsZero(num[m]))
       => "MulZero" \in Corners
  /\ call' = <<"*=", n, m>>
  /\ Set(n, Mul(num[n], num[m]))

\* Every caller of *= (digit_t) passes a digit, which is below DigitRadix.
DoMultiplyDigit(n, d) ==
  call' = <<"*=digit", n, d>> /\ Set(n, MulDigit(num[n], d))

DoLoad(n, bytes, preZero) ==
  /\ call' = <<"loadBytes", n, bytes, preZero>>
  /\ \E x \in LoadBytes(num[n], bytes, preZero) :
       /\ ~UsedInVector(x) => "Append" \in Corners
       /\ Set(n, x)

\* Object n is destroyed, and constructed from bytes or as a copy of m: the
\* copy constructor is the compiler's, and the copy's vector is as long as m's.
DoConstruct(n, bytes) ==
  /\ call' = <<"BigNum", n, bytes>>
  /\ \E x \in LoadBytes(BigNumDefault, bytes, TRUE) : Set(n, x)

DoCopy(n, m) == call' = <<"copy", n, m>> /\ Set(n, num[m])

\* An object whose digits in use have left its vector can still be overwritten,
\* copied, grown and given to the calls that grow it first.  The others read or
\* write behind the vector, and what happens then is not defined.
Next ==
  \E n \in Names :
    \/ DoAbs(n) \/ DoNegate(n) \/ DoZero(n) \/ DoMultiplyByTwo(n)
    \/ \E k \in Counts :
         DoGrow(n, k) \/ DoLeftDigitShift(n, k) \/ DoShiftLeft(n, k)
    \/ \E d \in 0 .. WordRadix - 1 : DoAssignDigit(n, d)
    \/ \E d \in Digit : DoMultiplyDigit(n, d)
    \/ \E bytes \in Buffers, preZero \in BOOLEAN : DoLoad(n, bytes, preZero)
    \/ \E bytes \in Buffers : DoConstruct(n, bytes)
    \/ \E m \in Names : DoCopy(n, m)
    \/ /\ UsedInVector(num[n])
       /\ \/ DoClamp(n) \/ DoDivideByTwo(n)
          \/ \E k \in Counts :
               DoMod2b(n, k) \/ DoRightDigitShift(n, k) \/ DoShiftRight(n, k)
          \/ \E m \in Names :
               /\ UsedInVector(num[m])
               /\ DoAssign(n, m) \/ DoAdd(n, m) \/ DoSubtract(n, m)
                    \/ DoMultiply(n, m)

Spec == Init /\ [][Next]_vars
-----------------------------------------------------------------------------
(***************************************************************************)
(* Correctness.                                                            *)
(***************************************************************************)
\* Every object is a sign, a count and a vector of digits below DigitRadix:
\* no carry is ever left in a digit's spare bit (DigitMask in every loop).
TypeOK == \A n \in Names : IsNumber(num[n])

\* Each integer has one form between calls: the digits in use lie in the
\* vector and the leading one is not zero, zero is not negative, and the words
\* above are clear, which the carry loops, grow-free reuse of capacity and
\* montgomery_multiply's reads above used all rely on.
Canonical ==
  \A n \in Names : /\ UsedInVector(num[n])
                   /\ ClearAboveUsed(num[n])
                   /\ LeadingNonzero(num[n])
                   /\ ZeroNonnegative(num[n])

\* The digits in use are the whole vector and the word behind it.
Overrun(x) == x.used = x.size + 1 /\ x.dig[x.size - 1] # 0

Appends == {<<"loadBytes", n, bytes, FALSE>> : n \in Names, bytes \in Buffers}

\* The calls in which an object may leave its vector: one that appends bytes to
\* it, or a copy of an object that is out of its own.
MayLeave(n) ==
  UsedInVector(num[n]) =>
    \/ call' \in Appends /\ call'[2] = n
    \/ \E m \in Names : call' = <<"copy", n, m>> /\ ~UsedInVector(num[m])

\* What is left of Canonical when the callers make every corner call: an object
\* leaves its vector in a call that appends bytes to it, and in no other, a load
\* that clears it first included, and by one word, behind a vector it has filled
\* (or it is the copy of one that did); and while it is in its vector the words
\* above used are clear, also after calls that brought it back.
Contained ==
  [][\A n \in Names : IF UsedInVector(num'[n])
                     THEN ClearAboveUsed(num'[n])
                     ELSE Overrun(num'[n]) /\ MayLeave(n)]_vars

\* The objects behave as integers: every call, at any capacity and with either
\* operand the shorter or both the same object, computes the integer result.
Integers == INSTANCE IntegerRegisters WITH
              val <- [n \in Names |-> Value(num[n])],
              Arguments <- Counts \cup 0 .. WordRadix - 1
ImplementsIntegers == Integers!Spec

\* compare, which looks at signs, lengths and then digits from the top, orders
\* any two objects as their integers.
CompareExact ==
  \A m, n \in Names :
    Compare(num[m], num[n]) =
      CASE Value(num[m]) < Value(num[n]) -> "LessThan"
        [] Value(num[m]) > Value(num[n]) -> "GreaterThan"
        [] OTHER -> "Equal"

\* The biterator visits numberBits() bits, the first of them set, and they
\* spell the magnitude: montgomery_exponentiation relies on it, also when the
\* leading digit is full and when lower digits are zero.
BitsExact ==
  \A n \in Names :
    LET bits == BitsOf(num[n])
        v[i \in 0 .. Len(bits)] == IF i = 0 THEN 0 ELSE 2 * v[i - 1] + bits[i]
    IN  /\ Len(bits) = NumberBits(num[n])
        /\ bits # <<>> => bits[1] = 1
        /\ v[Len(bits)] = Magnitude(num[n])

\* storeBytes and loadBytes are inverse: a buffer of count bytes, swizzled or
\* not, holds the magnitude modulo its size, its lowest byte at the head of the
\* last group, and numberBytes() bytes hold all of it, with no leading zero byte.
StoreLoadExact ==
  \A n \in Names :
    LET enough == NumberBytes(num[n])
        Reload(bytes) == CHOOSE x \in LoadBytes(num[n], bytes, TRUE) : TRUE
    IN  /\ \A count \in 1 .. enough + 1, group \in {1, 2} :
             count % group = 0 =>
               LET bytes == Swizzled(StoreBytes(num[n], count), group)
               IN  /\ Magnitude(Reload(Swizzled(bytes, group)))
                        = Magnitude(num[n]) % Pow2[count * ByteBits]
                   /\ bytes[count - group + 1] = Magnitude(num[n]) % Pow2[ByteBits]
                   /\ bytes \in Seq(Byte)
        /\ enough > 0 => StoreBytes(num[n], enough)[1] # 0

\* Besides construction only *=, which takes over the vector of its product,
\* gives capacity back; every other call may rely on what an earlier one grew.
NewVector == {"*=", "BigNum", "copy"}
CapacityKept ==
  [][\A n \in Names : num'[n].size >= num[n].size \/ call'[1] \in NewVector]_vars

-----------------------------------------------------------------------------
(***************************************************************************)
(* Statements of the sources and tests that some state refutes; each has a *)
(* configuration of its own, which finds the state.                        *)
(***************************************************************************)
\* negate's comment, "Only need to flip the sign for nonzero values. Otherwise
\* enforce sign is nonnegative": no zero carries a sign.  *= sets the sign of
\* the product before it knows that the product is zero.
ZeroNeverNegative == \A n \in Names : ZeroNonnegative(num[n])

\* unsignedSubtractEquals: "This routine assumes this number is equal to or
\* greater in magnitude than the right hand side".  += and -= call it when
\* compareMagnitude does not say LessThan, which is not the same thing once a
\* shifted zero has digits in use.
SubtrahendNotLarger ==
  \A m, n \in Names :
    CompareMagnitude(num[m], num[n]) # "LessThan"
      => Magnitude(num[m]) >= Magnitude(num[n])

\* The author's belief that the final clamp of unsignedSubtractEquals "can't be
\* executed": no difference has a zero leading digit.
SubtractClampIdle ==
  \A m, n \in Names :
    CompareMagnitude(num[m], num[n]) # "LessThan"
      => Clamp(SubUnclamped(num[m], num[n])) = SubUnclamped(num[m], num[n])

\* TestLoadBytesPreZero: bytes loaded without preZero follow those already
\* there.  It fails when the shift by one byte carries into the last word of
\* the vector: used is counted past the vector and clamp reads behind it.
AppendConcatenates ==
  \A n \in Names, byte \in Byte :
    \A x \in LoadBytes(num[n], <<byte>>, FALSE) :
      /\ UsedInVector(x)
      /\ Magnitude(x) = Magnitude(num[n]) * Pow2[ByteBits] + byte

\* mod2b: "Clear out the appropriate bits in the digit that is not completely
\* in/out of the modulus".  The digit it masks lies wholly outside when b is a
\* multiple of DigitBits, and outside the vector when b covers all of it.
BoundaryDigitInVector ==
  \A n \in Names, b \in Counts :
    Mod2bMasks(num[n], b) => BoundaryDigit(b) < num[n].size
=============================================================================
