----------------------------- MODULE Montgomery -----------------------------
(***************************************************************************)
(* One call of montgomery_exponentiation (RsaMath.cpp), with one action    *)
(* per turn of the loop of each montgomery_multiply it calls, on the       *)
(* representations of BigNumRep.                                           *)
(***************************************************************************)
EXTENDS BigNumArith

CONSTANTS Bases, Exponents, Moduli   \* the integers x, e and m may hold

ASSUME BasesAssumption == Bases \subseteq Nat
ASSUME ExponentsAssumption == Exponents \subseteq Nat
ASSUME OddModuliAssumption == Moduli \subseteq {k \in Nat : k % 2 = 1}

VARIABLES x, e, m, mInv, r2,  \* the arguments; r is the first value of a
          xBar, a, it,        \* locals: x in Montgomery form, the power, the bits
          call,               \* the multiplication being executed
          acc, i,             \* the a and the iDigit of montgomery_multiply
          result              \* the number returned, after the return

vars == <<x, e, m, mInv, r2, xBar, a, it, call, acc, i, result>>

One == AssignDigit(BigNumDefault, 1)

(***************************************************************************)
(* What the callers pass (BigNum.Tests.cpp): with R the power of the radix *)
(* that has as many digits as m, R mod m and its square mod m, and the     *)
(* inverse that compute_montgomery_inverse returns (MontgomeryInverse).    *)
(***************************************************************************)
R(modulus) == Pow2[DigitBits * modulus.used]

SetupR(modulus) ==
  Assign(LeftDigitShift(One, modulus.used),
         Represent(R(modulus) % Value(modulus)))

SetupInverse(modulus) ==
  CHOOSE d \in Digit : (d * Value(modulus) + 1) % DigitRadix = 0

\* The first multiplication of the loop, or the one after it.
LoopHead(bits) == IF HasBits(bits) THEN "square" ELSE "last"

Init ==
  /\ x \in {Represent(k) : k \in Bases}
  /\ e \in {Represent(k) : k \in Exponents}
  /\ m \in {Represent(k) : k \in Moduli}
  /\ x.used <= m.used
  /\ mInv = SetupInverse(m)
  /\ a = SetupR(m)
  /\ r2 = Represent((Value(a) * Value(a)) % Value(m))
  /\ it = Biterator(e)
  /\ call = "xBar" /\ acc = New(m.used) /\ i = 0
  /\ xBar = BigNumDefault /\ result = BigNumDefault

-----------------------------------------------------------------------------
(***************************************************************************)
(* montgomery_multiply( First, Second, m, mInv ).                          *)
(***************************************************************************)
First  == IF call = "xBar" THEN x ELSE a
\* Mutant: the base is multiplied in without its conversion.
SecondNotConverted ==
  CASE call = "xBar"   -> r2
    [] call = "square" -> a
    [] call = "times"  -> x
    [] OTHER           -> One

Second == CASE call = "xBar"   -> r2
            [] call = "square" -> a
            [] call = "times"  -> xBar
            [] OTHER           -> One

\* getDigit( k ): behind the vector is some word of memory.
GetDigit(v, k) == IF k < v.size THEN {v.dig[k]} ELSE 0 .. WordRadix - 1

\* Mutant: only the accumulator's digit is looked at.
UiOfAccumulator(xi) == (acc.dig[0] * mInv) % DigitRadix

\* The multiple of m that makes the sum divisible by the radix.
Ui(xi) == (((acc.dig[0] + xi * Second.dig[0]) % DigitRadix) * mInv) % DigitRadix

Turn ==
  /\ call # "returned" /\ i < m.used
  /\ \E xi \in GetDigit(First, i) :
       acc' = RightDigitShift(
                AddEq(acc, AddEq(MulDigit(Second, xi), MulDigit(m, Ui(xi)))), 1)
  /\ i' = i + 1
  /\ UNCHANGED <<x, e, m, mInv, r2, xBar, a, it, call, result>>

\* Mutant: nothing is subtracted.
ProductNotReduced == acc

Product == IF Compare(acc, m) # "LessThan" THEN SubEq(acc, m) ELSE acc

\* The multiplication has returned, and the next one begins.
Returned(from, to) ==
  /\ call = from /\ i = m.used
  /\ call' = to
  /\ acc' = New(m.used) /\ i' = 0

-----------------------------------------------------------------------------
XBarReady ==
  /\ Returned("xBar", LoopHead(it))
  /\ xBar' = Product
  /\ UNCHANGED <<x, e, m, mInv, r2, a, it, result>>

\* The next bit of the exponent is read after the squaring.
SquareReady ==
  /\ it' = NextBit(it)
  /\ Returned("square", IF BitAt(e, it) # 0 THEN "times" ELSE LoopHead(it'))
  /\ a' = Assign(a, Product)
  /\ UNCHANGED <<x, e, m, mInv, r2, xBar, result>>

TimesReady ==
  /\ Returned("times", LoopHead(it))
  /\ a' = Assign(a, Product)
  /\ UNCHANGED <<x, e, m, mInv, r2, xBar, it, result>>

\* Mutant: the power is returned in Montgomery form.
LastNotConverted ==
  /\ Returned("last", "returned")
  /\ result' = a
  /\ UNCHANGED <<x, e, m, mInv, r2, xBar, a, it>>

LastReady ==
  /\ Returned("last", "returned")
  /\ result' = Product
  /\ UNCHANGED <<x, e, m, mInv, r2, xBar, a, it>>

Step == Turn \/ XBarReady \/ SquareReady \/ TimesReady \/ LastReady

Stopped == call = "returned" /\ UNCHANGED vars

Next == Step \/ Stopped

(***************************************************************************)
(* The call is made by a running thread: it takes a step whenever it can.  *)
(* Advance is what every Step does to the program counter, and is enabled  *)
(* exactly when Step is (a multiplication of any operands ends); stated of *)
(* it, weak fairness costs TLC no evaluation of ENABLED of the arithmetic. *)
(***************************************************************************)
Advance ==
  /\ call # "returned"
  /\ IF i < m.used
     THEN i' = i + 1 /\ call' = call
     ELSE i' = 0 /\ call' \in {"square", "times", "last", "returned"}

Spec == Init /\ [][Next]_vars /\ WF_<<call, i>>(Advance)

-----------------------------------------------------------------------------
(***************************************************************************)
(* Correctness.                                                            *)
(***************************************************************************)
TypeOK ==
  /\ \A v \in {x, e, m, r2, xBar, a, acc, result} : IsNumber(v) /\ InForm(v)
  /\ mInv \in Digit
  /\ call \in {"xBar", "square", "times", "last", "returned"}
  /\ i \in 0 .. m.used

\* After i turns acc is the product of the first i digits of the first operand
\* and the second, divided by b^i modulo m: each turn's ui makes the sum end in
\* a zero digit, so that the right shift drops nothing.
LoopCongruence ==
  LET b == Pow2[DigitBits * i]
  IN  (Value(acc) * b - (Value(First) % b) * Value(Second)) % Value(m) = 0

\* acc stays below m plus the second operand, so that the one conditional
\* subtraction reduces the product, also for an x that is not reduced: every
\* product is below m, as the next multiplication by it needs.
ProductsReduced ==
  /\ Value(acc) < Value(m) + Value(Second)
  /\ \A v \in {xBar, a, result} : Value(v) < Value(m)

\* The integer whose Montgomery form v is.
FromMontgomery(v) ==
  LET M == Value(m)
      RInverse == CHOOSE k \in 0 .. M - 1 : (k * R(m)) % M = 1 % M
  IN  (Value(v) * RInverse) % M

\* In Montgomery form the call squares and multiplies, once for each bit of
\* the exponent that the iterator yields, and returns the power it found.
Power == INSTANCE SquareAndMultiply WITH
           base <- Value(x), exponent <- Value(e), modulus <- Value(m),
           power <- FromMontgomery(a),
           left <- it.digit * DigitBits + it.bits,
           times <- call = "times",
           result <- IF call = "returned" THEN {Value(result)} ELSE {}
ImplementsSquareAndMultiply == Power!Spec

\* "Based on HAC algorithm 14.94": at each bit the power is that of the bits read
\* so far, and the number returned is x^e mod m.
ResultExact == Power!PowerOfPrefix /\ Power!ResultExact

\* Every call returns.
Returns == <>(call = "returned")
=============================================================================
