---------------------------- MODULE BigNumDivide ----------------------------
(***************************************************************************)
(* One call of operator/= or mod: BigNum::divide (BigNum.cpp) run step by  *)
(* step, one action per turn of each of its loops, on every dividend and   *)
(* divisor of a small instance.                                            *)
(***************************************************************************)
EXTENDS BigNumArith

CONSTANTS Dividends,  \* the integers *this may hold
          Divisors,   \* the integers rhs may hold
          Operators   \* which of "/=" and "mod" is called

ASSUME OperandsAssumption == Dividends \subseteq Int /\ Divisors \subseteq Int
ASSUME OperatorsAssumption == Operators \subseteq {"/=", "mod"}

VARIABLES op,         \* the operator called
          pc,         \* where in the call
          this, rhs,  \* the operands
          q, r,       \* the results of divide, objects of its caller
          x, y,       \* the running remainder and the divisor, normalised
          normShift,  \* how far both were shifted
          n, t,       \* index of the leading digit of x and of y
          i,          \* iDigit
          zeroDigit   \* history: an estimate was made from a zero digit of x

vars == <<op, pc, this, rhs, q, r, x, y, normShift, n, t, i, zeroDigit>>

Init ==
  /\ op \in Operators
  /\ pc = "call"
  /\ this \in {Represent(v) : v \in Dividends}
  /\ rhs \in {Represent(v) : v \in Divisors}
  /\ q = BigNumDefault /\ r = BigNumDefault
  /\ x = BigNumDefault /\ y = BigNumDefault
  /\ normShift = 0 /\ n = 0 /\ t = 0 /\ i = 0
  /\ zeroDigit = FALSE

Goto(from, to) == pc = from /\ pc' = to

-----------------------------------------------------------------------------
\* Division by zero throws before anything is changed.
Throw ==
  /\ Goto("call", "threw")
  /\ IsZero(rhs)
  /\ UNCHANGED <<op, this, rhs, q, r, x, y, normShift, n, t, i, zeroDigit>>

DividendSmaller ==
  /\ Goto("call", "return")
  /\ ~IsZero(rhs)
  /\ CompareMagnitude(this, rhs) = "LessThan"
  /\ r' = Assign(r, this)
  /\ q' = Zero(q)
  /\ UNCHANGED <<op, this, rhs, x, y, normShift, n, t, i, zeroDigit>>

\* The shift the code computes, "numberBits() & DigitMask" and all.
NormShift(divisor) ==
  LET bits == NumberBits(divisor) % DigitRadix
  IN  IF bits < DigitBits - 1 THEN DigitBits - 1 - bits ELSE 0

Normalise(v, s) == IF s = 0 THEN Abs(v) ELSE Shl(Abs(v), s)

Setup ==
  /\ Goto("call", "leading")
  /\ ~IsZero(rhs)
  /\ CompareMagnitude(this, rhs) # "LessThan"
  /\ normShift' = NormShift(rhs)
  /\ q' = [Grow(q, this.used + 2) EXCEPT !.used = this.used + 2]
  /\ x' = Normalise(this, normShift')
  /\ n' = x'.used - 1
  /\ t' = Normalise(rhs, normShift').used - 1
  /\ y' = LeftDigitShift(Normalise(rhs, normShift'), n' - t')
  /\ UNCHANGED <<op, this, rhs, r, i, zeroDigit>>

\* The leading quotient digit: subtract the aligned divisor while it fits.
SubtractLeading ==
  /\ Goto("leading", "leading")
  /\ Compare(x, y) # "LessThan"
  /\ q' = [q EXCEPT !.dig[n - t] = (@ + 1) % WordRadix]
  /\ x' = SubEq(x, y)
  /\ UNCHANGED <<op, this, rhs, r, y, normShift, n, t, i, zeroDigit>>

LeadingFound ==
  /\ Goto("leading", "digit")
  /\ Compare(x, y) = "LessThan"
  /\ y' = RightDigitShift(y, n - t)
  /\ i' = n
  /\ UNCHANGED <<op, this, rhs, q, r, x, normShift, n, t, zeroDigit>>

-----------------------------------------------------------------------------
(***************************************************************************)
(* The remaining digits.  The digit being computed is q.dig[i - t - 1].    *)
(***************************************************************************)
Qhat == q.dig[i - t - 1]
\* Mutant: the quotient digit is not masked.
WithQhatUnmasked(d) == [q EXCEPT !.dig[i - t - 1] = d]

WithQhat(d) == [q EXCEPT !.dig[i - t - 1] = d % DigitRadix]

SkipDigit ==
  /\ Goto("digit", "digit")
  /\ i > t /\ i > x.used
  /\ i' = i - 1
  /\ UNCHANGED <<op, this, rhs, q, r, x, y, normShift, n, t, zeroDigit>>

\* The estimate from two digits of x and one of y.  y has no digit i: the
\* comparison with it holds exactly when digit i of x is zero.
FirstEstimate ==
  LET word == (x.dig[i] * DigitRadix + x.dig[i - 1]) \div y.dig[t]
  IN  IF x.dig[i] = y.dig[i] \/ word > DigitRadix - 1 THEN DigitRadix - 1
      ELSE word

Estimate ==
  /\ Goto("digit", "correct")
  /\ i > t /\ i <= x.used
  /\ q' = WithQhat(FirstEstimate + 1)
  /\ zeroDigit' = (zeroDigit \/ x.dig[i] = y.dig[i])
  /\ UNCHANGED <<op, this, rhs, r, x, y, normShift, n, t, i>>

\* temp1: the two leading digits of y times the estimate; temp2: the three
\* digits of x it is compared with, all three counted as used.
\* Mutant: only the leading digit of y is tested.
Temp1OneDigit(qhat) ==
  MulDigit([BigNumDefault EXCEPT !.used = 2, !.dig[1] = y.dig[t]], qhat)

Temp1(qhat) ==
  MulDigit([BigNumDefault EXCEPT !.used = 2,
                                 !.dig[0] = IF t < 1 THEN 0 ELSE y.dig[t - 1],
                                 !.dig[1] = y.dig[t]],
           qhat)
Temp2 ==
  [BigNumDefault EXCEPT !.used = 3,
                        !.dig[0] = IF i < 2 THEN 0 ELSE x.dig[i - 2],
                        !.dig[1] = x.dig[i - 1],
                        !.dig[2] = x.dig[i]]

\* Mutant: temp1 is computed once, before the loop.
CorrectTestedOnce ==
  LET tooLarge == CompareMagnitude(Temp1(FirstEstimate), Temp2) = "GreaterThan"
  IN  /\ Goto("correct", IF tooLarge THEN "correct" ELSE "subtract")
      /\ q' = WithQhat(Qhat - 1)
      /\ UNCHANGED <<op, this, rhs, r, x, y, normShift, n, t, i, zeroDigit>>

\* One turn of the do-while: lower the estimate, and test it.
Correct ==
  LET qhat == (Qhat - 1) % DigitRadix
      tooLarge == CompareMagnitude(Temp1(qhat), Temp2) = "GreaterThan"
  IN  /\ Goto("correct", IF tooLarge THEN "correct" ELSE "subtract")
      /\ q' = WithQhat(qhat)
      /\ UNCHANGED <<op, this, rhs, r, x, y, normShift, n, t, i, zeroDigit>>

\* Mutant: the divisor is added back, the quotient digit stays.
SubtractMultipleDigitKept ==
  LET rest == SubEq(x, LeftDigitShift(MulDigit(y, Qhat), i - t - 1))
  IN  /\ Goto("subtract", "digit")
      /\ x' = IF rest.neg THEN AddEq(rest, LeftDigitShift(y, i - t - 1)) ELSE rest
      /\ i' = i - 1
      /\ UNCHANGED <<op, this, rhs, q, r, y, normShift, n, t, zeroDigit>>

\* Mutant: nothing is added back.
SubtractMultipleOnly ==
  /\ Goto("subtract", "digit")
  /\ x' = SubEq(x, LeftDigitShift(MulDigit(y, Qhat), i - t - 1))
  /\ i' = i - 1
  /\ UNCHANGED <<op, this, rhs, q, r, y, normShift, n, t, zeroDigit>>

\* Subtract the multiple of the divisor; when that was one too many, add one
\* divisor back.
SubtractMultiple ==
  LET multiple == LeftDigitShift(MulDigit(y, Qhat), i - t - 1)
      rest == SubEq(x, multiple)
  IN  /\ Goto("subtract", "digit")
      /\ IF rest.neg
         THEN /\ x' = AddEq(rest, LeftDigitShift(y, i - t - 1))
              /\ q' = WithQhat(Qhat - 1)
         ELSE x' = rest /\ q' = q
      /\ i' = i - 1
      /\ UNCHANGED <<op, this, rhs, r, y, normShift, n, t, zeroDigit>>

-----------------------------------------------------------------------------
\* Mutant: the remainder is not shifted back.
FinishNotDenormalised ==
  /\ Goto("digit", "return")
  /\ i <= t
  /\ q' = [Clamp(q) EXCEPT !.neg = (this.neg # rhs.neg)]
  /\ r' = Assign(r, [x EXCEPT !.neg = x.used # 0 /\ this.neg])
  /\ UNCHANGED <<op, this, rhs, x, y, normShift, n, t, i, zeroDigit>>

\* Clamp the quotient, set the signs, undo the normalisation.
Finish ==
  /\ Goto("digit", "return")
  /\ i <= t
  /\ q' = [Clamp(q) EXCEPT !.neg = (this.neg # rhs.neg)]
  /\ r' = Assign(r, Shr([x EXCEPT !.neg = x.used # 0 /\ this.neg], normShift))
  /\ UNCHANGED <<op, this, rhs, x, y, normShift, n, t, i, zeroDigit>>

\* Mutant: mod returns the remainder of the truncated division.
ReturnNotReduced ==
  /\ Goto("return", "done")
  /\ this' = Assign(this, IF op = "mod" THEN r ELSE q)
  /\ UNCHANGED <<op, rhs, q, r, x, y, normShift, n, t, i, zeroDigit>>

\* operator/= keeps the quotient, mod the remainder, made nonnegative by adding
\* the modulus to it.
Return ==
  /\ Goto("return", "done")
  /\ LET reduced == IF r.neg THEN AddEq(r, rhs) ELSE r
     IN  this' = Assign(this, IF op = "mod" THEN reduced ELSE q)
  /\ UNCHANGED <<op, rhs, q, r, x, y, normShift, n, t, i, zeroDigit>>

Running == pc \notin {"done", "threw"}

Stopped == ~Running /\ UNCHANGED vars

Step ==
  \/ Throw \/ DividendSmaller \/ Setup
  \/ SubtractLeading \/ LeadingFound
  \/ SkipDigit \/ Estimate \/ Correct \/ SubtractMultiple
  \/ Finish \/ Return

Next == Step \/ Stopped

(***************************************************************************)
(* The call is made by a running thread: it takes a step whenever it can.  *)
(* This is WF_vars(Step) with ENABLED <<Step>>_vars written out as Running *)
(* (TLC evaluates ENABLED of these steps very slowly); that a running call *)
(* can always take a step is what the deadlock check shows, and each step  *)
(* changes pc, i or a digit of q.                                          *)
(***************************************************************************)
Fairness == []<>~Running \/ []<><<Step>>_vars

Spec == Init /\ [][Next]_vars /\ Fairness

-----------------------------------------------------------------------------
(***************************************************************************)
(* Correctness.  The code compares x.m_digits[iDigit] with                 *)
(* y.m_digits[iDigit], where the algorithm it cites compares it with       *)
(* y.m_digits[t]; when digit iDigit of x is zero the estimate is then      *)
(* DigitRadix - 1 whatever the operands.  zeroDigit records that, and the  *)
(* properties below say what holds of every call in which it is false.     *)
(***************************************************************************)
TypeOK ==
  /\ op \in Operators
  /\ pc \in {"call", "threw", "leading", "digit", "correct", "subtract",
             "return", "done"}
  /\ \A v \in {this, rhs, q, r, x, y} : IsNumber(v) /\ v.used <= v.size
  /\ {normShift, n, t, i} \subseteq Nat
  /\ zeroDigit \in BOOLEAN

Scaled(v) == Magnitude(v) * Pow2[normShift]

\* Whatever the estimates were, quotient times divisor plus running remainder
\* is the dividend at the head of each loop: the subtraction, the add-back and
\* the quotient digit always move together.
LoopIdentity ==
  pc \in {"leading", "digit"} =>
    Magnitude(q) * Scaled(rhs) + Value(x) = Scaled(this)

\* At the head of the digit loop the remainder is less than one unit of the
\* quotient digit last computed.
RemainderBelowDivisor ==
  pc = "digit" /\ ~zeroDigit =>
    /\ ~x.neg
    /\ Magnitude(x) < Scaled(rhs) * Pow2[DigitBits * (i - t)]

\* The do-while stops at the quotient digit or at one more, so that the single
\* add-back that follows is enough; the divisor need not be normalised for it.
EstimateAtMostOneTooLarge ==
  pc = "subtract" /\ ~zeroDigit =>
    LET unit == Scaled(rhs) * Pow2[DigitBits * (i - t - 1)]
    IN  (Magnitude(x) \div unit) \in {Qhat, Qhat - 1}

\* Truncated division of integers.
Quot(a, b) == (IF (a < 0) # (b < 0) THEN -1 ELSE 1)
                * ((IF a < 0 THEN -a ELSE a) \div (IF b < 0 THEN -b ELSE b))
Rem(a, b) == a - b * Quot(a, b)

DivideExact ==
  pc = "return" => /\ Value(q) = Quot(Value(this), Value(rhs))
                   /\ Value(r) = Rem(Value(this), Value(rhs))

\* "Quotient is computed in q, and remainder is in x": true of the calls that
\* never estimate from a zero digit, with both signs of both operands, and the
\* results are again in the one form the other operations expect.
DivideExactUnlessZeroDigit ==
  ~zeroDigit => /\ DivideExact
                /\ pc = "return" =>
                     \A v \in {q, r} :
                       /\ v.used > 0 => v.dig[v.used - 1] # 0
                       /\ v.used = 0 => ~v.neg
                       /\ \A j \in v.used .. v.size - 1 : v.dig[j] = 0

\* mod by a positive modulus gives the least nonnegative residue, of a negative
\* number too: the caller in compute_montgomery_inverse relies on it.
ModReduces ==
  [][pc' = "done" /\ op = "mod" /\ ~zeroDigit /\ ~rhs.neg
       => Value(this') = Value(this) % Value(rhs)]_vars

\* Every call returns: the divisor is subtracted, the estimate lowered and the
\* digit index counted down only so often, also from a wrong estimate.
Returns == <>~Running

\* The comment on the normalisation: shift the divisor "to have its most
\* significant bit in the DigitBits position of its leading digit".
DivisorNormalised ==
  pc = "leading" => y.dig[y.used - 1] >= Pow2[DigitBits - 1]
=============================================================================
