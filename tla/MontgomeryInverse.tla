-------------------------- MODULE MontgomeryInverse --------------------------
(***************************************************************************)
(* One call of compute_montgomery_inverse (RsaMath.cpp): the binary        *)
(* extended Euclidean algorithm on n and the radix b, one action per turn  *)
(* of each of its loops, on the representations of BigNumRep.              *)
(***************************************************************************)
EXTENDS BigNumArith

CONSTANT Moduli   \* the integers n may hold

ASSUME ModuliAssumption == Moduli \subseteq Nat

VARIABLES pc,
          n,            \* the modulus
          u, v,         \* the numbers whose gcd is computed
          A, B, C, D,   \* the coefficients of n and b in u and in v
          inverse       \* the digit returned

vars == <<pc, n, u, v, A, B, C, D, inverse>>

One == AssignDigit(BigNumDefault, 1)

\* b = 1; b <<= DigitBits.
Radix == Shl(One, DigitBits)

IsEven(x) == IsZero(x) \/ x.dig[0] % 2 = 0
IsOdd(x)  == ~IsEven(x)

Init ==
  /\ pc = "reduce"
  /\ n \in {Represent(k) : k \in Moduli}
  /\ u = n /\ v = Radix
  /\ A = One /\ B = BigNumDefault
  /\ C = BigNumDefault /\ D = One
  /\ inverse = 0

-----------------------------------------------------------------------------
(***************************************************************************)
(* The coefficients follow a halving: when one of them is odd, b is added  *)
(* to the first and n taken from the second, which leaves their            *)
(* combination unchanged and, when n is odd, both of them even.            *)
(***************************************************************************)
\* Mutants: the halves are not clamped; only the first coefficient is tested;
\* the two numbers added and taken are swapped.
HalvedNotClamped(first, second) ==
  LET fix == IsOdd(first) \/ IsOdd(second)
  IN  <<ShrBits(IF fix THEN AddEq(first, Radix) ELSE first, 1),
        ShrBits(IF fix THEN SubEq(second, n) ELSE second, 1)>>
HalvedFirstTested(first, second) ==
  LET fix == IsOdd(first)
  IN  <<DivideByTwo(IF fix THEN AddEq(first, Radix) ELSE first),
        DivideByTwo(IF fix THEN SubEq(second, n) ELSE second)>>
HalvedSwapped(first, second) ==
  LET fix == IsOdd(first) \/ IsOdd(second)
  IN  <<DivideByTwo(IF fix THEN AddEq(first, n) ELSE first),
        DivideByTwo(IF fix THEN SubEq(second, Radix) ELSE second)>>

Halved(first, second) ==
  LET fix == IsOdd(first) \/ IsOdd(second)
  IN  <<DivideByTwo(IF fix THEN AddEq(first, Radix) ELSE first),
        DivideByTwo(IF fix THEN SubEq(second, n) ELSE second)>>

\* while( u.isEven() )
HalveU ==
  /\ pc = "reduce" /\ IsEven(u)
  /\ u' = DivideByTwo(u)
  /\ A' = Halved(A, B)[1] /\ B' = Halved(A, B)[2]
  /\ UNCHANGED <<pc, n, v, C, D, inverse>>

\* while( v.isEven() ), which runs when the first loop has ended
HalveV ==
  /\ pc = "reduce" /\ IsOdd(u) /\ IsEven(v)
  /\ v' = DivideByTwo(v)
  /\ C' = Halved(C, D)[1] /\ D' = Halved(C, D)[2]
  /\ UNCHANGED <<pc, n, u, A, B, inverse>>

\* Mutant: equal numbers take the other branch.
SubtractWhenGreater ==
  /\ pc = "reduce" /\ IsOdd(u) /\ IsOdd(v)
  /\ IF Compare(u, v) = "GreaterThan"
     THEN /\ u' = SubEq(u, v) /\ A' = SubEq(A, C) /\ B' = SubEq(B, D)
          /\ UNCHANGED <<v, C, D>>
     ELSE /\ v' = SubEq(v, u) /\ C' = SubEq(C, A) /\ D' = SubEq(D, B)
          /\ UNCHANGED <<u, A, B>>
  /\ pc' = IF IsZero(u') THEN "check" ELSE "reduce"
  /\ UNCHANGED <<n, inverse>>

\* The smaller of the two is taken from the larger; while( !u.isZero() ).
Subtract ==
  /\ pc = "reduce" /\ IsOdd(u) /\ IsOdd(v)
  /\ IF Compare(u, v) # "LessThan"
     THEN /\ u' = SubEq(u, v) /\ A' = SubEq(A, C) /\ B' = SubEq(B, D)
          /\ UNCHANGED <<v, C, D>>
     ELSE /\ v' = SubEq(v, u) /\ C' = SubEq(C, A) /\ D' = SubEq(D, B)
          /\ UNCHANGED <<u, A, B>>
  /\ pc' = IF IsZero(u') THEN "check" ELSE "reduce"
  /\ UNCHANGED <<n, inverse>>

-----------------------------------------------------------------------------
\* Mutant: the inverse itself is reduced, not its negative.
CheckNotNegated ==
  /\ pc = "check"
  /\ pc' = IF Compare(v, One) = "Equal" THEN "mod" ELSE "threw"
  /\ UNCHANGED <<n, u, v, A, B, C, D, inverse>>

\* The exception when v is not 1; otherwise C.negate().
CheckAndNegate ==
  /\ pc = "check"
  /\ IF Compare(v, One) = "Equal"
     THEN pc' = "mod" /\ C' = Negate(C)
     ELSE pc' = "threw" /\ C' = C
  /\ UNCHANGED <<n, u, v, A, B, D, inverse>>

\* mod( b ).getDigit( 0 ).  b is a one and a zero digit, so the division of a C
\* of at most two digits is the loop of divide that finds the leading quotient
\* digit: b is taken from C while it fits, and added when C is negative.
Reduce ==
  /\ pc = "mod"
  /\ IF CompareMagnitude(C, Radix) # "LessThan"
     THEN /\ LET rest == SubEq(Abs(C), Radix)
             IN  C' = [rest EXCEPT !.neg = C.neg /\ ~IsZero(rest)]
          /\ UNCHANGED <<pc, inverse>>
     ELSE /\ pc' = "done"
          /\ C' = IF C.neg THEN AddEq(C, Radix) ELSE C
          /\ inverse' = C'.dig[0]
  /\ UNCHANGED <<n, u, v, A, B, D>>

Step == HalveU \/ HalveV \/ Subtract \/ CheckAndNegate \/ Reduce

Stopped == pc \in {"done", "threw"} /\ UNCHANGED vars

Next == Step \/ Stopped

\* The call is made by a running thread: it takes a step whenever it can.
Spec == Init /\ [][Next]_vars /\ WF_vars(Step)

-----------------------------------------------------------------------------
(***************************************************************************)
(* Correctness, for the odd n that an RSA modulus is.                      *)
(***************************************************************************)
Odd == Value(n) % 2 = 1

\* The numbers stay in the one form that isZero, isEven and compare, which end
\* the loops, can read.
TypeOK ==
  /\ pc \in {"reduce", "check", "mod", "done", "threw"}
  /\ \A x \in {n, u, v, A, B, C, D} : IsNumber(x) /\ InForm(x)
  /\ inverse \in Digit

\* u and v stay the combinations of n and b that their coefficients say: the
\* halving of a coefficient never drops a one, and signs are followed through
\* every subtraction of a larger or a negative number.
Bezout ==
  Odd /\ pc \in {"reduce", "check"} =>
    /\ Value(A) * Value(n) + Value(B) * DigitRadix = Value(u)
    /\ Value(C) * Value(n) + Value(D) * DigitRadix = Value(v)

\* b is a power of two, so v is halved down to 1 before the first subtraction
\* and stays 1, with C in one digit.  Hence the exception is never thrown, and
\* the reduction at the end, for which "it may not be reduced mod b", never
\* divides: a quotient digit estimated from the zero digit of b + c, c < b,
\* would be wrong (BigNumDivide).
VReachesOneFirst ==
  pc # "reduce" \/ (IsOdd(u) /\ IsOdd(v)) =>
    /\ Compare(v, One) = "Equal"
    /\ CompareMagnitude(C, Radix) = "LessThan"

\* N' = -N^-1 mod b, in one digit.
InverseExact ==
  pc = "done" /\ Odd => /\ inverse \in Digit
                        /\ (inverse * Value(n) + 1) % DigitRadix = 0

\* Every call but that of n = 0 comes to its return: both loops end, and the
\* exception is not thrown, for even n either.
NonzeroReturns == ~IsZero(n) ~> pc = "done"

-----------------------------------------------------------------------------
(***************************************************************************)
(* Statements of the comment on the exception, which the code refutes.     *)
(***************************************************************************)
\* "If v is not 1, then we somehow picked a bad RSA modulus, because it means
\* that n and b are NOT coprime": only an n coprime to b gets an inverse.
OnlyCoprimeReturns == pc = "done" => Odd

\* The same for n = 0: it is rejected.
CallEnds == <>(pc \in {"done", "threw"})
=============================================================================
