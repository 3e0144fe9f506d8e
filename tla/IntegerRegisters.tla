-------------------------- MODULE IntegerRegisters --------------------------
(***************************************************************************)
(* What BigNum.h promises: named objects that hold integers, and           *)
(* operations that compute on the integers.  Nothing here knows of digits, *)
(* carries, capacities or signs of zero, except where the interface itself *)
(* counts in digits (leftDigitShift, rightDigitShift, operator=(digit_t)). *)
(*                                                                         *)
(* "call" is the last call made, with its arguments: the interface that    *)
(* this specification shares with the one that implements it.              *)
(***************************************************************************)
EXTENDS Powers, Sequences

CONSTANTS Names,      \* the objects
          DigitBits,  \* bits per digit
          ByteBits,   \* bits per byte
          Arguments,  \* the natural numbers passed to operations
          Buffers     \* the byte sequences loaded

VARIABLES val,        \* the integer each object holds
          call

vars == <<val, call>>

Init ==
  /\ val = [n \in Names |-> 0]
  /\ call = <<"construct">>

Sign(v) == IF v < 0 THEN -1 ELSE 1
Magnitude(v) == Sign(v) * v
\* Division and remainder of magnitudes: the operations truncate towards zero.
Quotient(v, d)  == Sign(v) * (Magnitude(v) \div d)
Remainder(v, d) == Sign(v) * (Magnitude(v) % d)

\* The integer a buffer denotes, its first byte the most significant.
BytesValue(bytes) ==
  LET v[i \in 0 .. Len(bytes)] ==
        IF i = 0 THEN 0 ELSE v[i - 1] * Pow2[ByteBits] + bytes[i]
  IN  v[Len(bytes)]

Set(n, v) == val' = [val EXCEPT ![n] = v]

Abs(n)    == call' = <<"abs", n>>    /\ Set(n, Magnitude(val[n]))
Negate(n) == call' = <<"negate", n>> /\ Set(n, -val[n])
Clear(n)  == call' = <<"zero", n>>   /\ Set(n, 0)
Tidy(n)   == call' = <<"clamp", n>>  /\ UNCHANGED val
Reserve(n, c) == call' = <<"grow", n, c>> /\ UNCHANGED val

MultiplyByTwo(n) == call' = <<"multiplyByTwo", n>> /\ Set(n, 2 * val[n])
DivideByTwo(n)   == call' = <<"divideByTwo", n>> /\ Set(n, Quotient(val[n], 2))

LeftDigitShift(n, k) ==
  call' = <<"leftDigitShift", n, k>> /\ Set(n, val[n] * Pow2[k * DigitBits])
RightDigitShift(n, k) ==
  call' = <<"rightDigitShift", n, k>>
  /\ Set(n, Quotient(val[n], Pow2[k * DigitBits]))
ShiftLeft(n, k) == call' = <<"<<=", n, k>> /\ Set(n, val[n] * Pow2[k])
ShiftRight(n, k) ==
  call' = <<">>=", n, k>> /\ Set(n, Quotient(val[n], Pow2[k]))
Mod2b(n, b) == call' = <<"mod2b", n, b>> /\ Set(n, Remainder(val[n], Pow2[b]))

Assign(n, m) == call' = <<"=", n, m>> /\ Set(n, val[m])
AssignDigit(n, d) ==
  call' = <<"=digit", n, d>> /\ Set(n, d % Pow2[DigitBits])
Add(n, m) == call' = <<"+=", n, m>> /\ Set(n, val[n] + val[m])
Subtract(n, m) == call' = <<"-=", n, m>> /\ Set(n, val[n] - val[m])
Multiply(n, m) == call' = <<"*=", n, m>> /\ Set(n, val[n] * val[m])
MultiplyDigit(n, d) == call' = <<"*=digit", n, d>> /\ Set(n, val[n] * d)

Load(n, bytes, preZero) ==
  LET old == IF preZero THEN 0 ELSE val[n]
  IN  /\ call' = <<"loadBytes", n, bytes, preZero>>
      /\ Set(n, Sign(old) * (Magnitude(old) * Pow2[ByteBits * Len(bytes)]
                             + BytesValue(bytes)))

Construct(n, bytes) == call' = <<"BigNum", n, bytes>> /\ Set(n, BytesValue(bytes))
Copy(n, m) == call' = <<"copy", n, m>> /\ Set(n, val[m])

Next ==
  \E n \in Names :
    \/ Abs(n) \/ Negate(n) \/ Clear(n) \/ Tidy(n)
    \/ MultiplyByTwo(n) \/ DivideByTwo(n)
    \/ \E k \in Arguments :
         \/ Reserve(n, k)
         \/ LeftDigitShift(n, k) \/ RightDigitShift(n, k)
         \/ ShiftLeft(n, k) \/ ShiftRight(n, k) \/ Mod2b(n, k)
         \/ AssignDigit(n, k) \/ MultiplyDigit(n, k)
    \/ \E m \in Names :
         \/ Assign(n, m) \/ Copy(n, m)
         \/ Add(n, m) \/ Subtract(n, m) \/ Multiply(n, m)
    \/ \E bytes \in Buffers, preZero \in BOOLEAN :
         Load(n, bytes, preZero)
    \/ \E bytes \in Buffers : Construct(n, bytes)

Spec == Init /\ [][Next]_vars
=============================================================================
