------------------------- MODULE SquareAndMultiply -------------------------
(***************************************************************************)
(* What montgomery_exponentiation computes, without digits and without     *)
(* Montgomery's representation: a power modulo m, by reading the exponent  *)
(* from its leading bit, squaring for every bit and multiplying by the     *)
(* base for every bit that is set.                                         *)
(***************************************************************************)
EXTENDS Powers

CONSTANTS Bases, Exponents, Moduli   \* naturals, the moduli positive

VARIABLES base, exponent, modulus,   \* what is computed
          power,     \* the power of base for the bits read so far
          left,      \* how many bits of exponent are still to be read
          times,     \* the last bit read was 1 and power lacks its factor
          result     \* the result, or {} before the return

vars == <<base, exponent, modulus, power, left, times, result>>

\* The number of bits of k.
Bits(k) == CHOOSE n \in 0 .. k : k < Pow2[n] /\ (n > 0 => Pow2[n - 1] <= k)

Init ==
  /\ base \in Bases /\ exponent \in Exponents /\ modulus \in Moduli
  /\ power = 1 % modulus
  /\ left = Bits(exponent)
  /\ times = FALSE
  /\ result = {}

Square ==
  /\ left > 0 /\ ~times
  /\ power' = (power * power) % modulus
  /\ left' = left - 1
  /\ times' = ((exponent \div Pow2[left']) % 2 = 1)
  /\ UNCHANGED <<base, exponent, modulus, result>>

Times ==
  /\ times
  /\ power' = (power * base) % modulus
  /\ times' = FALSE
  /\ UNCHANGED <<base, exponent, modulus, left, result>>

Return ==
  /\ left = 0 /\ ~times /\ result = {}
  /\ result' = {power}
  /\ UNCHANGED <<base, exponent, modulus, power, left, times>>

Next == Square \/ Times \/ Return

Spec == Init /\ [][Next]_vars

-----------------------------------------------------------------------------
Pow(b, m) == LET p[k \in Nat] == IF k = 0 THEN 1 % m ELSE (p[k - 1] * b) % m
             IN  p

\* The power is that of the part of the exponent that has been read.
PowerOfPrefix ==
  LET read == exponent \div Pow2[left]
  IN  power = Pow(base, modulus)[IF times THEN read - 1 ELSE read]

\* The one result returned is base^exponent mod modulus.
ResultExact == result \in {{}, {Pow(base, modulus)[exponent]}}
=============================================================================
