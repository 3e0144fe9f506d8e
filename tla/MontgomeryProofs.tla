--------------------------- MODULE MontgomeryProofs ---------------------------
(***************************************************************************)
(* Theorems about montgomery_exponentiation, for any radix, any bases and  *)
(* exponents and any odd moduli: the loop of each montgomery_multiply is   *)
(* congruent, its products are reduced, the power returned is exact, and   *)
(* the calls implement SquareAndMultiply.                                  *)
(***************************************************************************)
EXTENDS Montgomery, BigNumArithProofs, TLAPS

-----------------------------------------------------------------------------
(***************************************************************************)
(* Montgomery's multiplication on integers: radix Q, modulus M, second     *)
(* operand S, accumulator A.                                               *)
(***************************************************************************)
(* The sum of a turn, with every remainder taken written out. *)
LEMMA TurnSum ==
  ASSUME NEW Q \in Int, NEW A \in Int, NEW S \in Int, NEW M \in Int, NEW d \in Int,
         NEW w \in Int, NEW A0 \in Int, NEW j \in Int, NEW S0 \in Int, NEW s \in Int,
         NEW t \in Int, NEW c \in Int, NEW r \in Int, NEW g \in Int, NEW h \in Int,
         A = A0 + Q * j, S = S0 + Q * s, A0 + d * S0 = t + Q * c,
         t * w = r + Q * g, w * M + 1 = Q * h
  PROVE  A + (d * S + r * M) = Q * ((c + j + d * s) + (t * h - g * M))
<1>1. r * M = Q * (t * h) - t - Q * (g * M)
  <2>1. (t * w) * M = r * M + Q * (g * M)
    <3>1. (r + Q * g) * M = r * M + Q * (g * M)
      OBVIOUS
    <3>2. QED
      BY <3>1
  <2>2. (t * w) * M + t = Q * (t * h)
    <3>1. t * (w * M + 1) = (t * w) * M + t
      OBVIOUS
    <3>2. t * (Q * h) = Q * (t * h)
      OBVIOUS
    <3>3. QED
      BY <3>1, <3>2
  <2>3. PICK y1 \in Int, y2 \in Int, y3 \in Int, y4 \in Int :
          y1 = (t * w) * M /\ y2 = r * M /\ y3 = Q * (g * M) /\ y4 = Q * (t * h)
    OBVIOUS
  <2>4. y1 = y2 + y3 /\ y1 + t = y4
    BY <2>1, <2>2, <2>3
  <2>5. y2 = y4 - t - y3
    BY <2>4
  <2>6. QED
    BY <2>3, <2>5
<1>2. d * S = d * S0 + Q * (d * s)
  <2>1. d * (S0 + Q * s) = d * S0 + Q * (d * s)
    OBVIOUS
  <2>2. QED
    BY <2>1
<1>3. PICK y1 \in Int, y2 \in Int, y3 \in Int, y4 \in Int :
        y1 = d * S0 /\ y2 = d * s /\ y3 = t * h /\ y4 = g * M
  OBVIOUS
<1>4. Q * ((c + j + y2) + (y3 - y4)) = Q * c + Q * j + Q * y2 + Q * y3 - Q * y4
  OBVIOUS
<1>5. PICK z1 \in Int, z2 \in Int, z3 \in Int, z4 \in Int, z5 \in Int :
        z1 = Q * c /\ z2 = Q * j /\ z3 = Q * y2 /\ z4 = Q * y3 /\ z5 = Q * y4
  OBVIOUS
<1>6. PICK v1 \in Int, v2 \in Int : v1 = d * S /\ v2 = r * M
  OBVIOUS
<1>7. /\ v1 = y1 + z3 /\ v2 = z4 - t - z5 /\ A = A0 + z2 /\ A0 + y1 = t + z1
  BY <1>1, <1>2, <1>3, <1>5, <1>6
<1>8. A + (v1 + v2) = z1 + z2 + z3 + z4 - z5
  BY <1>7
<1>9. QED
  BY <1>3, <1>4, <1>5, <1>6

(* u and v are congruent modulo M. *)
Congruent(u, v, M) == (u - v) % M = 0

(* V is an inverse of B modulo M. *)
IsInverse(V, B, M) == (V * B) % M = 1 % M

(* c is the product of u and v modulo M. *)
IsProduct(c, u, v, M) == c = (u * v) % M

(* A turn: Q times the new accumulator z is the sum that it shifts. *)
TurnAdds(A, d, S, u, M, Q, z) == A + (d * S + u * M) = Q * z

(* The multiples of Q. *)
Multiples(Q) == {Q * k : k \in Int}

(* The multiple of the modulus that a turn adds. *)
Multiple(Q, A, S, d, w) == ((((A % Q) + d * (S % Q)) % Q) * w) % Q

(* The multiple of the modulus that a turn adds makes its sum end in a zero *)
(* digit, for any digit of the first operand.                               *)
LEMMA TurnEndsInZero ==
  ASSUME NEW Q \in Nat \ {0}, NEW A \in Nat, NEW S \in Nat, NEW M \in Nat,
         NEW d \in 0 .. Q - 1, NEW w \in 0 .. Q - 1, w * M + 1 \in Multiples(Q)
  PROVE  /\ Multiple(Q, A, S, d, w) \in 0 .. Q - 1
         /\ A + (d * S + Multiple(Q, A, S, d, w) * M) \in Multiples(Q)
<1> DEFINE u == Multiple(Q, A, S, d, w)
<1>0. PICK h \in Int : w * M + 1 = Q * h
  BY DEF Multiples
<1>1. PICK A0 \in 0 .. Q - 1, j \in Int : A0 = A % Q /\ A = A0 + Q * j
  <2>1. A \in Int
    OBVIOUS
  <2>2. A % Q \in 0 .. Q - 1 /\ \E k \in Int : A = (A % Q) + Q * k
    BY <2>1, RemainderSplit
  <2>3. QED
    BY <2>2
<1>2. PICK S0 \in 0 .. Q - 1, s \in Int : S0 = S % Q /\ S = S0 + Q * s
  <2>1. S \in Int
    OBVIOUS
  <2>2. S % Q \in 0 .. Q - 1 /\ \E k \in Int : S = (S % Q) + Q * k
    BY <2>1, RemainderSplit
  <2>3. QED
    BY <2>2
<1>3. PICK v \in Int : v = A0 + d * S0
  OBVIOUS
<1>4. PICK t \in 0 .. Q - 1, c \in Int : t = v % Q /\ v = t + Q * c
  <2>1. v % Q \in 0 .. Q - 1 /\ \E k \in Int : v = (v % Q) + Q * k
    BY RemainderSplit
  <2>2. QED
    BY <2>1
<1>5. PICK f \in Int : f = t * w
  BY <1>4
<1>6. PICK r \in 0 .. Q - 1, g \in Int : r = f % Q /\ f = r + Q * g
  <2>1. f % Q \in 0 .. Q - 1 /\ \E k \in Int : f = (f % Q) + Q * k
    BY RemainderSplit
  <2>2. QED
    BY <2>1
<1>7. u = r
  BY <1>1, <1>2, <1>3, <1>4, <1>5, <1>6, Zenon DEF Multiple
<1>9. A + (d * S + r * M) = Q * ((c + j + d * s) + (t * h - g * M))
  <2>1. /\ A = A0 + Q * j /\ S = S0 + Q * s /\ A0 + d * S0 = t + Q * c
        /\ t * w = r + Q * g /\ w * M + 1 = Q * h
    BY <1>0, <1>1, <1>2, <1>3, <1>4, <1>5, <1>6
  <2>2. /\ A0 \in Int /\ S0 \in Int /\ t \in Int /\ r \in Int /\ d \in Int /\ w \in Int
        /\ A \in Int /\ S \in Int /\ M \in Int /\ Q \in Int
    OBVIOUS
  <2>3. QED
    BY <2>1, <2>2, TurnSum
<1>10. (c + j + d * s) + (t * h - g * M) \in Int
  <2>1. c + j + d * s \in Int /\ t * h \in Int /\ g * M \in Int
    OBVIOUS
  <2>2. QED
    BY <2>1
<1>11. QED
  BY <1>6, <1>7, <1>9, <1>10 DEF Multiples

(* A turn keeps the accumulator below the modulus and the second operand. *)
LEMMA TurnBound ==
  ASSUME NEW Q \in Nat \ {0}, NEW A \in Nat, NEW S \in Nat, NEW M \in Nat,
         NEW d \in 0 .. Q - 1, NEW u \in 0 .. Q - 1, A < M + S,
         NEW z \in Int, A + (d * S + u * M) = Q * z
  PROVE  z \in Nat /\ z < M + S
<1>1. d * S <= (Q - 1) * S /\ u * M <= (Q - 1) * M
  OBVIOUS
<1>2. (Q - 1) * S = Q * S - S /\ (Q - 1) * M = Q * M - M
  OBVIOUS
<1>3. Q * (M + S) = Q * M + Q * S
  OBVIOUS
<1>4. d * S \in Nat /\ u * M \in Nat /\ Q * S \in Nat /\ Q * M \in Nat
  OBVIOUS
<1>5. Q * z < Q * (M + S) /\ Q * z >= 0
  BY <1>1, <1>2, <1>3, <1>4
<1>6. z >= 0
  <2>1. ASSUME z <= -1 PROVE FALSE
    <3>1. Q * z <= Q * (-1)
      BY <2>1
    <3>2. QED
      BY <1>5, <3>1
  <2>2. QED
    BY <2>1
<1>7. z < M + S
  <2>1. ASSUME z >= M + S PROVE FALSE
    <3>1. Q * z >= Q * (M + S)
      BY <2>1
    <3>2. QED
      BY <1>5, <3>1
  <2>2. QED
    BY <2>1
<1>8. QED
  BY <1>6, <1>7

(* A turn takes one more digit d of the first operand, of weight b, into the *)
(* product of those passed, F, and S.                                        *)
LEMMA TurnCongruence ==
  ASSUME NEW Q \in Nat \ {0}, NEW A \in Nat, NEW S \in Nat, NEW M \in Nat \ {0},
         NEW d \in Nat, NEW u \in Nat, NEW z \in Int, TurnAdds(A, d, S, u, M, Q, z),
         NEW b \in Nat, NEW F \in Nat, Congruent(A * b, F * S, M)
  PROVE  Congruent(z * (b * Q), (F + b * d) * S, M)
<1>0. (A * b - F * S) % M = 0 /\ A + (d * S + u * M) = Q * z
  BY Zenon DEF Congruent, TurnAdds
<1>1. PICK k \in Int : A * b - F * S = M * k
  <2>1. A * b - F * S \in Int
    OBVIOUS
  <2>2. QED
    BY <1>0, <2>1, ZeroRemainder
<1>2. z * (b * Q) = A * b + ((d * S) * b + (u * M) * b)
  <2>1. z * (b * Q) = (Q * z) * b
    OBVIOUS
  <2>2. PICK y1 \in Int, y2 \in Int : y1 = d * S /\ y2 = u * M
    OBVIOUS
  <2>3. (A + (y1 + y2)) * b = A * b + (y1 * b + y2 * b)
    OBVIOUS
  <2>4. QED
    BY <1>0, <2>1, <2>2, <2>3
<1>3. (F + b * d) * S = F * S + (d * S) * b
  <2>1. (F + b * d) * S = F * S + (b * d) * S
    OBVIOUS
  <2>2. (b * d) * S = (d * S) * b
    OBVIOUS
  <2>3. QED
    BY <2>1, <2>2
<1>4. z * (b * Q) - (F + b * d) * S = M * (k + u * b)
  <2>1. PICK y1 \in Int, y2 \in Int, y3 \in Int, y4 \in Int, y5 \in Int :
          y1 = A * b /\ y2 = (d * S) * b /\ y3 = (u * M) * b /\ y4 = F * S /\ y5 = u * b
    OBVIOUS
  <2>2. (u * M) * b = M * (u * b)
    OBVIOUS
  <2>3. M * (k + y5) = M * k + M * y5 /\ M * k \in Int /\ M * y5 \in Int
    OBVIOUS
  <2>4. y3 = M * y5
    BY <2>1, <2>2
  <2>5. (y1 + (y2 + y3)) - (y4 + y2) = M * (k + y5)
    BY <1>1, <2>1, <2>3, <2>4
  <2>6. QED
    BY <1>2, <1>3, <2>1, <2>5
<1>5. k + u * b \in Int /\ z * (b * Q) - (F + b * d) * S \in Int
  OBVIOUS
<1>6. QED
  BY <1>4, <1>5, ZeroRemainder DEF Congruent

(* Taken back from Montgomery's form, with V the inverse of B, the product p *)
(* is the product of its operands.                                           *)
LEMMA ProductBack ==
  ASSUME NEW M \in Nat \ {0}, NEW p \in Nat, NEW X \in Nat, NEW S \in Nat,
         NEW B \in Nat, NEW V \in Nat,
         Congruent(p * B, X * S, M), IsInverse(V, B, M)
  PROVE  IsProduct((p * V) % M, (X * V) % M, (S * V) % M, M)
<1>0. (p * B - X * S) % M = 0 /\ (V * B) % M = 1 % M
  BY Zenon DEF Congruent, IsInverse
<1>1. PICK k \in Int : p * B = X * S + M * k
  <2>1. p * B - X * S \in Int /\ p * B \in Int /\ X * S \in Int
    OBVIOUS
  <2>2. PICK k \in Int : p * B - X * S = M * k
    BY <1>0, <2>1, ZeroRemainder
  <2>3. QED
    BY <2>1, <2>2
<1>2. PICK j \in Int : V * B = 1 + M * j
  <2>1. PICK w \in Int : w = V * B
    OBVIOUS
  <2>2. w = M * (w \div M) + (w % M) /\ 1 = M * (1 \div M) + (1 % M)
        /\ w \div M \in Int /\ 1 \div M \in Int
    OBVIOUS
  <2>3. PICK q1 \in Int, q2 \in Int : q1 = w \div M /\ q2 = 1 \div M
    BY <2>2
  <2>4. M * (q1 - q2) = M * q1 - M * q2 /\ M * q1 \in Int /\ M * q2 \in Int
    OBVIOUS
  <2>5. w % M = 1 % M /\ 1 % M \in Int
    BY <1>0, <2>1
  <2>6. w = 1 + M * (q1 - q2) /\ q1 - q2 \in Int
    BY <2>2, <2>3, <2>4, <2>5
  <2>7. QED
    BY <2>1, <2>6
<1> DEFINE P == p * V
           Y == X * V
           Z == S * V
<1>3. P \in Int /\ Y \in Int /\ Z \in Int
  OBVIOUS
<1>4. P * (V * B) = P + M * (P * j)
  <2>1. P * (1 + M * j) = P + P * (M * j)
    BY <1>3
  <2>2. P * (M * j) = M * (P * j)
    BY <1>3
  <2> HIDE DEF P
  <2>3. QED
    BY <1>2, <2>1, <2>2
<1>5. P * (V * B) = Y * Z + M * (k * (V * V))
  <2>1. P * (V * B) = (p * B) * (V * V)
    OBVIOUS
  <2>2. (X * S + M * k) * (V * V) = (X * S) * (V * V) + M * (k * (V * V))
    <3>1. PICK y \in Int, v \in Int : y = X * S /\ v = V * V
      OBVIOUS
    <3>2. (y + M * k) * v = y * v + (M * k) * v /\ (M * k) * v = M * (k * v)
      OBVIOUS
    <3>3. QED
      BY <3>1, <3>2
  <2>3. (X * S) * (V * V) = Y * Z
    OBVIOUS
  <2>4. QED
    BY <1>1, <2>1, <2>2, <2>3
<1>6. P = Y * Z + M * (k * (V * V) - P * j)
  <2>1. PICK g \in Int, c \in Int : g = k * (V * V) /\ c = P * j
    BY <1>3
  <2>2. M * (g - c) = M * g - M * c /\ M * g \in Int /\ M * c \in Int
    OBVIOUS
  <2>3. Y * Z \in Int
    BY <1>3
  <2> HIDE DEF P, Y, Z
  <2>4. P + M * c = Y * Z + M * g
    BY <1>4, <1>5, <2>1
  <2>5. P = Y * Z + M * (g - c)
    BY <1>3, <2>2, <2>3, <2>4
  <2>6. QED
    BY <2>1, <2>5
<1>7. k * (V * V) - P * j \in Int
  BY <1>3
<1> HIDE DEF P, Y, Z
<1>8. P % M = (Y * Z) % M
  <2>1. PICK y \in Int, g \in Int : y = Y * Z /\ g = k * (V * V) - P * j
    <3>1. Y * Z \in Int
      BY <1>3
    <3>2. QED
      BY <1>7, <3>1
  <2>2. P = y + M * g
    BY <1>6, <2>1
  <2>3. M \in Nat \ {0} /\ P \in Int /\ y \in Int /\ g \in Int
    BY <1>3
  <2>4. P % M = y % M
    BY <2>2, <2>3, SameRemainder, Zenon
  <2>5. QED
    BY <2>1, <2>4
<1>9. (Y * Z) % M = ((Y % M) * (Z % M)) % M
  <2>1. (Y * Z) % M = ((Y % M) * Z) % M
    BY <1>3, ReduceFactor
  <2>2. Y % M \in Int
    BY <1>3
  <2>3. ((Y % M) * Z) % M = ((Y % M) * (Z % M)) % M
    BY <1>3, <2>2, ReduceFactor
  <2>4. QED
    BY <2>1, <2>3
<1>10. QED
  BY <1>8, <1>9, Zenon DEF P, Y, Z, IsProduct

-----------------------------------------------------------------------------
(***************************************************************************)
(* Powers modulo M, as SquareAndMultiply defines them.                     *)
(***************************************************************************)
(* Its powers of two are those of the digits. *)
LEMMA SamePowers == Power!Pow2 = Pow2
BY DEF Power!Pow2, Pow2

(* A power is one factor more than the power below it. *)
LEMMA PowUnfold ==
  ASSUME NEW b \in Nat, NEW M \in Nat \ {0}
  PROVE  LET p == Power!Pow(b, M)
         IN  /\ p \in [Nat -> Nat]
             /\ p[0] = 1 % M
             /\ \A k \in Nat : p[k + 1] = (p[k] * b) % M
<1> DEFINE step == [t \in Nat \X Nat |-> (t[2] * b) % M]
           Body(f) == [k \in Nat |-> IF k = 0 THEN 1 % M ELSE (f[k - 1] * b) % M]
           p == CHOOSE f : f = Body(f)
<1>1. Power!Pow(b, M) = p
  BY DEF Power!Pow
<1>2. step \in StepFunctions(Nat) /\ 1 % M \in Nat
  <2>1. ASSUME NEW t \in Nat \X Nat PROVE (t[2] * b) % M \in Nat
    <3>1. PICK n \in Nat : n = t[2] * b
      OBVIOUS
    <3>2. n % M \in Nat
      OBVIOUS
    <3>3. QED
      BY <3>1, <3>2
  <2>2. 1 % M \in Nat
    OBVIOUS
  <2>3. QED
    BY <2>1, <2>2 DEF StepFunctions
<1>3. \A n \in Nat, c \in Nat : step[<<n, c>>] = (c * b) % M
  OBVIOUS
<1> HIDE DEF step
<1>4. PICK f : Recursion(Nat, 1 % M, step, f)
  BY <1>2, RecursionExists
<1>5. f \in [Nat -> Nat] /\ f[0] = 1 % M
  BY <1>4 DEF Recursion
<1>6. ASSUME NEW k \in Nat PROVE f[k + 1] = (f[k] * b) % M
  <2>1. f[k] \in Nat /\ f[k + 1] = step[<<k, f[k]>>]
    BY <1>4, <1>5 DEF Recursion
  <2>2. QED
    BY <2>1, <1>3
<1>7. f = Body(f)
  <2>1. ASSUME NEW k \in Nat, k # 0 PROVE f[k] = (f[k - 1] * b) % M
    <3>1. k - 1 \in Nat /\ (k - 1) + 1 = k
      BY <2>1
    <3>2. f[(k - 1) + 1] = (f[k - 1] * b) % M
      BY <1>6, <3>1
    <3>3. QED
      BY <3>1, <3>2
  <2>2. f = [k \in Nat |-> f[k]]
    BY <1>5
  <2>3. QED
    BY <1>5, <2>1, <2>2, Zenon
<1>8. p = Body(p)
  <2> HIDE DEF Body
  <2>1. QED
    BY <1>7
<1> HIDE DEF p
<1>9. p[0] = f[0]
  BY <1>5, <1>8
<1>10. \A k \in Nat : p[k + 1] = (p[k] * b) % M
  <2>1. TAKE k \in Nat
  <2>2. k + 1 \in Nat /\ k + 1 # 0 /\ (k + 1) - 1 = k
    OBVIOUS
  <2>3. QED
    BY <1>8, <2>2
<1>11. \A k \in Nat : p[k] = f[k]
  <2> DEFINE S == {k \in Nat : p[k] = f[k]}
  <2>1. 0 \in S
    BY <1>9
  <2>2. ASSUME NEW k \in S PROVE k + 1 \in S
    <3>1. k \in Nat /\ k + 1 \in Nat /\ p[k] = f[k]
      OBVIOUS
    <3>2. p[k + 1] = f[k + 1]
      BY <1>6, <1>10, <3>1
    <3>3. QED
      BY <3>1, <3>2
  <2>3. S \in SUBSET Nat
    OBVIOUS
  <2> HIDE DEF S
  <2>4. S = Nat
    BY <2>1, <2>2, <2>3, SetInduction
  <2>5. QED
    BY <2>4 DEF S
<1>12. p = [k \in Nat |-> p[k]]
  <2>1. p = Body(p)
    BY <1>8
  <2> DEFINE g(k) == IF k = 0 THEN 1 % M ELSE (p[k - 1] * b) % M
  <2>2. p = [k \in Nat |-> g(k)]
    BY <2>1
  <2> HIDE DEF g
  <2>3. QED
    BY <2>2
<1>13. p \in [Nat -> Nat]
  BY <1>5, <1>11, <1>12
<1>14. QED
  BY <1>1, <1>5, <1>9, <1>10, <1>13

(* The sum of two arguments is taken by f to the product modulo M. *)
SumsToProducts(f, M) == \A j \in Nat, k \in Nat : f[j + k] = (f[j] * f[k]) % M

(* Powers with one base multiply to the power with the sum of the exponents. *)
LEMMA PowSum ==
  ASSUME NEW b \in Nat, NEW M \in Nat \ {0}
  PROVE  SumsToProducts(Power!Pow(b, M), M)
<1> DEFINE p == Power!Pow(b, M)
<1> SUFFICES ASSUME NEW j \in Nat, NEW k \in Nat
             PROVE  p[j + k] = (p[j] * p[k]) % M
  BY DEF SumsToProducts
<1> DEFINE S == {n \in Nat : p[j + n] = (p[j] * p[n]) % M}
<1>1. /\ p \in [Nat -> Nat] /\ p[0] = 1 % M
      /\ \A n \in Nat : p[n + 1] = (p[n] * b) % M
  BY PowUnfold
<1> HIDE DEF p
<1>2. \A n \in Nat : p[n] % M = p[n]
  <2>1. ASSUME NEW r \in Nat PROVE (r % M) % M = r % M
    <3>1. r % M \in 0 .. M - 1
      OBVIOUS
    <3>2. QED
      BY <3>1
  <2>2. p[0] % M = p[0]
    BY <1>1, <2>1
  <2>3. ASSUME NEW n \in Nat, n # 0 PROVE p[n] % M = p[n]
    <3>1. n - 1 \in Nat /\ (n - 1) + 1 = n
      BY <2>3
    <3>2. PICK r \in Nat : r = p[n - 1] * b
      BY <1>1, <3>1
    <3>3. p[n] = r % M
      <4>1. p[(n - 1) + 1] = (p[n - 1] * b) % M
        BY <1>1, <3>1
      <4>2. QED
        BY <3>1, <3>2, <4>1
    <3>4. QED
      BY <2>1, <3>3
  <2>4. QED
    BY <2>2, <2>3
<1>3. 0 \in S
  <2>1. PICK r \in Nat : r = p[j]
    BY <1>1
  <2>2. (r * (1 % M)) % M = (r * 1) % M
    <3>1. r \in Int /\ 1 \in Int
      OBVIOUS
    <3>2. QED
      BY <3>1, ReduceFactor, Zenon
  <2>3. r * 1 = r /\ j + 0 = j
    OBVIOUS
  <2>4. p[j + 0] = (p[j] * p[0]) % M
    BY <1>1, <1>2, <2>1, <2>2, <2>3
  <2>5. QED
    BY <2>4
<1>4. ASSUME NEW n \in S PROVE n + 1 \in S
  <2>1. n \in Nat /\ p[j + n] = (p[j] * p[n]) % M
    OBVIOUS
  <2>2. PICK r \in Nat, t \in Nat : r = p[j] /\ t = p[n]
    BY <1>1, <2>1
  <2>3. j + n \in Nat /\ j + (n + 1) = (j + n) + 1
    BY <2>1
  <2>4. p[j + (n + 1)] = (((r * t) % M) * b) % M
    BY <1>1, <2>1, <2>2, <2>3
  <2>5. PICK v \in Int, w \in Int, bi \in Int : v = r * t /\ w = t * b /\ bi = b
    OBVIOUS
  <2>6. ((v % M) * bi) % M = (v * bi) % M
    BY ReduceFactor
  <2>7. (r * (w % M)) % M = (r * w) % M
    <3>1. r \in Int
      OBVIOUS
    <3>2. QED
      BY <3>1, ReduceFactor
  <2>8. v * bi = r * w
    BY <2>5
  <2>9. p[n + 1] = w % M
    BY <1>1, <2>1, <2>2, <2>5
  <2>10. p[j + (n + 1)] = (p[j] * p[n + 1]) % M
    BY <2>2, <2>4, <2>5, <2>6, <2>7, <2>8, <2>9
  <2>11. QED
    BY <2>1, <2>10
<1>5. S = Nat
  <2>1. S \in SUBSET Nat
    OBVIOUS
  <2> HIDE DEF S
  <2>2. QED
    BY <1>3, <1>4, <2>1, SetInduction
<1>6. QED
  BY <1>5 DEF S, p

-----------------------------------------------------------------------------
(***************************************************************************)
(* The invariant.                                                          *)
(***************************************************************************)
(* The inverse of R modulo n that FromMontgomery multiplies by. *)
InverseOfR(n) ==
  CHOOSE k \in 0 .. Value(n) - 1 : (k * R(n)) % Value(n) = 1 % Value(n)

(* The numbers are proper and none is negative. *)
NonnegativeObjects ==
  \A v \in {x, e, m, r2, xBar, a, acc, result} : Proper(v) /\ ~v.neg

(* The operands have a word for every digit of the modulus, and mInv and r2 *)
(* are what their callers compute.                                          *)
ArgumentsFit ==
  /\ Value(x) \in Bases /\ Value(e) \in Exponents /\ Value(m) \in Moduli
  /\ x.used <= m.used /\ m.used <= x.size /\ m.used <= a.size
  /\ mInv \in Digit /\ (mInv * Value(m) + 1) % DigitRadix = 0
  /\ Value(r2) < Value(m) /\ FromMontgomery(r2) = R(m) % Value(m)

(* The multiplication being executed, and what has been read of the exponent. *)
Position ==
  /\ call \in {"xBar", "square", "times", "last", "returned"}
  /\ i \in 0 .. m.used
  /\ IsPosition(e, it)
  /\ call = "square" => HasBits(it)
  /\ call = "times" => (Value(e) \div Pow2[BitsLeft(it)]) % 2 = 1
  /\ call \in {"last", "returned"} => ~HasBits(it)

(* What has been computed: the base and the power in Montgomery form, and the *)
(* result out of it.                                                          *)
PowersExact ==
  /\ call # "xBar" => FromMontgomery(xBar) = Value(x) % Value(m)
  /\ Power!PowerOfPrefix
  /\ call = "returned" => Value(result) = FromMontgomery(a)

(* Together they are inductive. *)
IInv ==
  /\ NonnegativeObjects /\ ArgumentsFit /\ Position
  /\ LoopCongruence /\ ProductsReduced /\ PowersExact

-----------------------------------------------------------------------------
(***************************************************************************)
(* What the callers pass.                                                  *)
(***************************************************************************)
(* a = 1. *)
LEMMA OneExact == Proper(One) /\ ~One.neg /\ Value(One) = 1
<1>1. Safe(BigNumDefault)
  BY DefaultExact DEF Proper
<1>2. Proper(One) /\ Value(One) = 1 % DigitRadix
  BY <1>1, AssignDigitExact DEF One
<1>3. PICK Q \in Nat : DigitRadix = Q /\ Q >= 2
  BY RadixAtLeastTwo
<1>4. 1 % Q = 1
  BY <1>3
<1>5. Value(One) = 1
  BY <1>2, <1>3, <1>4
<1>6. QED
  BY <1>2, <1>5, Nonnegative

(* The moduli are odd, and so positive. *)
LEMMA OddModulus ==
  ASSUME NEW k \in Moduli
  PROVE  k \in Nat \ {0} /\ k % 2 = 1
<1>1. k \in Nat /\ k % 2 = 1
  BY OddModuliAssumption
<1>2. 0 % 2 = 0
  OBVIOUS
<1>3. QED
  BY <1>1, <1>2

(* compute_montgomery_inverse has something to return. *)
LEMMA InverseExists ==
  ASSUME NEW n, Value(n) \in Moduli
  PROVE  /\ SetupInverse(n) \in Digit
         /\ (SetupInverse(n) * Value(n) + 1) % DigitRadix = 0
<1>1. \E d \in Digit : (d * Value(n) + 1) % DigitRadix = 0
  BY OddModulus, OddInverse, DigitBitsAssumption DEF Digit, DigitRadix
<1>2. QED
  BY <1>1 DEF SetupInverse

(* R has an inverse modulo m, and FromMontgomery multiplies by it. *)
LEMMA Back ==
  ASSUME Value(m) \in Moduli, m.used \in Nat
  PROVE  /\ R(m) = Weight(m.used) /\ R(m) \in Nat \ {0}
         /\ InverseOfR(m) \in Nat
         /\ (InverseOfR(m) * R(m)) % Value(m) = 1 % Value(m)
         /\ \A v : FromMontgomery(v) = (Value(v) * InverseOfR(m)) % Value(m)
<1>1. Value(m) \in Nat \ {0} /\ Value(m) % 2 = 1
  BY OddModulus
<1>2. R(m) = Weight(m.used) /\ R(m) \in Nat \ {0}
  BY Weights DEF R, Weight
<1>3. \E k \in 0 .. Value(m) - 1 : (k * R(m)) % Value(m) = 1 % Value(m)
  <2>1. DigitBits * m.used \in Nat
    BY DigitBitsAssumption
  <2>2. QED
    BY <1>1, <2>1, PowerInverse DEF R
<1>4. /\ InverseOfR(m) \in 0 .. Value(m) - 1
      /\ (InverseOfR(m) * R(m)) % Value(m) = 1 % Value(m)
  BY <1>3 DEF InverseOfR
<1>5. \A v : FromMontgomery(v) = (Value(v) * InverseOfR(m)) % Value(m)
  BY DEF FromMontgomery, InverseOfR
<1>6. InverseOfR(m) \in Nat
  BY <1>1, <1>4
<1>7. QED
  BY <1>2, <1>4, <1>5, <1>6

-----------------------------------------------------------------------------
(***************************************************************************)
(* A turn of montgomery_multiply, and its return.                          *)
(***************************************************************************)
(* The multiple of the modulus, and the accumulator, of a turn. *)
TurnMultiple(p, s, d, w) == (((p.dig[0] + d * s.dig[0]) % DigitRadix) * w) % DigitRadix
TurnResult(p, s, n, d, u) ==
  RightDigitShift(AddEq(p, AddEq(MulDigit(s, d), MulDigit(n, u))), 1)

(* One turn on accumulator p, second operand s and modulus n, with digit d of *)
(* the first operand: the right shift divides exactly.                        *)
LEMMA TurnExact ==
  ASSUME NEW p, Proper(p), ~p.neg, NEW s, Proper(s), ~s.neg,
         NEW n, Proper(n), ~n.neg, NEW d \in Digit, NEW w \in Digit,
         (w * Value(n) + 1) % DigitRadix = 0, Value(p) < Value(n) + Value(s)
  PROVE  LET u == TurnMultiple(p, s, d, w)
             z == TurnResult(p, s, n, d, u)
         IN  /\ Proper(z) /\ ~z.neg /\ u \in Nat
             /\ Value(p) + (d * Value(s) + u * Value(n)) = DigitRadix * Value(z)
             /\ Value(z) < Value(n) + Value(s)
<1> DEFINE u == TurnMultiple(p, s, d, w)
           sum == AddEq(p, AddEq(MulDigit(s, d), MulDigit(n, u)))
           z == RightDigitShift(sum, 1)
<1>1. PICK Q \in Nat \ {0} : DigitRadix = Q
  BY RadixPositive
<1>2. PICK A \in Nat, S \in Nat, M \in Nat :
        A = Value(p) /\ S = Value(s) /\ M = Value(n)
  BY Nonnegative
<1>3. d \in 0 .. Q - 1 /\ w \in 0 .. Q - 1
  BY <1>1 DEF Digit
<1>4. w * M + 1 \in Multiples(Q)
  <2>1. PICK y \in Int : y = w * M + 1
    BY <1>3
  <2>2. y % Q = 0
    BY <1>1, <1>2, <2>1
  <2>3. \E k \in Int : y = Q * k
    BY <2>2, ZeroRemainder
  <2>4. QED
    BY <2>1, <2>3 DEF Multiples
<1>5. u = Multiple(Q, A, S, d, w)
  <2>1. p.dig[0] = A % Q /\ s.dig[0] = S % Q
    BY <1>1, <1>2, FirstDigit
  <2>2. QED
    BY <1>1, <2>1, Zenon DEF Multiple, TurnMultiple
<1> HIDE DEF u
<1>6. u \in 0 .. Q - 1 /\ A + (d * S + u * M) \in Multiples(Q)
  BY <1>3, <1>4, <1>5, TurnEndsInZero, Zenon
<1>7. PICK y \in Int : A + (d * S + u * M) = Q * y
  BY <1>6 DEF Multiples
<1>8. y \in Nat /\ y < M + S
  <2>1. A < M + S
    BY <1>2
  <2>2. QED
    BY <1>3, <1>6, <1>7, <2>1, TurnBound
<1>9. Proper(sum) /\ Value(sum) = A + (d * S + u * M)
  <2>1. u \in Digit
    BY <1>1, <1>6 DEF Digit
  <2>2. Proper(MulDigit(s, d)) /\ Value(MulDigit(s, d)) = S * d
    BY <1>2, MulDigitExact
  <2>3. Proper(MulDigit(n, u)) /\ Value(MulDigit(n, u)) = M * u
    BY <1>2, <2>1, MulDigitExact
  <2>4. /\ Proper(AddEq(MulDigit(s, d), MulDigit(n, u)))
        /\ Value(AddEq(MulDigit(s, d), MulDigit(n, u))) = S * d + M * u
    BY <2>2, <2>3, AddExact
  <2>5. Proper(sum) /\ Value(sum) = A + (S * d + M * u)
    BY <1>2, <2>4, AddExact
  <2>6. S * d = d * S /\ M * u = u * M
    BY <1>3, <1>6
  <2>7. QED
    BY <2>5, <2>6
<1> HIDE DEF sum
<1>10. Magnitude(sum) = Q * y /\ ~sum.neg
  <2>1. Value(sum) = Q * y
    BY <1>7, <1>9
  <2>2. Q * y >= 0
    BY <1>8
  <2>3. QED
    BY <1>9, <2>1, <2>2, Nonnegative
<1>11. Weight(1) = Q
  <2>1. Weight(0 + 1) = Weight(0) * DigitRadix /\ Weight(0) = 1
    BY Weights
  <2>2. 0 + 1 = 1 /\ 1 * Q = Q
    OBVIOUS
  <2>3. QED
    BY <1>1, <2>1, <2>2
<1>12. (Q * y) \div Q = y
  <2>1. Q * y = Q * y + 0 /\ Q * y \in Int /\ 0 < Q /\ y \in Int /\ 0 \in Int
    OBVIOUS
  <2>2. QED
    BY <2>1, DivModUnique
<1>13. Proper(z) /\ Magnitude(z) = y /\ Value(z) = Signed(sum, Magnitude(z))
  <2>1. 1 \in Nat
    OBVIOUS
  <2>2. Proper(z) /\ Magnitude(z) = Magnitude(sum) \div Weight(1)
        /\ Value(z) = Signed(sum, Magnitude(z))
    BY <1>9, <2>1, RightDigitShiftExact
  <2>3. QED
    BY <1>10, <1>11, <1>12, <2>2
<1> HIDE DEF z
<1>14. Value(z) = y
  BY <1>10, <1>13 DEF Signed
<1>15. ~z.neg
  BY <1>8, <1>13, <1>14, Nonnegative
<1>16. u \in Nat
  BY <1>6
<1>17. Value(p) + (d * Value(s) + u * Value(n)) = DigitRadix * Value(z)
  BY <1>1, <1>2, <1>7, <1>14
<1>18. Value(z) < Value(n) + Value(s)
  BY <1>2, <1>8, <1>14
<1>19. QED
  BY <1>13, <1>15, <1>16, <1>17, <1>18 DEF u, sum, z, TurnResult

-----------------------------------------------------------------------------
(***************************************************************************)
(* The initial states.                                                     *)
(***************************************************************************)
(* Taken back from Montgomery's form, B reduced is 1, and its square is B. *)
LEMMA FormsOfOne ==
  ASSUME NEW M \in Nat \ {0}, NEW B \in Nat, NEW V \in Nat, IsInverse(V, B, M)
  PROVE  LET A == B % M
         IN  (A * V) % M = 1 % M /\ (((A * A) % M) * V) % M = B % M
<1>0. PICK A \in 0 .. M - 1 : A = B % M
  OBVIOUS
<1>1. PICK b \in Int, v \in Int : b = B /\ v = V
  OBVIOUS
<1>2. (A * v) % M = 1 % M
  <2>1. ((b % M) * v) % M = (b * v) % M
    BY ReduceFactor
  <2>2. b * v = V * B
    BY <1>1
  <2>3. (V * B) % M = 1 % M
    BY DEF IsInverse
  <2>4. QED
    BY <1>0, <1>1, <2>1, <2>2, <2>3
<1>3. PICK g \in Int, h \in Int, q \in Int : g = A * A /\ h = A * v /\ q = A
  OBVIOUS
<1>4. ((g % M) * v) % M = (g * v) % M
  BY ReduceFactor
<1>5. (q * (h % M)) % M = (q * h) % M
  BY ReduceFactor
<1>6. g * v = q * h
  BY <1>3
<1>7. 1 \in Int
  OBVIOUS
<1>8. (q * (1 % M)) % M = (q * 1) % M
  BY <1>7, ReduceFactor, Zenon
<1>9. (q * 1) % M = B % M
  <2>1. (B % M) % M = B % M
    OBVIOUS
  <2>2. q * 1 = q
    OBVIOUS
  <2>3. QED
    BY <1>0, <1>3, <2>1, <2>2
<1>10. (g * v) % M = B % M
  BY <1>2, <1>3, <1>5, <1>6, <1>8, <1>9
<1>11. QED
  BY <1>0, <1>1, <1>2, <1>3, <1>4, <1>10

(* The vector of every base the call is made with has a word for each digit of *)
(* the modulus, all of which getDigit reads.                                   *)
BasesHoldModuli ==
  \A b \in Bases, k \in Moduli :
    Represent(b).used <= Represent(k).used => Represent(k).used <= Represent(b).size

(* An argument that represents a natural of a set. *)
LEMMA RepresentArgument ==
  ASSUME NEW S \in SUBSET Nat, NEW v \in {Represent(k) : k \in S}
  PROVE  /\ Proper(v) /\ ~v.neg /\ Value(v) \in S
<1>1. PICK k \in S : v = Represent(k)
  OBVIOUS
<1>2. k \in Int /\ k \in Nat
  OBVIOUS
<1>3. Proper(v) /\ Value(v) = k
  BY <1>1, <1>2, RepresentExact
<1>4. ~v.neg
  BY <1>2, <1>3, Nonnegative
<1>5. QED
  BY <1>3, <1>4

(* A number reduced by the modulus. *)
LEMMA RepresentReduced ==
  ASSUME NEW M \in Nat \ {0}, NEW n \in Nat
  PROVE  LET v == Represent(n % M)
         IN  /\ Proper(v) /\ ~v.neg /\ Value(v) = n % M
             /\ Value(v) \in Nat /\ Value(v) < M
<1>1. PICK c \in 0 .. M - 1 : c = n % M
  OBVIOUS
<1>2. c \in Int /\ c >= 0
  OBVIOUS
<1>3. Proper(Represent(c)) /\ Value(Represent(c)) = c
  BY <1>2, RepresentExact
<1>4. ~Represent(c).neg
  BY <1>2, <1>3, Nonnegative
<1>5. QED
  BY <1>1, <1>3, <1>4

(* The modulus as an argument. *)
LEMMA ModulusExact ==
  ASSUME Proper(m), Value(m) \in Moduli
  PROVE  /\ Value(m) \in Nat \ {0} /\ Value(m) % 2 = 1
         /\ m.used \in Nat \ {0} /\ Safe(m)
<1>1. Value(m) \in Nat \ {0} /\ Value(m) % 2 = 1
  BY OddModulus
<1>2. m.used \in Nat /\ Safe(m)
  BY Nonnegative
<1>3. m.used # 0
  BY <1>1, ProperValue
<1>4. QED
  BY <1>1, <1>2, <1>3

(* BigNum( capacity ) makes a zero. *)
LEMMA NewExact ==
  ASSUME NEW c \in Nat \ {0}
  PROVE  Proper(New(c)) /\ ~New(c).neg /\ Value(New(c)) = 0
<1>1. Safe(New(c)) /\ New(c).used = 0 /\ New(c).neg = FALSE
  BY NewSafe
<1>2. Magnitude(New(c)) = 0
  BY <1>1, ZeroMagnitude
<1>3. QED
  BY <1>1, <1>2 DEF Proper, LeadingNonzero, ZeroNonnegative, Value

(* The value of r that the callers compute. *)
LEMMA SetupRExact ==
  ASSUME Proper(m), Value(m) \in Moduli, NEW v, v = SetupR(m)
  PROVE  /\ Proper(v) /\ ~v.neg /\ m.used <= v.size
         /\ Value(v) = R(m) % Value(m) /\ Value(v) < Value(m)
<1>1. Value(m) \in Nat \ {0} /\ m.used \in Nat \ {0} /\ R(m) \in Nat
  BY ModulusExact, Back
<1> DEFINE s == LeftDigitShift(One, m.used)
           y == Represent(R(m) % Value(m))
<1>2. Safe(s) /\ s.used = One.used + m.used
  BY <1>1, OneExact, LeftDigitShiftSafe DEF Proper
<1>3. /\ Proper(y) /\ ~y.neg /\ Value(y) = R(m) % Value(m)
      /\ Value(y) < Value(m)
  BY <1>1, RepresentReduced
<1>4. v = Assign(s, y)
  BY DEF SetupR
<1> HIDE DEF s, y
<1>5. Safe(y)
  BY <1>3 DEF Proper
<1>6. Proper(v) /\ Value(v) = Value(y)
  BY <1>2, <1>3, <1>4, AssignExact
<1>7. v.size >= s.size /\ v.neg = y.neg
  BY <1>2, <1>4, <1>5, AssignSafe
<1>8. m.used <= s.size
  <2>1. One.used \in Nat
    BY OneExact, Nonnegative
  <2>2. s.used <= s.size
    BY <1>2 DEF Safe, UsedInVector
  <2>3. s.size \in Nat
    BY <1>2, Fields DEF Safe
  <2>4. QED
    BY <1>1, <1>2, <2>1, <2>2, <2>3
<1>9. m.used <= v.size
  <2>1. s.size \in Nat /\ v.size \in Nat
    BY <1>2, <1>6, Fields DEF Safe, Proper
  <2>2. QED
    BY <1>1, <1>7, <1>8, <2>1
<1>10. QED
  BY <1>3, <1>6, <1>7, <1>9

(* In the initial states the arguments are what the callers pass. *)
LEMMA InitArguments ==
  ASSUME BasesHoldModuli, Init
  PROVE  /\ NonnegativeObjects /\ ArgumentsFit
         /\ FromMontgomery(a) = 1 % Value(m)
         /\ Value(a) < Value(m) /\ Value(xBar) = 0 /\ Value(result) = 0
         /\ Value(acc) = 0
<1>1. /\ Proper(x) /\ ~x.neg /\ Value(x) \in Bases
  BY BasesAssumption, RepresentArgument DEF Init
<1>2. Proper(e) /\ ~e.neg /\ Value(e) \in Exponents
  BY ExponentsAssumption, RepresentArgument DEF Init
<1>3. Proper(m) /\ ~m.neg /\ Value(m) \in Moduli
  <2>1. Moduli \in SUBSET Nat
    BY OddModuliAssumption
  <2>2. QED
    BY <2>1, RepresentArgument DEF Init
<1>4. /\ Value(m) \in Nat \ {0} /\ m.used \in Nat \ {0}
      /\ R(m) \in Nat /\ InverseOfR(m) \in Nat
      /\ (InverseOfR(m) * R(m)) % Value(m) = 1 % Value(m)
      /\ \A v : FromMontgomery(v) = (Value(v) * InverseOfR(m)) % Value(m)
  BY <1>3, ModulusExact, Back
<1>5. m.used <= x.size
  BY DEF Init, BasesHoldModuli
<1>6. /\ Proper(a) /\ ~a.neg /\ m.used <= a.size
      /\ Value(a) = R(m) % Value(m) /\ Value(a) < Value(m)
  BY <1>3, SetupRExact DEF Init
<1>7. PICK M \in Nat \ {0}, B \in Nat, V \in Nat, A \in Nat :
        M = Value(m) /\ B = R(m) /\ V = InverseOfR(m) /\ A = Value(a)
  BY <1>4, <1>6, Nonnegative
<1>8. A * A \in Nat
  OBVIOUS
<1>9. /\ Proper(r2) /\ ~r2.neg /\ Value(r2) = (A * A) % M /\ Value(r2) < M
  BY <1>7, <1>8, RepresentReduced DEF Init
<1>10. (A * V) % M = 1 % M /\ (((A * A) % M) * V) % M = B % M
  <2>1. (V * B) % M = 1 % M /\ A = B % M
    BY <1>4, <1>6, <1>7
  <2>2. IsInverse(V, B, M)
    BY <2>1, Zenon DEF IsInverse
  <2> DEFINE Y == B % M
  <2>3. (Y * V) % M = 1 % M /\ (((Y * Y) % M) * V) % M = B % M
    BY <2>2, FormsOfOne, Zenon
  <2>4. Y = A
    BY <2>1, Zenon
  <2> HIDE DEF Y
  <2>5. QED
    BY <2>3, <2>4, Zenon
<1>11. FromMontgomery(a) = 1 % M /\ FromMontgomery(r2) = B % M
  <2>1. FromMontgomery(a) = (A * V) % M
    BY <1>4, <1>7, Zenon
  <2>2. FromMontgomery(r2) = (((A * A) % M) * V) % M
    BY <1>4, <1>7, <1>9, Zenon
  <2>3. QED
    BY <1>10, <2>1, <2>2, Zenon
<1>12. mInv \in Digit /\ (mInv * Value(m) + 1) % DigitRadix = 0
  BY <1>3, InverseExists DEF Init
<1>13. Proper(acc) /\ ~acc.neg /\ Value(acc) = 0
  BY <1>4, NewExact DEF Init
<1>14. /\ xBar = BigNumDefault /\ result = BigNumDefault
       /\ Proper(BigNumDefault) /\ ~BigNumDefault.neg /\ Value(BigNumDefault) = 0
  <2>1. Proper(BigNumDefault) /\ Value(BigNumDefault) = 0
    BY DefaultExact
  <2>2. QED
    BY <2>1, Nonnegative DEF Init
<1>15. NonnegativeObjects
  BY <1>1, <1>2, <1>3, <1>6, <1>9, <1>13, <1>14 DEF NonnegativeObjects
<1>16. ArgumentsFit
  <2>1. x.used <= m.used
    BY DEF Init
  <2>2. Value(r2) < Value(m) /\ FromMontgomery(r2) = R(m) % Value(m)
    BY <1>7, <1>9, <1>11
  <2>3. QED
    BY <1>1, <1>2, <1>3, <1>5, <1>6, <1>12, <2>1, <2>2 DEF ArgumentsFit
<1>17. QED
  BY <1>6, <1>7, <1>11, <1>13, <1>14, <1>15, <1>16

(* They satisfy the invariant. *)
LEMMA InitIInv ==
  ASSUME BasesHoldModuli, Init
  PROVE  IInv
<1>1. /\ NonnegativeObjects /\ ArgumentsFit
      /\ FromMontgomery(a) = 1 % Value(m)
      /\ Value(a) < Value(m) /\ Value(xBar) = 0 /\ Value(result) = 0
      /\ Value(acc) = 0
  BY InitArguments
<1>2. /\ Proper(e) /\ ~e.neg /\ Proper(m) /\ Value(m) \in Moduli
      /\ Proper(x) /\ ~x.neg /\ Proper(r2) /\ ~r2.neg
  BY <1>1 DEF NonnegativeObjects, ArgumentsFit
<1>3. Value(m) \in Nat \ {0} /\ m.used \in Nat \ {0}
  BY <1>2, ModulusExact
<1>4. call = "xBar" /\ i = 0 /\ it = Biterator(e) /\ First = x /\ Second = r2
  BY DEF Init, First, Second
<1>5. IsPosition(e, it) /\ BitsLeft(it) = NumberBits(e)
  BY <1>2, <1>4, BiteratorExact
<1>6. Position
  BY <1>3, <1>4, <1>5 DEF Position
<1>7. LoopCongruence
  <2>1. PICK M \in Nat \ {0}, F \in Nat, S \in Nat :
          M = Value(m) /\ F = Value(x) /\ S = Value(r2)
    BY <1>2, <1>3, Nonnegative
  <2>2. Pow2[DigitBits * i] = 1
    BY <1>4, Weights DEF Weight
  <2>3. F % 1 = 0 /\ 0 * 1 - 0 * S = 0 /\ 0 % M = 0
    OBVIOUS
  <2>4. (0 * 1 - (F % 1) * S) % M = 0
    BY <2>3
  <2>5. QED
    BY <1>1, <1>4, <2>1, <2>2, <2>4, Zenon DEF LoopCongruence
<1>8. ProductsReduced
  <2>1. PICK M \in Nat \ {0}, S \in Nat : M = Value(m) /\ S = Value(r2)
    BY <1>2, <1>3, Nonnegative
  <2>2. 0 < M + S /\ 0 < M
    OBVIOUS
  <2>3. QED
    BY <1>1, <1>4, <2>1, <2>2 DEF ProductsReduced
<1>9. PowersExact
  <2>1. PICK N \in Nat, n \in Nat, P \in Nat \ {0} :
          N = Value(e) /\ n = NumberBits(e) /\ P = Pow2[n] /\ N < P
    <3>1. Value(e) \in Nat /\ Value(e) = Magnitude(e)
      BY <1>2, Nonnegative
    <3>2. NumberBits(e) \in Nat /\ Magnitude(e) < Pow2[NumberBits(e)]
      BY <1>2, NumberBitsExact
    <3>3. Pow2[NumberBits(e)] \in Nat \ {0}
      BY <3>2, Pow2Unfold
    <3>4. QED
      BY <3>1, <3>2, <3>3
  <2>2. N \div P = 0
    BY <2>1
  <2>3. it.digit * DigitBits + it.bits = n
    BY <1>5, <2>1 DEF BitsLeft
  <2>4. Power!Pow(Value(x), Value(m))[0] = 1 % Value(m)
    <3>1. Value(x) \in Nat
      BY <1>2, Nonnegative
    <3>2. QED
      BY <1>3, <3>1, PowUnfold
  <2>5. Value(e) \div Power!Pow2[it.digit * DigitBits + it.bits] = 0
    BY <2>1, <2>2, <2>3, SamePowers, Zenon
  <2>6. (call = "times") = FALSE
    BY <1>4
  <2>7. Power!PowerOfPrefix
    BY <1>1, <2>4, <2>5, <2>6, Zenon DEF Power!PowerOfPrefix
  <2>8. QED
    BY <1>4, <2>7 DEF PowersExact
<1>10. QED
  BY <1>1, <1>6, <1>7, <1>8, <1>9 DEF IInv

-----------------------------------------------------------------------------
(***************************************************************************)
(* The steps.                                                              *)
(***************************************************************************)
(* What every object is in a state of the invariant. *)
LEMMA Objects ==
  ASSUME IInv
  PROVE  /\ \A v \in {x, e, m, r2, xBar, a, acc, result} :
              Proper(v) /\ ~v.neg /\ Value(v) \in Nat
         /\ Value(m) \in Nat \ {0} /\ Value(m) \in Moduli /\ m.used \in Nat \ {0}
         /\ mInv \in Digit /\ i \in 0 .. m.used
<1>1. \A v \in {x, e, m, r2, xBar, a, acc, result} : Proper(v) /\ ~v.neg
  BY DEF IInv, NonnegativeObjects
<1>2. \A v \in {x, e, m, r2, xBar, a, acc, result} : Value(v) \in Nat
  BY <1>1, Nonnegative
<1>3. Value(m) \in Moduli /\ mInv \in Digit /\ i \in 0 .. m.used
  BY DEF IInv, ArgumentsFit, Position
<1>4. Value(m) \in Nat \ {0} /\ m.used \in Nat \ {0}
  BY <1>1, <1>3, ModulusExact
<1>5. QED
  BY <1>1, <1>2, <1>3, <1>4

(* The operands of the multiplication being executed: the first has a word for *)
(* each digit of the modulus, the second is at most the modulus.               *)
LEMMA Operands ==
  ASSUME IInv
  PROVE  /\ Proper(First) /\ ~First.neg /\ First.size >= m.used
         /\ Value(First) \in Nat /\ Value(First) < Weight(m.used)
         /\ Proper(Second) /\ ~Second.neg
         /\ Value(Second) \in Nat /\ Value(Second) <= Value(m)
<1>1. PICK M \in Nat \ {0} : M = Value(m)
  BY Objects
<1>2. /\ \A v \in {x, e, m, r2, xBar, a, acc, result} :
              Proper(v) /\ ~v.neg /\ Value(v) \in Nat
      /\ m.used \in Nat /\ Weight(m.used) \in Nat
  BY Objects, Weights
<1>3. First = x \/ First = a
  BY DEF First
<1>4. Second \in {r2, a, xBar, One}
  BY DEF Second
<1>5. First.size >= m.used
  BY <1>3 DEF IInv, ArgumentsFit
<1>6. Value(x) < Weight(m.used)
  <2>1. Value(x) < Weight(x.used) /\ x.used \in Nat
    BY <1>2, Nonnegative
  <2>2. x.used <= m.used
    BY DEF IInv, ArgumentsFit
  <2>3. Weight(x.used) <= Weight(m.used) /\ Weight(x.used) \in Nat
    BY <1>2, <2>1, <2>2, WeightsGrow, Weights
  <2>4. QED
    BY <1>2, <2>1, <2>3
<1>7. /\ Value(a) < M /\ Value(xBar) < M /\ Value(r2) < M
  BY <1>1 DEF IInv, ArgumentsFit, ProductsReduced
<1>8. Value(a) < Weight(m.used)
  <2>1. M < Weight(m.used)
    BY <1>1, <1>2, Nonnegative
  <2>2. QED
    BY <1>2, <1>7, <2>1
<1>9. Proper(One) /\ ~One.neg /\ Value(One) = 1
  BY OneExact
<1>10. \A v \in {r2, a, xBar, One} :
         Proper(v) /\ ~v.neg /\ Value(v) \in Nat /\ Value(v) <= M
  BY <1>2, <1>7, <1>9
<1>11. QED
  BY <1>1, <1>2, <1>3, <1>4, <1>5, <1>6, <1>8, <1>10

(* The congruence of the loop, on the weights. *)
LEMMA LoopCongruent ==
  LoopCongruence <=> Congruent(Value(acc) * Weight(i),
                               (Value(First) % Weight(i)) * Value(Second), Value(m))
BY Zenon DEF LoopCongruence, Congruent, Weight

(* What a turn adds to the accumulator. *)
LEMMA TurnAccumulates ==
  ASSUME IInv, Turn
  PROVE  /\ Proper(acc') /\ ~acc'.neg
         /\ Value(acc') < Value(m) + Value(Second)
         /\ \E d \in Digit, u \in Nat :
              /\ d = (Value(First) \div Weight(i)) % DigitRadix
              /\ TurnAdds(Value(acc), d, Value(Second), u, Value(m),
                          DigitRadix, Value(acc'))
<1>1. /\ i \in Nat /\ i < m.used /\ Proper(First) /\ ~First.neg
      /\ First.size >= m.used /\ m.used \in Nat /\ First.size \in Nat
  BY Objects, Operands, Fields DEF Turn, Proper, Safe
<1>2. i < First.size
  BY <1>1
<1>3. PICK d : d = First.dig[i]
  OBVIOUS
<1>4. d = (Value(First) \div Weight(i)) % DigitRadix /\ d \in Digit
  BY <1>1, <1>2, <1>3, DigitRead
<1>5. acc' = RightDigitShift(
               AddEq(acc, AddEq(MulDigit(Second, d), MulDigit(m, Ui(d)))), 1)
  BY <1>2, <1>3 DEF Turn, GetDigit
<1>6. /\ Proper(acc) /\ ~acc.neg /\ Proper(Second) /\ ~Second.neg
      /\ Proper(m) /\ ~m.neg /\ mInv \in Digit
      /\ (mInv * Value(m) + 1) % DigitRadix = 0
      /\ Value(acc) < Value(m) + Value(Second)
  BY Objects, Operands DEF IInv, ArgumentsFit, ProductsReduced
<1> DEFINE u == TurnMultiple(acc, Second, d, mInv)
           z == TurnResult(acc, Second, m, d, u)
<1>7. /\ Proper(z) /\ ~z.neg /\ u \in Nat
      /\ Value(acc) + (d * Value(Second) + u * Value(m)) = DigitRadix * Value(z)
      /\ Value(z) < Value(m) + Value(Second)
  BY <1>4, <1>6, TurnExact
<1>8. acc' = z
  BY <1>5, Zenon DEF Ui, TurnMultiple, TurnResult
<1> HIDE DEF z, u
<1>9. TurnAdds(Value(acc), d, Value(Second), u, Value(m), DigitRadix, Value(acc'))
  BY <1>7, <1>8, Zenon DEF TurnAdds
<1>10. QED
  BY <1>4, <1>7, <1>8, <1>9, Zenon

(* v out of the Montgomery form of modulus n. *)
Form(v, n) == (Value(v) * InverseOfR(n)) % Value(n)

(* FromMontgomery is that, in this state and in the next. *)
LEMMA Forms ==
  /\ \A v : FromMontgomery(v) = Form(v, m)
  /\ FromMontgomery(a)' = Form(a', m')
  /\ FromMontgomery(xBar)' = Form(xBar', m')
  /\ FromMontgomery(r2)' = Form(r2', m')
BY DEF FromMontgomery, Form, InverseOfR

(* p is the power of b modulo M for the bits of n that have been read when l *)
(* are left, but for the last factor when t.                                 *)
PrefixIs(p, b, n, M, l, t) ==
  p = Power!Pow(b, M)[IF t THEN (n \div Pow2[l]) - 1 ELSE n \div Pow2[l]]

(* PowerOfPrefix says so, in this state and in the next. *)
LEMMA Prefix ==
  /\ Power!PowerOfPrefix <=>
       PrefixIs(Form(a, m), Value(x), Value(e), Value(m), BitsLeft(it), call = "times")
  /\ Power!PowerOfPrefix' <=>
       PrefixIs(Form(a', m'), Value(x'), Value(e'), Value(m'), BitsLeft(it'),
                call' = "times")
<1>1. FromMontgomery(a) = Form(a, m) /\ FromMontgomery(a)' = Form(a', m')
  BY Forms
<1>2. QED
  BY <1>1, SamePowers, Zenon DEF Power!PowerOfPrefix, PrefixIs, BitsLeft

(* No step changes the arguments, so they stay what the callers pass. *)
LEMMA ArgumentsKept ==
  ASSUME IInv, UNCHANGED <<x, e, m, mInv, r2>>, m.used <= a'.size
  PROVE  ArgumentsFit'
<1>1. ArgumentsFit
  BY DEF IInv
<1>2. FromMontgomery(r2)' = FromMontgomery(r2)
  BY Forms
<1>3. QED
  BY <1>1, <1>2 DEF ArgumentsFit

(* The congruence of the loop in the next state. *)
LEMMA LoopCongruentNext ==
  LoopCongruence' <=> Congruent(Value(acc') * Weight(i'),
                                (Value(First') % Weight(i')) * Value(Second'),
                                Value(m'))
BY Zenon DEF LoopCongruence, Congruent, Weight

(* A turn keeps the congruence. *)
LEMMA TurnKeepsCongruence ==
  ASSUME IInv, Turn
  PROVE  LoopCongruence'
<1>1. PICK A \in Nat, S \in Nat, M \in Nat \ {0}, G \in Nat, W \in Nat \ {0},
           Q \in Nat \ {0} :
        /\ A = Value(acc) /\ S = Value(Second) /\ M = Value(m)
        /\ G = Value(First) /\ W = Weight(i) /\ Q = DigitRadix
  <2>1. /\ Value(acc) \in Nat /\ Value(Second) \in Nat /\ Value(m) \in Nat \ {0}
        /\ Value(First) \in Nat /\ Weight(i) \in Nat \ {0}
        /\ DigitRadix \in Nat \ {0}
    BY Objects, Operands, Weights, RadixPositive
  <2>2. QED
    BY <2>1
<1>2. PICK d \in Digit, u \in Nat :
        /\ d = (Value(First) \div Weight(i)) % DigitRadix
        /\ TurnAdds(Value(acc), d, Value(Second), u, Value(m), DigitRadix, Value(acc'))
  BY TurnAccumulates
<1>3. d = (G \div W) % Q /\ TurnAdds(A, d, S, u, M, Q, Value(acc'))
  BY <1>1, <1>2, Zenon
<1>4. d \in Nat
  BY <1>1 DEF Digit
<1>5. Value(acc') \in Int
  BY TurnAccumulates, Nonnegative
<1>6. PICK F \in Nat : F = G % W
  OBVIOUS
<1>7. Congruent(A * W, F * S, M)
  <2>1. LoopCongruence
    BY DEF IInv
  <2>2. QED
    BY <1>1, <1>6, <2>1, LoopCongruent, Zenon
<1>8. Congruent(Value(acc') * (W * Q), (F + W * d) * S, M)
  BY <1>3, <1>4, <1>5, <1>7, TurnCongruence, Zenon
<1>9. Weight(i') = W * Q
  BY <1>1, Weights, Objects DEF Turn
<1>10. G % (W * Q) = F + W * d
  <2>1. G \in Int
    OBVIOUS
  <2>2. G % (W * Q) = (G % W) + W * ((G \div W) % Q)
    BY <2>1, DivDiv, Zenon
  <2>3. QED
    BY <1>3, <1>6, <2>2, Zenon
<1>11. First' = First /\ Second' = Second /\ m' = m
  BY DEF Turn, First, Second
<1>12. QED
  BY <1>1, <1>8, <1>9, <1>10, <1>11, LoopCongruentNext, Zenon

(* A turn keeps the invariant. *)
LEMMA TurnKeeps ==
  ASSUME IInv, Turn
  PROVE  IInv'
<1>1. /\ UNCHANGED <<x, e, m, mInv, r2, xBar, a, it, call, result>>
      /\ i' = i + 1 /\ i < m.used
  BY DEF Turn
<1>2. First' = First /\ Second' = Second
  BY <1>1 DEF First, Second
<1>3. /\ Proper(acc') /\ ~acc'.neg /\ Value(acc') < Value(m) + Value(Second)
  BY TurnAccumulates
<1>4. NonnegativeObjects'
  BY <1>1, <1>3 DEF IInv, NonnegativeObjects
<1>5. ArgumentsFit'
  BY <1>1, ArgumentsKept DEF IInv, ArgumentsFit
<1>6. Position'
  <2>1. i' \in 0 .. m.used
    BY <1>1, Objects
  <2>2. QED
    BY <1>1, <2>1 DEF IInv, Position
<1>7. ProductsReduced'
  BY <1>1, <1>2, <1>3 DEF IInv, ProductsReduced
<1>8. PowersExact'
  <2>1. Power!PowerOfPrefix'
    BY <1>1, Prefix DEF IInv, PowersExact
  <2>2. FromMontgomery(xBar)' = FromMontgomery(xBar)
        /\ FromMontgomery(a)' = FromMontgomery(a)
    BY <1>1, Forms
  <2>3. QED
    BY <1>1, <2>1, <2>2 DEF IInv, PowersExact
<1>9. QED
  BY <1>4, <1>5, <1>6, <1>7, <1>8, TurnKeepsCongruence DEF IInv

(* The subtraction of the modulus keeps the congruence. *)
LEMMA ReducedCongruent ==
  ASSUME NEW M \in Nat \ {0}, NEW A \in Int, NEW B \in Int, NEW T \in Int,
         Congruent(A * B, T, M)
  PROVE  Congruent((A - M) * B, T, M)
<1>1. PICK k \in Int : A * B - T = M * k
  <2>1. PICK y \in Int : y = A * B - T
    OBVIOUS
  <2>2. y % M = 0
    BY <2>1, Zenon DEF Congruent
  <2>3. QED
    BY <2>1, <2>2, ZeroRemainder
<1>2. (A - M) * B - T = M * (k - B)
  <2>1. (A - M) * B = A * B - M * B /\ M * (k - B) = M * k - M * B
    OBVIOUS
  <2>2. PICK y \in Int, z \in Int, v \in Int : y = A * B /\ z = M * B /\ v = M * k
    OBVIOUS
  <2>3. (y - z) - T = v - z
    BY <1>1, <2>2
  <2>4. QED
    BY <2>1, <2>2, <2>3
<1>3. (A - M) * B - T \in Int /\ k - B \in Int
  OBVIOUS
<1>4. QED
  BY <1>2, <1>3, ZeroRemainder DEF Congruent

(* The base times R modulo m is in Montgomery form what it was out of it. *)
LEMMA IntoForm ==
  ASSUME NEW M \in Nat \ {0}, NEW X \in Nat, NEW B \in Nat, NEW V \in Nat,
         IsInverse(V, B, M)
  PROVE  (((X * V) % M) * (B % M)) % M = X % M
<1>1. PICK g \in Int, f \in Int, h \in Int, b \in Int :
        g = X * V /\ f = X /\ h = V * B /\ b = B
  OBVIOUS
<1>2. ((g % M) * (b % M)) % M = ((g % M) * b) % M
  <2>1. g % M \in Int
    BY RemainderSplit
  <2>2. QED
    BY <2>1, ReduceFactor
<1>3. ((g % M) * b) % M = (g * b) % M
  BY ReduceFactor
<1>4. g * b = f * h
  BY <1>1
<1>5. (f * (h % M)) % M = (f * h) % M
  BY ReduceFactor
<1>6. h % M = 1 % M
  BY <1>1, Zenon DEF IsInverse
<1>7. (f * (1 % M)) % M = (f * 1) % M
  <2>1. 1 \in Int
    OBVIOUS
  <2>2. QED
    BY <2>1, ReduceFactor, Zenon
<1>8. f * 1 = f
  OBVIOUS
<1>9. ((g % M) * (b % M)) % M = f % M
  BY <1>2, <1>3, <1>4, <1>5, <1>6, <1>7, <1>8, Zenon
<1>10. QED
  BY <1>1, <1>9, Zenon

(* A reduced product by 1 is its other operand out of Montgomery's form. *)
LEMMA OutOfForm ==
  ASSUME NEW M \in Nat \ {0}, NEW p \in Nat, p < M, NEW A \in Nat,
         NEW B \in Nat, NEW V \in Nat,
         Congruent(p * B, A * 1, M), IsInverse(V, B, M)
  PROVE  p = (A * V) % M
<1>1. PICK k \in Int : p * B = A + M * k
  <2>1. PICK y \in Int : y = p * B - A * 1
    OBVIOUS
  <2>2. y % M = 0
    BY <2>1, Zenon DEF Congruent
  <2>3. PICK k \in Int : y = M * k
    BY <2>2, ZeroRemainder
  <2>4. p * B \in Int /\ A * 1 = A
    OBVIOUS
  <2>5. QED
    BY <2>1, <2>3, <2>4
<1>2. PICK j \in Int : V * B = 1 + M * j
  <2>1. PICK w \in Int, o \in Int : w = V * B /\ o = 1
    OBVIOUS
  <2>2. w % M = o % M
    BY <2>1, Zenon DEF IsInverse
  <2>3. PICK j1 \in Int : w = (w % M) + M * j1
    BY RemainderSplit
  <2>4. PICK j2 \in Int : o = (o % M) + M * j2
    BY RemainderSplit
  <2>5. PICK q1 \in Int, q2 \in Int, r \in Int :
          q1 = M * j1 /\ q2 = M * j2 /\ r = w % M
    OBVIOUS
  <2>6. w = r + q1 /\ o = r + q2
    BY <2>2, <2>3, <2>4, <2>5
  <2>7. w = o + (q1 - q2)
    BY <2>6
  <2>8. q1 - q2 = M * (j1 - j2)
    BY <2>5
  <2>9. j1 - j2 \in Int
    OBVIOUS
  <2>10. QED
    BY <2>1, <2>7, <2>8, <2>9
<1>3. p = A * V + M * (k * V - p * j)
  <2>1. p * (1 + M * j) = p + M * (p * j)
    OBVIOUS
  <2>2. (A + M * k) * V = A * V + M * (k * V)
    OBVIOUS
  <2>3. p * (V * B) = (p * B) * V
    OBVIOUS
  <2>4. M * (k * V - p * j) = M * (k * V) - M * (p * j)
    OBVIOUS
  <2>5. PICK y \in Int, z \in Int, v \in Int :
          y = M * (p * j) /\ z = M * (k * V) /\ v = A * V
    OBVIOUS
  <2>6. p + y = v + z
    BY <1>1, <1>2, <2>1, <2>2, <2>3, <2>5
  <2>7. p = v + (z - y)
    BY <2>6
  <2>8. QED
    BY <2>4, <2>5, <2>7
<1>4. PICK g \in Int, c \in Int, q \in Int : g = A * V /\ c = k * V - p * j /\ q = p
  OBVIOUS
<1>5. q = g + M * c
  BY <1>3, <1>4
<1>6. q % M = g % M
  BY <1>5, SameRemainder, Zenon
<1>7. q % M = q
  <2>1. q \in Nat /\ q < M
    BY <1>4
  <2>2. QED
    BY <2>1
<1>8. QED
  BY <1>4, <1>6, <1>7

(* Reading one more bit doubles what was read, and adds the bit. *)
LEMMA ReadMore ==
  ASSUME NEW n \in Nat, NEW l \in Nat, l > 0
  PROVE  LET r == n \div Pow2[l - 1]
         IN  r \in Nat /\ n \div Pow2[l] \in Nat
             /\ r = 2 * (n \div Pow2[l]) + (r % 2) /\ r % 2 \in {0, 1}
<1>1. l - 1 \in Nat /\ (l - 1) + 1 = l
  OBVIOUS
<1>2. PICK P \in Nat \ {0} : P = Pow2[l - 1]
  BY <1>1, Pow2Unfold
<1>3. Pow2[l] = P * 2
  <2>1. Pow2[(l - 1) + 1] = 2 * Pow2[l - 1]
    BY <1>1, Pow2Unfold
  <2>2. 2 * P = P * 2
    OBVIOUS
  <2>3. QED
    BY <1>1, <1>2, <2>1, <2>2
<1>4. n \div (P * 2) = (n \div P) \div 2
  <2>1. n \in Int /\ 2 \in Nat \ {0}
    OBVIOUS
  <2>2. QED
    BY <2>1, DivDiv, Zenon
<1>5. PICK r \in Nat : r = n \div P
  OBVIOUS
<1>6. r = 2 * (r \div 2) + (r % 2) /\ r % 2 \in {0, 1} /\ r \div 2 \in Nat
  OBVIOUS
<1> DEFINE r1 == n \div Pow2[l - 1]
           h1 == n \div Pow2[l]
<1>7. h1 = r \div 2
  BY <1>3, <1>4, <1>5, Zenon
<1>8. r1 = r
  BY <1>2, <1>5, Zenon
<1> HIDE DEF r1, h1
<1>9. r1 \in Nat /\ h1 \in Nat /\ r1 = 2 * h1 + (r1 % 2) /\ r1 % 2 \in {0, 1}
  BY <1>6, <1>7, <1>8
<1>10. QED
  BY <1>9 DEF r1, h1

(* Squaring takes the power to the bits read with the next one, but for its *)
(* factor when it is set.                                                   *)
LEMMA PrefixSquared ==
  ASSUME NEW b \in Nat, NEW n \in Nat, NEW M \in Nat \ {0}, NEW l \in Nat, l > 0,
         NEW p, PrefixIs(p, b, n, M, l, FALSE)
  PROVE  PrefixIs((p * p) % M, b, n, M, l - 1, (n \div Pow2[l - 1]) % 2 # 0)
<1> DEFINE f == Power!Pow(b, M)
<1>1. PICK r \in Nat, h \in Nat :
        /\ r = n \div Pow2[l - 1] /\ h = n \div Pow2[l]
        /\ r = 2 * h + (r % 2) /\ r % 2 \in {0, 1}
  <2>1. /\ n \div Pow2[l - 1] \in Nat /\ n \div Pow2[l] \in Nat
        /\ n \div Pow2[l - 1] = 2 * (n \div Pow2[l]) + ((n \div Pow2[l - 1]) % 2)
        /\ (n \div Pow2[l - 1]) % 2 \in {0, 1}
    BY ReadMore
  <2>2. QED
    BY <2>1
<1>2. p = f[h]
  BY <1>1, Zenon DEF PrefixIs
<1>3. SumsToProducts(f, M)
  BY PowSum, Zenon
<1> HIDE DEF f
<1>4. (IF r % 2 # 0 THEN r - 1 ELSE r) = h + h
  BY <1>1
<1>5. (p * p) % M = f[IF r % 2 # 0 THEN r - 1 ELSE r]
  <2>1. f[h + h] = (f[h] * f[h]) % M
    BY <1>3, Zenon DEF SumsToProducts
  <2>2. QED
    BY <1>2, <1>4, <2>1, Zenon
<1>6. QED
  BY <1>1, <1>5, Zenon DEF PrefixIs, f

(* Multiplying by the base adds the factor of a bit that is set. *)
LEMMA PrefixTimes ==
  ASSUME NEW b \in Nat, NEW n \in Nat, NEW M \in Nat \ {0}, NEW l \in Nat,
         (n \div Pow2[l]) % 2 = 1,
         NEW p, PrefixIs(p, b, n, M, l, TRUE)
  PROVE  PrefixIs((p * b) % M, b, n, M, l, FALSE)
<1> DEFINE f == Power!Pow(b, M)
<1>1. PICK P \in Nat \ {0} : P = Pow2[l]
  BY Pow2Unfold
<1>2. PICK r \in Nat : r = n \div P
  OBVIOUS
<1>3. r % 2 = 1
  BY <1>1, <1>2, Zenon
<1>4. r - 1 \in Nat /\ (r - 1) + 1 = r
  BY <1>3
<1>5. p = f[r - 1]
  BY <1>1, <1>2, Zenon DEF PrefixIs
<1>6. \A k \in Nat : f[k + 1] = (f[k] * b) % M
  BY PowUnfold
<1> HIDE DEF f
<1>7. (p * b) % M = f[r]
  BY <1>4, <1>5, <1>6, Zenon
<1>8. QED
  BY <1>1, <1>2, <1>7, Zenon DEF PrefixIs, f

(* montgomery_multiply returns the reduced product: below the modulus, and out *)
(* of Montgomery's form the product of its operands out of it.                 *)
LEMMA ProductExact ==
  ASSUME IInv, i = m.used
  PROVE  /\ Proper(Product) /\ ~Product.neg
         /\ Value(Product) \in Nat /\ Value(Product) < Value(m)
         /\ Congruent(Value(Product) * R(m), Value(First) * Value(Second), Value(m))
         /\ Form(Product, m) = (Form(First, m) * Form(Second, m)) % Value(m)
<1>1. /\ R(m) = Weight(m.used) /\ R(m) \in Nat \ {0} /\ InverseOfR(m) \in Nat
      /\ (InverseOfR(m) * R(m)) % Value(m) = 1 % Value(m)
  BY Objects, Back
<1>2. PICK A \in Nat, S \in Nat, M \in Nat \ {0}, X \in Nat, B \in Nat, V \in Nat :
        /\ A = Value(acc) /\ S = Value(Second) /\ M = Value(m)
        /\ X = Value(First) /\ B = R(m) /\ V = InverseOfR(m)
  <2>1. /\ Value(acc) \in Nat /\ Value(Second) \in Nat /\ Value(m) \in Nat \ {0}
        /\ Value(First) \in Nat
    BY Objects, Operands
  <2>2. QED
    BY <1>1, <2>1
<1>3. A < M + S /\ S <= M /\ X < B
  BY <1>1, <1>2, Operands DEF IInv, ProductsReduced
<1>4. Congruent(A * B, X * S, M)
  <2>1. Congruent(A * B, (X % B) * S, M)
    BY <1>1, <1>2, LoopCongruent, Zenon DEF IInv
  <2>2. X % B = X
    BY <1>3
  <2>3. QED
    BY <2>1, <2>2
<1>5. IsInverse(V, B, M)
  BY <1>1, <1>2, Zenon DEF IsInverse
<1>6. Proper(acc) /\ Proper(m)
  BY Objects
<1>7. (Compare(acc, m) # "LessThan") <=> A >= M
  BY <1>2, <1>6, CompareIsOrder
<1>8. \E p \in Nat : /\ Proper(Product) /\ Value(Product) = p /\ p < M
                     /\ Congruent(p * B, X * S, M)
  <2>1. CASE A >= M
    <3>1. Product = SubEq(acc, m)
      BY <1>7, <2>1 DEF Product
    <3>2. Proper(Product) /\ Value(Product) = A - M
      BY <1>2, <1>6, <3>1, SubtractExact
    <3>3. A - M \in Nat /\ A - M < M
      BY <1>3, <2>1
    <3>4. PICK T \in Int, j \in Int, c \in Int : T = X * S /\ j = A /\ c = B
      OBVIOUS
    <3>5. Congruent((j - M) * c, T, M)
      BY <1>4, <3>4, ReducedCongruent, Zenon
    <3>6. Congruent((A - M) * B, X * S, M)
      BY <3>4, <3>5, Zenon
    <3>7. QED
      BY <3>2, <3>3, <3>6
  <2>2. CASE ~(A >= M)
    <3>1. Product = acc
      BY <1>7, <2>2 DEF Product
    <3>2. A < M
      BY <2>2
    <3>3. QED
      BY <1>2, <1>4, <1>6, <3>1, <3>2
  <2>3. QED
    BY <2>1, <2>2
<1>9. PICK p \in Nat : /\ Proper(Product) /\ Value(Product) = p /\ p < M
                       /\ Congruent(p * B, X * S, M)
  BY <1>8
<1>10. (p * V) % M = (((X * V) % M) * ((S * V) % M)) % M
  <2>1. IsProduct((p * V) % M, (X * V) % M, (S * V) % M, M)
    BY <1>5, <1>9, ProductBack, Zenon
  <2>2. QED
    BY <2>1, Zenon DEF IsProduct
<1>11. Form(Product, m) = (Form(First, m) * Form(Second, m)) % Value(m)
  BY <1>2, <1>9, <1>10, Zenon DEF Form
<1>12. ~Product.neg
  BY <1>9, Nonnegative
<1>13. QED
  BY <1>2, <1>9, <1>11, <1>12

(* The state in which a multiplication begins. *)
LEMMA Begins ==
  ASSUME IInv, UNCHANGED <<x, e, m, mInv, r2>>, acc' = New(m.used), i' = 0,
         \A v \in {xBar', a', result'} : Proper(v) /\ ~v.neg /\ Value(v) < Value(m),
         m.used <= a'.size
  PROVE  NonnegativeObjects' /\ ArgumentsFit' /\ LoopCongruence' /\ ProductsReduced'
<1>1. /\ \A v \in {x, e, m, r2} : Proper(v) /\ ~v.neg
      /\ Value(m) \in Nat \ {0} /\ m.used \in Nat \ {0}
  BY Objects
<1>2. Proper(acc') /\ ~acc'.neg /\ Value(acc') = 0
  BY <1>1, NewExact
<1>3. NonnegativeObjects'
  BY <1>1, <1>2 DEF NonnegativeObjects
<1>4. First' \in {x', a'} /\ Second' \in {r2', a', xBar', One}
  BY DEF First, Second
<1>5. Value(First') \in Nat /\ Value(Second') \in Nat
  BY <1>1, <1>4, OneExact, Nonnegative
<1>6. PICK X \in Nat, S \in Nat, M \in Nat \ {0} :
        X = Value(First') /\ S = Value(Second') /\ M = Value(m')
  BY <1>1, <1>5
<1>7. LoopCongruence'
  <2>1. Weight(i') = 1
    BY Weights
  <2>2. 0 * 1 - (X % 1) * S = 0 /\ 0 % M = 0
    <3>1. X % 1 = 0
      OBVIOUS
    <3>2. QED
      BY <3>1
  <2>3. Congruent(0 * 1, (X % 1) * S, M)
    BY <2>2, Zenon DEF Congruent
  <2>4. QED
    BY <1>2, <1>6, <2>1, <2>3, LoopCongruentNext, Zenon
<1>8. ProductsReduced'
  <2>1. 0 < M + S
    OBVIOUS
  <2>2. QED
    BY <1>2, <1>6, <2>1 DEF ProductsReduced
<1>9. QED
  BY <1>3, <1>7, <1>8, ArgumentsKept

(* The numbers that a step leaves alone are below the modulus. *)
LEMMA Below ==
  ASSUME IInv
  PROVE  \A v \in {xBar, a, result} : Proper(v) /\ ~v.neg /\ Value(v) < Value(m)
BY Objects DEF IInv, ProductsReduced

(* x_ is the base in Montgomery form. *)
LEMMA XBarReadyKeeps ==
  ASSUME IInv, XBarReady
  PROVE  IInv'
<1>1. /\ call = "xBar" /\ i = m.used /\ call' = LoopHead(it)
      /\ acc' = New(m.used) /\ i' = 0 /\ xBar' = Product
      /\ UNCHANGED <<x, e, m, mInv, r2, a, it, result>>
  BY DEF XBarReady, Returned
<1>2. /\ Proper(Product) /\ ~Product.neg /\ Value(Product) < Value(m)
      /\ Form(Product, m) = (Form(x, m) * Form(r2, m)) % Value(m)
  BY <1>1, ProductExact DEF First, Second
<1>3. NonnegativeObjects' /\ ArgumentsFit' /\ LoopCongruence' /\ ProductsReduced'
  <2>1. \A v \in {xBar', a', result'} : Proper(v) /\ ~v.neg /\ Value(v) < Value(m)
    BY <1>1, <1>2, Below
  <2>2. m.used <= a'.size
    BY <1>1 DEF IInv, ArgumentsFit
  <2>3. QED
    BY <1>1, <2>1, <2>2, Begins
<1>4. Position'
  <2>1. 0 \in 0 .. m.used
    BY Objects
  <2>2. IsPosition(e', it')
    BY <1>1 DEF IInv, Position
  <2>3. QED
    BY <1>1, <2>1, <2>2 DEF Position, LoopHead
<1>5. FromMontgomery(xBar)' = Value(x) % Value(m)
  <2>1. PICK M \in Nat \ {0}, X \in Nat, B \in Nat, V \in Nat :
          M = Value(m) /\ X = Value(x) /\ B = R(m) /\ V = InverseOfR(m)
    BY Objects, Back
  <2>2. IsInverse(V, B, M)
    BY <2>1, Objects, Back, Zenon DEF IsInverse
  <2>3. Form(x, m) = (X * V) % M
    BY <2>1, Zenon DEF Form
  <2>4. Form(r2, m) = B % M
    BY <2>1, Forms, Zenon DEF IInv, ArgumentsFit
  <2>5. (((X * V) % M) * (B % M)) % M = X % M
    BY <2>2, IntoForm
  <2>6. Form(Product, m) = X % M
    BY <1>2, <2>1, <2>3, <2>4, <2>5, Zenon
  <2>7. FromMontgomery(xBar)' = Form(Product, m)
    BY <1>1, Forms
  <2>8. QED
    BY <2>1, <2>6, <2>7
<1>6. PowersExact'
  <2>1. (call = "times") = (call' = "times")
    BY <1>1 DEF LoopHead
  <2>2. Power!PowerOfPrefix'
    BY <1>1, <2>1, Prefix DEF IInv, PowersExact
  <2>3. call' # "returned"
    BY <1>1 DEF LoopHead
  <2>4. QED
    BY <1>1, <1>5, <2>2, <2>3 DEF PowersExact
<1>7. QED
  BY <1>3, <1>4, <1>6 DEF IInv

(* The product is assigned to the power. *)
LEMMA AssignProduct ==
  ASSUME IInv, i = m.used, a' = Assign(a, Product)
  PROVE  /\ Proper(a') /\ ~a'.neg /\ Value(a') < Value(m) /\ m.used <= a'.size
         /\ Form(a', m) = (Form(First, m) * Form(Second, m)) % Value(m)
<1>1. /\ Proper(Product) /\ ~Product.neg /\ Value(Product) < Value(m)
      /\ Form(Product, m) = (Form(First, m) * Form(Second, m)) % Value(m)
  BY ProductExact
<1>2. Safe(a) /\ Safe(Product) /\ m.used \in Nat /\ m.used <= a.size /\ a.size \in Nat
  BY <1>1, Objects, Fields DEF Proper, Safe, IInv, ArgumentsFit
<1>3. Proper(a') /\ Value(a') = Value(Product)
  BY <1>1, <1>2, AssignExact
<1>4. a'.size >= a.size /\ a'.neg = Product.neg
  BY <1>1, <1>2, AssignSafe
<1>5. a'.size \in Nat
  BY <1>3, Fields DEF Proper, Safe
<1>6. Form(a', m) = Form(Product, m)
  BY <1>3 DEF Form
<1>7. QED
  BY <1>1, <1>2, <1>3, <1>4, <1>5, <1>6

(* The base stays in Montgomery form. *)
LEMMA BaseKept ==
  ASSUME IInv, call # "xBar", UNCHANGED <<x, m, xBar>>
  PROVE  FromMontgomery(xBar)' = Value(x') % Value(m')
<1>1. Form(xBar, m) = Value(x) % Value(m)
  BY Forms DEF IInv, PowersExact
<1>2. QED
  BY <1>1, Forms

(* The squaring for a bit of the exponent. *)
LEMMA SquareReadyKeeps ==
  ASSUME IInv, SquareReady
  PROVE  /\ IInv'
         /\ BitsLeft(it) > 0 /\ BitsLeft(it') = BitsLeft(it) - 1
         /\ Form(a', m) = (Form(a, m) * Form(a, m)) % Value(m)
         /\ (call' = "times") <=> (Value(e) \div Pow2[BitsLeft(it) - 1]) % 2 = 1
<1>1. /\ call = "square" /\ i = m.used /\ it' = NextBit(it)
      /\ call' = IF BitAt(e, it) # 0 THEN "times" ELSE LoopHead(it')
      /\ acc' = New(m.used) /\ i' = 0 /\ a' = Assign(a, Product)
      /\ UNCHANGED <<x, e, m, mInv, r2, xBar, result>>
  BY DEF SquareReady, Returned
<1>2. /\ Proper(a') /\ ~a'.neg /\ Value(a') < Value(m) /\ m.used <= a'.size
      /\ Form(a', m) = (Form(a, m) * Form(a, m)) % Value(m)
  BY <1>1, AssignProduct DEF First, Second
<1>3. NonnegativeObjects' /\ ArgumentsFit' /\ LoopCongruence' /\ ProductsReduced'
  <2>1. \A v \in {xBar', a', result'} : Proper(v) /\ ~v.neg /\ Value(v) < Value(m)
    BY <1>1, <1>2, Below
  <2>2. QED
    BY <1>1, <1>2, <2>1, Begins
<1>4. IsPosition(e, it) /\ HasBits(it) /\ Safe(e) /\ e.used \in Nat
  BY <1>1, Objects, Fields DEF IInv, Position, Proper, Safe
<1>5. IsPosition(e, it') /\ BitsLeft(it') = BitsLeft(it) - 1
  BY <1>1, <1>4, NextBitExact
<1> DEFINE p == Form(a, m)
<1>6. PICK l \in Nat, n \in Nat, b \in Nat, M \in Nat \ {0} :
        /\ l = BitsLeft(it) /\ l > 0 /\ n = Value(e) /\ b = Value(x) /\ M = Value(m)
  <2>1. BitsLeft(it) - 1 \in Nat /\ BitsLeft(it) \in Int
    BY <1>4, BitAtExact, DigitBitsAssumption DEF BitsLeft, IsPosition
  <2>2. BitsLeft(it) \in Nat /\ BitsLeft(it) > 0
    BY <2>1
  <2>3. Value(e) \in Nat /\ Value(x) \in Nat /\ Value(m) \in Nat \ {0}
    BY Objects
  <2>4. QED
    BY <2>2, <2>3
<1>7. BitAt(e, it) = (n \div Pow2[l - 1]) % 2
  <2>1. BitAt(e, it) = (Magnitude(e) \div Pow2[BitsLeft(it) - 1]) % 2
    BY <1>4, BitAtExact
  <2>2. Magnitude(e) = n
    BY <1>6, Objects, Nonnegative
  <2>3. QED
    BY <1>6, <2>1, <2>2, Zenon
<1>8. PICK bit \in {0, 1} : bit = (n \div Pow2[l - 1]) % 2
  BY <1>6, ReadMore
<1>9. BitAt(e, it) = bit
  BY <1>7, <1>8, Zenon
<1>10. (call' = "times") <=> bit = 1
  BY <1>1, <1>9 DEF LoopHead
<1>11. Position'
  <2>1. 0 \in 0 .. m.used
    BY Objects
  <2>2. call' = "times" => (Value(e) \div Pow2[BitsLeft(it')]) % 2 = 1
    BY <1>5, <1>6, <1>8, <1>10, Zenon
  <2>3. /\ call' \in {"square", "times", "last"}
        /\ call' = "square" => HasBits(it')
        /\ call' = "last" => ~HasBits(it')
    BY <1>1 DEF LoopHead
  <2>4. QED
    BY <1>1, <1>5, <2>1, <2>2, <2>3 DEF Position
<1>12. PowersExact'
  <2>1. PrefixIs(p, b, n, M, l, FALSE)
    <3>1. (call = "times") = FALSE
      BY <1>1
    <3>2. QED
      BY <1>6, <3>1, Prefix DEF IInv, PowersExact
  <2>2. PrefixIs((p * p) % M, b, n, M, l - 1, (n \div Pow2[l - 1]) % 2 # 0)
    BY <1>6, <2>1, PrefixSquared
  <2>3. ((n \div Pow2[l - 1]) % 2 # 0) = (call' = "times")
    <3>1. (bit # 0) <=> (bit = 1)
      BY <1>8
    <3>2. QED
      BY <1>8, <1>10, <3>1, Zenon
  <2>4. PrefixIs((p * p) % M, b, n, M, l - 1, call' = "times")
    BY <2>2, <2>3, Zenon
  <2>5. Form(a', m') = (p * p) % M
    BY <1>1, <1>2, <1>6
  <2>6. Power!PowerOfPrefix'
    BY <1>1, <1>5, <1>6, <2>4, <2>5, Prefix, Zenon
  <2>7. call' # "returned"
    BY <1>1 DEF LoopHead
  <2>8. FromMontgomery(xBar)' = Value(x') % Value(m')
    BY <1>1, BaseKept
  <2>9. QED
    BY <2>6, <2>7, <2>8 DEF PowersExact
<1>13. (call' = "times") <=> (Value(e) \div Pow2[BitsLeft(it) - 1]) % 2 = 1
  BY <1>6, <1>8, <1>10, Zenon
<1>14. QED
  BY <1>2, <1>3, <1>5, <1>6, <1>11, <1>12, <1>13 DEF IInv

(* The multiplication for a bit that is set. *)
LEMMA TimesReadyKeeps ==
  ASSUME IInv, TimesReady
  PROVE  /\ IInv'
         /\ Form(a', m) = (Form(a, m) * Value(x)) % Value(m)
<1>1. /\ call = "times" /\ i = m.used /\ call' = LoopHead(it)
      /\ acc' = New(m.used) /\ i' = 0 /\ a' = Assign(a, Product)
      /\ UNCHANGED <<x, e, m, mInv, r2, xBar, it, result>>
  BY DEF TimesReady, Returned
<1>2. /\ Proper(a') /\ ~a'.neg /\ Value(a') < Value(m) /\ m.used <= a'.size
      /\ Form(a', m) = (Form(a, m) * Form(xBar, m)) % Value(m)
  BY <1>1, AssignProduct DEF First, Second
<1>3. NonnegativeObjects' /\ ArgumentsFit' /\ LoopCongruence' /\ ProductsReduced'
  <2>1. \A v \in {xBar', a', result'} : Proper(v) /\ ~v.neg /\ Value(v) < Value(m)
    BY <1>1, <1>2, Below
  <2>2. QED
    BY <1>1, <1>2, <2>1, Begins
<1>4. Position'
  <2>1. 0 \in 0 .. m.used
    BY Objects
  <2>2. IsPosition(e', it')
    BY <1>1 DEF IInv, Position
  <2>3. QED
    BY <1>1, <2>1, <2>2 DEF Position, LoopHead
<1>5. PICK l \in Nat, n \in Nat, p \in Int, b \in Nat, M \in Nat \ {0} :
        /\ l = BitsLeft(it) /\ n = Value(e) /\ p = Form(a, m)
        /\ b = Value(x) /\ M = Value(m)
  <2>1. BitsLeft(it) \in Nat
    <3>1. it.digit \in Nat /\ it.bits \in Nat /\ DigitBits \in Nat
      BY DigitBitsAssumption DEF IInv, Position, IsPosition
    <3>2. QED
      BY <3>1 DEF BitsLeft
  <2>2. Value(e) \in Nat /\ Value(x) \in Nat /\ Value(m) \in Nat \ {0}
    BY Objects
  <2>3. Form(a, m) \in Int
    <3>1. Value(a) \in Nat /\ InverseOfR(m) \in Nat
      BY Objects, Back
    <3>2. PICK y \in Int : y = Value(a) * InverseOfR(m)
      BY <3>1
    <3>3. PICK M \in Nat \ {0} : M = Value(m)
      BY <2>2
    <3>4. y % M \in Int
      BY RemainderSplit
    <3>5. QED
      BY <3>2, <3>3, <3>4, Zenon DEF Form
  <2>4. QED
    BY <2>1, <2>2, <2>3
<1>6. Form(a', m) = (p * b) % M
  <2>1. Form(xBar, m) = b % M
    BY <1>1, <1>5, Forms, Zenon DEF IInv, PowersExact
  <2>2. PICK c \in Int : c = b
    OBVIOUS
  <2>3. (p * (c % M)) % M = (p * c) % M
    BY ReduceFactor
  <2>4. QED
    BY <1>2, <1>5, <2>1, <2>2, <2>3, Zenon
<1>7. PowersExact'
  <2>1. PrefixIs(p, b, n, M, l, TRUE)
    <3>1. (call = "times") = TRUE
      BY <1>1
    <3>2. QED
      BY <1>5, <3>1, Prefix DEF IInv, PowersExact
  <2>2. (n \div Pow2[l]) % 2 = 1
    BY <1>1, <1>5, Zenon DEF IInv, Position
  <2>3. PrefixIs((p * b) % M, b, n, M, l, FALSE)
    BY <2>1, <2>2, PrefixTimes
  <2>4. (call' = "times") = FALSE
    BY <1>1 DEF LoopHead
  <2>5. PrefixIs((p * b) % M, b, n, M, l, call' = "times")
    BY <2>3, <2>4, Zenon
  <2>6. Power!PowerOfPrefix'
    BY <1>1, <1>5, <1>6, <2>5, Prefix, Zenon
  <2>7. call' # "returned"
    BY <1>1 DEF LoopHead
  <2>8. FromMontgomery(xBar)' = Value(x') % Value(m')
    BY <1>1, BaseKept
  <2>9. QED
    BY <2>6, <2>7, <2>8 DEF PowersExact
<1>8. Form(a', m) = (Form(a, m) * Value(x)) % Value(m)
  BY <1>5, <1>6, Zenon
<1>9. QED
  BY <1>3, <1>4, <1>7, <1>8 DEF IInv

(* The multiplication by 1 takes the power out of Montgomery's form. *)
LEMMA LastReadyKeeps ==
  ASSUME IInv, LastReady
  PROVE  IInv' /\ Value(result') = Form(a, m)
<1>1. /\ call = "last" /\ i = m.used /\ call' = "returned"
      /\ acc' = New(m.used) /\ i' = 0 /\ result' = Product
      /\ UNCHANGED <<x, e, m, mInv, r2, xBar, a, it>>
  BY DEF LastReady, Returned
<1>2. /\ Proper(Product) /\ ~Product.neg
      /\ Value(Product) \in Nat /\ Value(Product) < Value(m)
      /\ Congruent(Value(Product) * R(m), Value(a) * 1, Value(m))
  BY <1>1, ProductExact, OneExact DEF First, Second
<1>3. NonnegativeObjects' /\ ArgumentsFit' /\ LoopCongruence' /\ ProductsReduced'
  <2>1. \A v \in {xBar', a', result'} : Proper(v) /\ ~v.neg /\ Value(v) < Value(m)
    BY <1>1, <1>2, Below
  <2>2. m.used <= a'.size
    BY <1>1 DEF IInv, ArgumentsFit
  <2>3. QED
    BY <1>1, <2>1, <2>2, Begins
<1>4. Position'
  <2>1. 0 \in 0 .. m.used
    BY Objects
  <2>2. IsPosition(e', it') /\ ~HasBits(it')
    BY <1>1 DEF IInv, Position
  <2>3. QED
    BY <1>1, <2>1, <2>2 DEF Position
<1>5. Value(Product) = Form(a, m)
  <2>1. PICK M \in Nat \ {0}, p \in Nat, A \in Nat, B \in Nat, V \in Nat :
          /\ M = Value(m) /\ p = Value(Product) /\ A = Value(a)
          /\ B = R(m) /\ V = InverseOfR(m)
    BY <1>2, Objects, Back
  <2>2. IsInverse(V, B, M)
    BY <2>1, Objects, Back, Zenon DEF IsInverse
  <2>3. p < M
    BY <1>2, <2>1
  <2>4. Congruent(p * B, A * 1, M)
    BY <1>2, <2>1, Zenon
  <2>5. p = (A * V) % M
    BY <2>2, <2>3, <2>4, OutOfForm
  <2>6. QED
    BY <2>1, <2>5, Zenon DEF Form
<1>6. PowersExact'
  <2>1. (call = "times") = (call' = "times")
    BY <1>1
  <2>2. Power!PowerOfPrefix'
    BY <1>1, <2>1, Prefix DEF IInv, PowersExact
  <2>3. FromMontgomery(xBar)' = Value(x') % Value(m')
    BY <1>1, BaseKept
  <2>4. Value(result') = FromMontgomery(a)'
    BY <1>1, <1>5, Forms
  <2>5. QED
    BY <2>2, <2>3, <2>4 DEF PowersExact
<1>7. QED
  BY <1>1, <1>3, <1>4, <1>5, <1>6 DEF IInv

(* Every step keeps the invariant. *)
LEMMA NextKeeps ==
  ASSUME IInv, [Next]_vars
  PROVE  IInv'
<1>1. CASE Turn
  BY <1>1, TurnKeeps
<1>2. CASE XBarReady
  BY <1>2, XBarReadyKeeps
<1>3. CASE SquareReady
  BY <1>3, SquareReadyKeeps
<1>4. CASE TimesReady
  BY <1>4, TimesReadyKeeps
<1>5. CASE LastReady
  BY <1>5, LastReadyKeeps
<1>6. CASE UNCHANGED vars
  <2>1. /\ x' = x /\ e' = e /\ m' = m /\ mInv' = mInv /\ r2' = r2 /\ xBar' = xBar
        /\ a' = a /\ it' = it /\ call' = call /\ acc' = acc /\ i' = i
        /\ result' = result
    BY <1>6 DEF vars
  <2>2. First' = First /\ Second' = Second
    BY <2>1 DEF First, Second
  <2>3. NonnegativeObjects' /\ Position'
    BY <2>1 DEF IInv, NonnegativeObjects, Position
  <2>4. ArgumentsFit'
    BY <2>1, ArgumentsKept DEF IInv, ArgumentsFit
  <2>5. LoopCongruence'
    BY <2>1, <2>2, LoopCongruent, LoopCongruentNext DEF IInv
  <2>6. ProductsReduced'
    BY <2>1, <2>2 DEF IInv, ProductsReduced
  <2>7. PowersExact'
    <3>1. Power!PowerOfPrefix'
      BY <2>1, Prefix DEF IInv, PowersExact
    <3>2. FromMontgomery(xBar)' = FromMontgomery(xBar)
          /\ FromMontgomery(a)' = FromMontgomery(a)
      BY <2>1, Forms
    <3>3. QED
      BY <2>1, <3>1, <3>2 DEF IInv, PowersExact
  <2>8. QED
    BY <2>3, <2>4, <2>5, <2>6, <2>7 DEF IInv
<1>7. QED
  BY <1>1, <1>2, <1>3, <1>4, <1>5, <1>6 DEF Next, Step, Stopped

(* The invariant holds in every state of a call. *)
LEMMA Invariant ==
  ASSUME BasesHoldModuli
  PROVE  Spec => []IInv
<1>1. Init => IInv
  BY InitIInv
<1>2. IInv /\ [Next]_vars => IInv'
  BY NextKeeps
<1>3. QED
  BY <1>1, <1>2, PTL DEF Spec

-----------------------------------------------------------------------------
(***************************************************************************)
(* What holds of every call.                                               *)
(***************************************************************************)
(* Every variable has its type in every state of the call: the numbers are in *)
(* the form in which BigNum's operations leave an object.                     *)
THEOREM TypeCorrect ==
  ASSUME BasesHoldModuli
  PROVE  Spec => []TypeOK
<1>1. IInv => TypeOK
  <2>1. ASSUME NEW v, Proper(v) PROVE IsNumber(v) /\ InForm(v)
    BY <2>1 DEF Proper, Safe, InForm
  <2>2. QED
    BY <2>1 DEF IInv, NonnegativeObjects, ArgumentsFit, Position, TypeOK
<1>2. QED
  BY <1>1, Invariant, PTL

(* In every turn of every montgomery_multiply the accumulator times the weight *)
(* of the digits read is, modulo m, what was read times the second operand:    *)
(* "rightDigitShift( 1 )" drops a zero digit only.                             *)
THEOREM LoopAlwaysCongruent ==
  ASSUME BasesHoldModuli
  PROVE  Spec => []LoopCongruence
<1>1. IInv => LoopCongruence
  BY DEF IInv
<1>2. QED
  BY <1>1, Invariant, PTL

(* The one conditional subtraction at the end of montgomery_multiply is enough: *)
(* every number it returns is below the modulus.                                *)
THEOREM ProductsAlwaysReduced ==
  ASSUME BasesHoldModuli
  PROVE  Spec => []ProductsReduced
<1>1. IInv => ProductsReduced
  BY DEF IInv
<1>2. QED
  BY <1>1, Invariant, PTL

(* The number returned is x^e mod m, and before it the power of the bits read. *)
THEOREM PowerAlwaysExact ==
  ASSUME BasesHoldModuli
  PROVE  Spec => []ResultExact
<1>1. IInv => ResultExact
  <2> SUFFICES ASSUME IInv PROVE ResultExact
    OBVIOUS
  <2>1. Power!PowerOfPrefix
    BY DEF IInv, PowersExact
  <2>2. CASE call # "returned"
    BY <2>1, <2>2 DEF ResultExact, Power!ResultExact
  <2>3. CASE call = "returned"
    <3>1. BitsLeft(it) = 0
      <4>1. it.digit = 0 /\ it.bits = 0 /\ DigitBits \in Nat
        BY <2>3, DigitBitsAssumption DEF IInv, Position, IsPosition, HasBits
      <4>2. 0 * DigitBits + 0 = 0
        BY <4>1
      <4>3. QED
        BY <4>1, <4>2 DEF BitsLeft
    <3>2. PrefixIs(Form(a, m), Value(x), Value(e), Value(m), 0, FALSE)
      <4>1. (call = "times") = FALSE
        BY <2>3
      <4>2. QED
        BY <2>1, <3>1, <4>1, Prefix
    <3>3. PICK n \in Nat : n = Value(e)
      BY Objects
    <3>4. n \div 1 = n /\ Pow2[0] = 1
      BY Pow2Unfold
    <3>5. Form(a, m) = Power!Pow(Value(x), Value(m))[Value(e)]
      BY <3>2, <3>3, <3>4, Zenon DEF PrefixIs
    <3>6. Value(result) = Form(a, m)
      BY <2>3, Forms DEF IInv, PowersExact
    <3>7. QED
      BY <2>1, <2>3, <3>5, <3>6, Zenon DEF ResultExact, Power!ResultExact
  <2>4. QED
    BY <2>2, <2>3
<1>2. QED
  BY <1>1, Invariant, PTL

-----------------------------------------------------------------------------
(***************************************************************************)
(* The calls implement SquareAndMultiply.                                  *)
(***************************************************************************)
(* A number has one count of bits, so the iterator begins with it. *)
LEMMA BitsExactly ==
  ASSUME NEW k \in Nat, NEW n \in Nat, k < Pow2[n], n > 0 => Pow2[n - 1] <= k
  PROVE  Power!Bits(k) = n
<1> DEFINE Enough(c) == k < Pow2[c] /\ (c > 0 => Pow2[c - 1] <= k)
<1>1. n \in 0 .. k
  <2>1. CASE n = 0
    BY <2>1
  <2>2. CASE n > 0
    <3>1. n - 1 \in Nat
      BY <2>2
    <3>2. n - 1 < Pow2[n - 1] /\ Pow2[n - 1] \in Nat
      BY <3>1, Pow2Grows, Pow2Unfold
    <3>3. QED
      BY <2>2, <3>1, <3>2
  <2>3. QED
    BY <2>1, <2>2
<1>2. ASSUME NEW c \in Nat, NEW d \in Nat, Enough(c), Enough(d), c < d
      PROVE  FALSE
  <2>1. d - 1 \in Nat /\ c \in 0 .. d - 1
    BY <1>2
  <2>2. Pow2[c] <= Pow2[d - 1] /\ Pow2[c] \in Nat /\ Pow2[d - 1] \in Nat
    BY <2>1, Pow2Grows, Pow2Unfold
  <2>3. k < Pow2[c] /\ Pow2[d - 1] <= k
    BY <1>2
  <2>4. QED
    BY <2>2, <2>3
<1>3. Enough(n)
  OBVIOUS
<1>4. \A c \in 0 .. k : Enough(c) => c = n
  <2>1. TAKE c \in 0 .. k
  <2>2. c \in Nat
    OBVIOUS
  <2>3. c < n \/ n < c \/ c = n
    BY <2>2
  <2> HIDE DEF Enough
  <2>4. QED
    BY <1>2, <1>3, <2>2, <2>3
<1>5. Power!Bits(k) = CHOOSE c \in 0 .. k : Enough(c)
  BY SamePowers, Zenon DEF Power!Bits
<1> HIDE DEF Enough
<1>6. QED
  BY <1>1, <1>3, <1>4, <1>5

(* The call begins as the square-and-multiply does. *)
LEMMA InitPower ==
  ASSUME BasesHoldModuli, Init
  PROVE  Power!Init
<1>1. IInv
  BY InitIInv
<1>2. /\ Value(x) \in Bases /\ Value(e) \in Exponents /\ Value(m) \in Moduli
  BY <1>1 DEF IInv, ArgumentsFit
<1>3. FromMontgomery(a) = 1 % Value(m)
  BY InitArguments
<1>4. call = "xBar" /\ it = Biterator(e)
  BY DEF Init
<1>5. BitsLeft(it) = Power!Bits(Value(e))
  <2>1. Proper(e) /\ Value(e) = Magnitude(e) /\ Value(e) \in Nat
    BY <1>1, Objects, Nonnegative
  <2>2. BitsLeft(it) = NumberBits(e)
    BY <1>4, <2>1, BiteratorExact
  <2>3. /\ NumberBits(e) \in Nat /\ Value(e) < Pow2[NumberBits(e)]
        /\ NumberBits(e) > 0 => Pow2[NumberBits(e) - 1] <= Value(e)
    BY <2>1, NumberBitsExact
  <2>4. QED
    BY <2>1, <2>2, <2>3, BitsExactly
<1>6. QED
  BY <1>2, <1>3, <1>4, <1>5 DEF Power!Init, BitsLeft

(* A step of the call is a step of the square-and-multiply, or none. *)
LEMMA NextPower ==
  ASSUME IInv, [Next]_vars
  PROVE  [Power!Next]_(Power!vars)
<1>1. FromMontgomery(a) = Form(a, m) /\ FromMontgomery(a)' = Form(a', m')
  BY Forms
<1>2. ASSUME UNCHANGED <<x, e, m, a, it>>, (call' = "times") = (call = "times"),
             call # "returned", call' # "returned"
      PROVE  UNCHANGED Power!vars
  <2>1. FromMontgomery(a)' = FromMontgomery(a)
    BY <1>1, <1>2
  <2>2. QED
    BY <1>2, <2>1 DEF Power!vars
<1>3. CASE Turn
  BY <1>2, <1>3 DEF Turn
<1>4. CASE XBarReady
  BY <1>2, <1>4 DEF XBarReady, Returned, LoopHead
<1>5. CASE SquareReady
  <2>1. /\ call = "square" /\ call' # "returned"
        /\ UNCHANGED <<x, e, m, result>>
    BY <1>5 DEF SquareReady, Returned, LoopHead
  <2>2. /\ BitsLeft(it) > 0 /\ BitsLeft(it') = BitsLeft(it) - 1
        /\ Form(a', m) = (Form(a, m) * Form(a, m)) % Value(m)
        /\ (call' = "times") <=> (Value(e) \div Pow2[BitsLeft(it) - 1]) % 2 = 1
    BY <1>5, SquareReadyKeeps
  <2>3. (call' = "times") = ((Value(e) \div Power!Pow2[BitsLeft(it')]) % 2 = 1)
    BY <2>2, SamePowers, Zenon
  <2>4. Power!Square
    BY <1>1, <2>1, <2>2, <2>3, Zenon DEF Power!Square, BitsLeft
  <2>5. QED
    BY <2>4 DEF Power!Next
<1>6. CASE TimesReady
  <2>1. /\ call = "times" /\ call' # "times" /\ call' # "returned"
        /\ UNCHANGED <<x, e, m, it, result>>
    BY <1>6 DEF TimesReady, Returned, LoopHead
  <2>2. Form(a', m) = (Form(a, m) * Value(x)) % Value(m)
    BY <1>6, TimesReadyKeeps
  <2>3. Power!Times
    BY <1>1, <2>1, <2>2 DEF Power!Times
  <2>4. QED
    BY <2>3 DEF Power!Next
<1>7. CASE LastReady
  <2>1. /\ call = "last" /\ call' = "returned"
        /\ UNCHANGED <<x, e, m, a, it>>
    BY <1>7 DEF LastReady, Returned
  <2>2. Value(result') = Form(a, m)
    BY <1>7, LastReadyKeeps
  <2>3. BitsLeft(it) = 0
    <3>1. it.digit = 0 /\ it.bits = 0 /\ DigitBits \in Nat
      BY <2>1, DigitBitsAssumption DEF IInv, Position, IsPosition, HasBits
    <3>2. 0 * DigitBits + 0 = 0
      BY <3>1
    <3>3. QED
      BY <3>1, <3>2 DEF BitsLeft
  <2>4. Power!Return
    BY <1>1, <2>1, <2>2, <2>3 DEF Power!Return, BitsLeft
  <2>5. QED
    BY <2>4 DEF Power!Next
<1>8. CASE UNCHANGED vars
  <2>1. UNCHANGED <<x, e, m, a, it, call, result>>
    BY <1>8 DEF vars
  <2>2. FromMontgomery(a)' = FromMontgomery(a)
    BY <1>1, <2>1
  <2>3. QED
    BY <2>1, <2>2 DEF Power!vars
<1>9. QED
  BY <1>3, <1>4, <1>5, <1>6, <1>7, <1>8 DEF Next, Step, Stopped

(* montgomery_exponentiation squares and multiplies: each of its steps is a    *)
(* squaring, a multiplication or the return of SquareAndMultiply, or invisible *)
(* to it.                                                                      *)
THEOREM Implementation ==
  ASSUME BasesHoldModuli
  PROVE  Spec => ImplementsSquareAndMultiply
<1>1. Init => Power!Init
  BY InitPower
<1>2. IInv /\ [Next]_vars => [Power!Next]_(Power!vars)
  BY NextPower
<1>3. QED
  BY <1>1, <1>2, Invariant, PTL DEF Spec, ImplementsSquareAndMultiply, Power!Spec
==============================================================================
