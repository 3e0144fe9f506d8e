------------------------------ MODULE NatFacts ------------------------------
(***************************************************************************)
(* Induction over the naturals, and the existence of the functions that    *)
(* recursion over the naturals defines.  Both are stated with sets and     *)
(* functions, not with operators, so that they can be cited for any        *)
(* recursive function: a definition f[n \in Nat] == body is a CHOOSE, and  *)
(* means its body once some function satisfies it.  Then, with those: the  *)
(* sums and powers of two that numbers are made of, quotients and          *)
(* remainders, and the greatest member of a finite set.                    *)
(***************************************************************************)
EXTENDS Powers, TLAPS, WellFoundedInduction

(***************************************************************************)
(* Induction: a set of naturals with 0 in it and with every member's       *)
(* successor is Nat.  Every carry chain of the code is bounded this way.   *)
(***************************************************************************)
LEMMA SetInduction ==
  ASSUME NEW S \in SUBSET Nat, 0 \in S, \A n \in S : n + 1 \in S
  PROVE  S = Nat
<1> DEFINE T == Nat \ S
           R == OpToRel(<, Nat)
<1>1. IsWellFoundedOn(R, Nat)
  BY NatLessThanWellFounded
<1>2. SUFFICES ASSUME T # {} PROVE FALSE
  OBVIOUS
<1>3. T \subseteq Nat
  OBVIOUS
<1> HIDE DEF T, R
<1>4. PICK x \in T : \A y \in T : ~ (<<y, x>> \in R)
  BY <1>1, <1>2, <1>3, WFMin
<1>5. \A y \in T : ~(y < x)
  BY <1>3, <1>4 DEF R, OpToRel
<1>6. QED
  BY <1>5, SMT DEF T

(***************************************************************************)
(* Recursion: a first value and a step on values determine a function.     *)
(* The carry into each digit and the running product of the code's loops   *)
(* are such functions.                                                     *)
(***************************************************************************)
StepFunctions(V) == [Nat \X V -> V]

Recursion(V, base, step, f) ==
  /\ f \in [Nat -> V]
  /\ f[0] = base
  /\ \A n \in Nat : f[n + 1] = step[<<n, f[n]>>]

(* There is a function of the naturals with given first value and step. *)
LEMMA RecursionExists ==
  ASSUME NEW V, NEW base \in V, NEW step \in StepFunctions(V)
  PROVE  \E f : Recursion(V, base, step, f)
<1> USE DEF StepFunctions
<1> DEFINE Run(n, h) == /\ h \in [0..n -> V]
                        /\ h[0] = base
                        /\ \A k \in 0..n-1 : h[k + 1] = step[<<k, h[k]>>]
<1>1. \A n \in Nat : \E h : Run(n, h)
  <2> DEFINE S == {n \in Nat : \E h : Run(n, h)}
  <2>1. Run(0, [k \in 0..0 |-> base])
    OBVIOUS
  <2>2. ASSUME NEW n \in S PROVE n + 1 \in S
    <3>1. PICK h : Run(n, h)
      OBVIOUS
    <3> DEFINE g == [k \in 0..n+1 |-> IF k <= n THEN h[k] ELSE step[<<n, h[n]>>]]
    <3>2. n \in Nat /\ h[n] \in V /\ step[<<n, h[n]>>] \in V
      BY <3>1
    <3>3. g \in [0..n+1 -> V]
      BY <3>1, <3>2
    <3>4. g[0] = base
      BY <3>1, <3>2
    <3>5. ASSUME NEW k \in 0..n PROVE g[k + 1] = step[<<k, g[k]>>]
      <4>1. CASE k = n
        <5>1. k \in 0..n+1 /\ k <= n /\ k + 1 \in 0..n+1 /\ ~(k + 1 <= n)
          BY <4>1, <3>2
        <5>2. g[k] = h[k] /\ g[k + 1] = step[<<n, h[n]>>]
          BY <5>1
        <5>3. QED
          BY <5>2, <4>1
      <4>2. CASE k < n
        <5>1. k \in 0..n+1 /\ k <= n /\ k + 1 \in 0..n+1 /\ k + 1 <= n /\ k \in 0..n-1
          BY <4>2, <3>2
        <5>2. g[k] = h[k] /\ g[k + 1] = h[k + 1]
          BY <5>1
        <5>3. QED
          BY <5>1, <5>2, <3>1
      <4>3. QED
        BY <4>1, <4>2, <3>2
    <3>6. Run(n + 1, g)
      <4> HIDE DEF g
      <4>1. (n + 1) - 1 = n
        BY <3>2
      <4>2. QED
        BY <3>3, <3>4, <3>5, <4>1
    <3> HIDE DEF g, Run
    <3>7. \E m : Run(n + 1, m)
      BY <3>6
    <3>8. QED
      BY <3>2, <3>7
  <2>3. 0 \in S
    BY <2>1
  <2> HIDE DEF S
  <2>4. S = Nat
    BY <2>2, <2>3, SetInduction DEF S
  <2>5. QED
    BY <2>4 DEF S
<1>2. ASSUME NEW n \in Nat, NEW g, NEW h, Run(n, g), Run(n + 1, h)
      PROVE  g[n] = h[n]
  <2> DEFINE S == {k \in Nat : k <= n => g[k] = h[k]}
  <2>1. 0 \in S
    BY <1>2
  <2>2. ASSUME NEW k \in S PROVE k + 1 \in S
    <3>1. SUFFICES ASSUME k + 1 <= n PROVE g[k + 1] = h[k + 1]
      OBVIOUS
    <3>2. k \in Nat /\ k \in 0..n-1 /\ k \in 0..(n+1)-1 /\ g[k] = h[k]
      BY <3>1
    <3>3. QED
      BY <3>2, <1>2
  <2> HIDE DEF S
  <2>3. S = Nat
    BY <2>1, <2>2, SetInduction DEF S
  <2>4. QED
    BY <2>3 DEF S
<1> DEFINE H(n) == CHOOSE h : Run(n, h)
           f == [n \in Nat |-> H(n)[n]]
<1>3. \A n \in Nat : Run(n, H(n))
  BY <1>1
<1> HIDE DEF H
<1>4. f \in [Nat -> V]
  BY <1>3
<1>5. f[0] = base
  BY <1>3
<1>6. ASSUME NEW n \in Nat PROVE f[n + 1] = step[<<n, f[n]>>]
  <2>1. Run(n, H(n)) /\ Run(n + 1, H(n + 1))
    BY <1>3
  <2>2. H(n)[n] = H(n + 1)[n]
    <3> HIDE DEF Run
    <3>1. QED
      BY <2>1, <1>2
  <2>3. n \in 0 .. (n + 1) - 1 /\ n + 1 \in Nat
    OBVIOUS
  <2>4. H(n + 1)[n + 1] = step[<<n, H(n + 1)[n]>>]
    BY <2>1, <2>3
  <2>5. QED
    BY <2>2, <2>3, <2>4
<1> HIDE DEF f
<1>7. Recursion(V, base, step, f)
  BY <1>4, <1>5, <1>6 DEF Recursion
<1>8. QED
  BY <1>7

(***************************************************************************)
(* The same, in the form in which a definition f[n \in Nat] == ... of a    *)
(* carry chain is written: its equation has a solution, so it holds.       *)
(***************************************************************************)
Solves(V, base, step, f) ==
  /\ f \in [Nat -> V]
  /\ \A n \in Nat : f[n] = IF n = 0 THEN base ELSE step[<<n - 1, f[n - 1]>>]

(* The equation of a recursive definition on Nat has a solution. *)
LEMMA RecursionSolves ==
  ASSUME NEW V, NEW base \in V, NEW step \in StepFunctions(V)
  PROVE  \E f : Solves(V, base, step, f)
<1>1. PICK f : Recursion(V, base, step, f)
  BY RecursionExists
<1>2. f \in [Nat -> V] /\ f[0] = base
  BY <1>1 DEF Recursion
<1>3. ASSUME NEW n \in Nat, n # 0 PROVE f[n] = step[<<n - 1, f[n - 1]>>]
  <2>1. n - 1 \in Nat /\ (n - 1) + 1 = n
    BY <1>3
  <2>2. f[(n - 1) + 1] = step[<<n - 1, f[n - 1]>>]
    BY <2>1, <1>1 DEF Recursion
  <2>3. QED
    BY <2>1, <2>2
<1>4. Solves(V, base, step, f)
  BY <1>2, <1>3 DEF Solves
<1>5. QED
  BY <1>4

(***************************************************************************)
(* Recursion over the indexes 0..m of a loop of m turns.                   *)
(***************************************************************************)
SolvesUpTo(m, V, base, step, f) ==
  /\ f \in [0..m -> V]
  /\ \A n \in 0..m : f[n] = IF n = 0 THEN base ELSE step[<<n - 1, f[n - 1]>>]

(* So has the equation of a recursive definition on 0..m. *)
LEMMA BoundedRecursionSolves ==
  ASSUME NEW m \in Nat, NEW V, NEW base \in V,
         NEW step \in [(0..m-1) \X V -> V]
  PROVE  \E f : SolvesUpTo(m, V, base, step, f)
<1> DEFINE whole == [p \in Nat \X V |-> IF p[1] \in 0..m-1 THEN step[p] ELSE base]
<1>1. whole \in StepFunctions(V)
  <2>1. ASSUME NEW p \in Nat \X V, p[1] \in 0..m-1 PROVE step[p] \in V
    <3>1. p = <<p[1], p[2]>> /\ p[2] \in V
      OBVIOUS
    <3>2. p \in (0..m-1) \X V
      BY <2>1, <3>1
    <3>3. QED
      BY <3>2
  <2>2. QED
    BY <2>1 DEF StepFunctions
<1>2. PICK g : Solves(V, base, whole, g)
  <2> HIDE DEF whole
  <2>1. QED
    BY <1>1, RecursionSolves
<1> DEFINE f == [n \in 0..m |-> g[n]]
<1>3. f \in [0..m -> V] /\ f[0] = base
  <2>1. g \in [Nat -> V] /\ g[0] = base
    BY <1>2 DEF Solves
  <2>2. 0 \in 0..m /\ \A n \in 0..m : n \in Nat
    OBVIOUS
  <2>3. QED
    BY <2>1, <2>2
<1>4. ASSUME NEW n \in 0..m, n # 0 PROVE f[n] = step[<<n - 1, f[n - 1]>>]
  <2>1. n \in Nat /\ n - 1 \in Nat /\ n - 1 \in 0..m-1 /\ n - 1 \in 0..m
    BY <1>4
  <2>2. g[n] = whole[<<n - 1, g[n - 1]>>] /\ g[n - 1] \in V
    BY <1>2, <1>4, <2>1 DEF Solves
  <2>3. whole[<<n - 1, g[n - 1]>>] = step[<<n - 1, g[n - 1]>>]
    BY <2>1, <2>2
  <2>4. QED
    BY <2>1, <2>2, <2>3
<1> HIDE DEF f
<1>5. SolvesUpTo(m, V, base, step, f)
  BY <1>3, <1>4 DEF SolvesUpTo
<1>6. QED
  BY <1>5

(* A running sum exists whatever is added: also over a vector's indexes, *)
(* behind whose end the definition says nothing.                         *)
LEMMA SumSolves ==
  ASSUME NEW D
  PROVE  \E f : f = [i \in Nat |-> IF i = 0 THEN 0 ELSE f[i - 1] + D[i - 1]]
<1> DEFINE Run(n, h) == h = [k \in 0..n |-> IF k = 0 THEN 0 ELSE h[k - 1] + D[k - 1]]
<1>1. \A n \in Nat : \E h : Run(n, h)
  <2> DEFINE S == {n \in Nat : \E h : Run(n, h)}
  <2>1. 0 \in S
    <3>1. Run(0, [k \in 0..0 |-> 0])
      OBVIOUS
    <3>2. QED
      BY <3>1
  <2>2. ASSUME NEW n \in S PROVE n + 1 \in S
    <3>1. PICK h : Run(n, h)
      OBVIOUS
    <3> DEFINE g == [k \in 0..n+1 |-> IF k <= n THEN h[k] ELSE h[n] + D[n]]
    <3>2. n \in Nat
      OBVIOUS
    <3>3. ASSUME NEW k \in 0..n+1, k # 0 PROVE g[k] = g[k - 1] + D[k - 1]
      <4>1. k - 1 \in 0..n /\ k - 1 \in 0..n+1 /\ k - 1 <= n
        BY <3>2, <3>3
      <4>2. g[k - 1] = h[k - 1]
        BY <4>1
      <4>3. CASE k <= n
        <5>1. k \in 0..n
          BY <3>2, <4>3
        <5>2. h[k] = h[k - 1] + D[k - 1]
          BY <3>1, <3>3, <5>1
        <5>3. g[k] = h[k]
          BY <4>3
        <5>4. QED
          BY <4>2, <5>2, <5>3
      <4>4. CASE ~(k <= n)
        <5>1. k - 1 = n
          BY <3>2, <4>4
        <5>2. g[k] = h[n] + D[n]
          BY <4>4
        <5>3. QED
          BY <4>2, <5>1, <5>2
      <4>5. QED
        BY <4>3, <4>4
    <3>4. g[0] = 0
      BY <3>1, <3>2
    <3>5. g = [k \in 0..n+1 |-> g[k]]
      OBVIOUS
    <3> HIDE DEF g
    <3>6. Run(n + 1, g)
      BY <3>3, <3>4, <3>5
    <3>7. QED
      BY <3>2, <3>6
  <2> HIDE DEF S
  <2>3. S = Nat
    BY <2>1, <2>2, SetInduction DEF S
  <2>4. QED
    BY <2>3 DEF S
<1>2. ASSUME NEW n \in Nat, NEW g, NEW h, Run(n, g), Run(n + 1, h)
      PROVE  g[n] = h[n]
  <2> DEFINE S == {k \in Nat : k <= n => g[k] = h[k]}
  <2>1. 0 \in S
    BY <1>2
  <2>2. ASSUME NEW k \in S PROVE k + 1 \in S
    <3>1. SUFFICES ASSUME k + 1 <= n PROVE g[k + 1] = h[k + 1]
      OBVIOUS
    <3>2. /\ k + 1 \in 0..n /\ k + 1 \in 0..n+1 /\ k + 1 # 0 /\ (k + 1) - 1 = k
          /\ g[k] = h[k]
      BY <3>1
    <3>3. QED
      BY <3>2, <1>2
  <2> HIDE DEF S
  <2>3. S = Nat
    BY <2>1, <2>2, SetInduction DEF S
  <2>4. QED
    BY <2>3 DEF S
<1> DEFINE H(n) == CHOOSE h : Run(n, h)
           f == [n \in Nat |-> H(n)[n]]
<1>3. \A n \in Nat : Run(n, H(n))
  BY <1>1
<1> HIDE DEF H
<1>4. f[0] = 0
  BY <1>3
<1>5. ASSUME NEW n \in Nat, n # 0 PROVE f[n] = f[n - 1] + D[n - 1]
  <2>1. n - 1 \in Nat /\ (n - 1) + 1 = n /\ n \in 0..n
    BY <1>5
  <2>2. H(n - 1)[n - 1] = H(n)[n - 1]
    <3>1. Run(n - 1, H(n - 1)) /\ Run((n - 1) + 1, H(n))
      BY <1>3, <2>1
    <3> HIDE DEF Run
    <3>2. QED
      BY <3>1, <2>1, <1>2
  <2>3. H(n)[n] = H(n)[n - 1] + D[n - 1]
    BY <1>3, <1>5, <2>1
  <2>4. QED
    BY <2>1, <2>2, <2>3
<1>6. f = [n \in Nat |-> f[n]]
  OBVIOUS
<1> HIDE DEF f
<1>7. f = [i \in Nat |-> IF i = 0 THEN 0 ELSE f[i - 1] + D[i - 1]]
  BY <1>4, <1>5, <1>6
<1>8. QED
  BY <1>7

-----------------------------------------------------------------------------
(***************************************************************************)
(* Powers of two, quotients and remainders.                                *)
(***************************************************************************)
(* Pow2 means its recursive definition. *)
LEMMA Pow2Unfold ==
  /\ Pow2[0] = 1
  /\ \A k \in Nat : Pow2[k + 1] = 2 * Pow2[k]
  /\ \A k \in Nat : Pow2[k] \in Nat \ {0}
<1> DEFINE step == [p \in Nat \X Nat |-> 2 * p[2]]
           Body(g) == [n \in Nat |-> IF n = 0 THEN 1 ELSE 2 * g[n - 1]]
<1>1. 1 \in Nat /\ step \in StepFunctions(Nat)
  BY DEF StepFunctions
<1>2. PICK f : Solves(Nat, 1, step, f)
  <2> HIDE DEF step
  <2>1. QED
    BY <1>1, RecursionSolves
<1>3. f = Body(f)
  <2>1. ASSUME NEW n \in Nat, n # 0 PROVE f[n] = 2 * f[n - 1]
    <3>1. n - 1 \in Nat /\ f[n - 1] \in Nat
      BY <2>1, <1>2 DEF Solves
    <3>2. QED
      BY <3>1, <2>1, <1>2 DEF Solves
  <2>2. QED
    BY <2>1, <1>2 DEF Solves
<1>4. Pow2 = Body(Pow2)
  BY <1>3 DEF Pow2
<1>5. Pow2[0] = 1
  BY <1>4
<1>6. \A k \in Nat : Pow2[k + 1] = 2 * Pow2[k]
  BY <1>4
<1>7. \A k \in Nat : Pow2[k] \in Nat \ {0}
  <2> DEFINE S == {k \in Nat : Pow2[k] \in Nat \ {0}}
  <2>1. 0 \in S
    BY <1>5
  <2>2. \A k \in S : k + 1 \in S
    BY <1>6
  <2> HIDE DEF S
  <2>3. S = Nat
    BY <2>1, <2>2, SetInduction DEF S
  <2>4. QED
    BY <2>3 DEF S
<1>8. QED
  BY <1>5, <1>6, <1>7

(* 2^n is 2^k times 2^(n-k): a digit splits at any bit. *)
LEMMA Pow2Split ==
  ASSUME NEW n \in Nat, NEW k \in 0 .. n
  PROVE  Pow2[n] = Pow2[k] * Pow2[n - k]
<1> DEFINE S == {j \in Nat : j <= n => Pow2[n] = Pow2[j] * Pow2[n - j]}
<1>1. 0 \in S
  BY Pow2Unfold
<1>2. ASSUME NEW j \in S PROVE j + 1 \in S
  <2>1. SUFFICES ASSUME j + 1 <= n
                 PROVE Pow2[n] = Pow2[j + 1] * Pow2[n - (j + 1)]
    OBVIOUS
  <2>2. j \in Nat /\ Pow2[n] = Pow2[j] * Pow2[n - j]
    BY <2>1
  <2>3. n - (j + 1) \in Nat /\ (n - (j + 1)) + 1 = n - j
    BY <2>1, <2>2
  <2>4. Pow2[n - j] = 2 * Pow2[n - (j + 1)]
    BY <2>3, Pow2Unfold
  <2>5. Pow2[j + 1] = 2 * Pow2[j]
    BY <2>2, Pow2Unfold
  <2>6. Pow2[j] \in Nat /\ Pow2[n - (j + 1)] \in Nat
    BY <2>2, <2>3, Pow2Unfold
  <2>7. QED
    BY <2>2, <2>4, <2>5, <2>6
<1> HIDE DEF S
<1>3. k \in S /\ k <= n
  <2>1. S = Nat
    BY <1>1, <1>2, SetInduction DEF S
  <2>2. QED
    BY <2>1
<1>4. QED
  BY <1>3 DEF S

(* The same, said of sums: 2^(m + n). *)
LEMMA Pow2Sum ==
  ASSUME NEW m \in Nat, NEW n \in Nat
  PROVE  Pow2[m + n] = Pow2[m] * Pow2[n]
<1>1. m + n \in Nat /\ m \in 0 .. m + n /\ (m + n) - m = n
  OBVIOUS
<1>2. QED
  BY <1>1, Pow2Split

(* One more digit of d bits: 2^(d * (n + 1)). *)
LEMMA Pow2Digits ==
  ASSUME NEW d \in Nat, NEW n \in Nat
  PROVE  Pow2[d * (n + 1)] = Pow2[d * n] * Pow2[d]
<1>1. d * n \in Nat /\ d * (n + 1) = d * n + d
  OBVIOUS
<1>2. QED
  BY <1>1, Pow2Sum

(* A quotient and a remainder are determined by their equation. *)
LEMMA DivModUnique ==
  ASSUME NEW a \in Int, NEW m \in Nat \ {0}, NEW q \in Int, NEW r \in Int,
         a = m * q + r, 0 <= r, r < m
  PROVE  a % m = r /\ a \div m = q
  OBVIOUS

(* A quotient and a remainder satisfy their equation. *)
LEMMA DivMod ==
  ASSUME NEW a \in Int, NEW m \in Nat \ {0}
  PROVE  /\ a \div m \in Int
         /\ a % m \in 0 .. m - 1
         /\ a = m * (a \div m) + (a % m)
  OBVIOUS

(* The quotient of a number below P * Q by Q is below P. *)
LEMMA DivBound ==
  ASSUME NEW P \in Nat \ {0}, NEW Q \in Nat \ {0}, NEW d \in 0 .. P * Q - 1
  PROVE  d \div Q \in 0 .. P - 1
<1>1. d = Q * (d \div Q) + (d % Q) /\ d % Q \in 0 .. Q - 1 /\ d \div Q \in Int
  BY DivMod
<1>2. 0 <= d \div Q
  BY <1>1
<1>3. d \div Q < P
  <2>1. SUFFICES ASSUME d \div Q >= P PROVE FALSE
    BY <1>1
  <2>2. Q * (d \div Q) >= Q * P
    BY <2>1, <1>1
  <2>3. QED
    BY <2>2, <1>1
<1>4. QED
  BY <1>1, <1>2, <1>3

(* Multiplying by P and keeping what is below P * Q drops the top P values. *)
LEMMA MulMod ==
  ASSUME NEW P \in Nat \ {0}, NEW Q \in Nat \ {0}, NEW d \in Nat
  PROVE  (d * P) % (P * Q) = P * (d % Q)
<1>1. PICK q \in Int, r \in 0 .. Q - 1 : d = Q * q + r /\ d % Q = r
  <2>1. /\ d \div Q \in Int /\ d % Q \in 0 .. Q - 1
        /\ d = Q * (d \div Q) + (d % Q)
    BY DivMod
  <2>2. QED
    BY <2>1
<1>2. (Q * q + r) * P = (P * Q) * q + P * r
  OBVIOUS
<1>3. P * r \in Int /\ 0 <= P * r /\ P * Q \in Nat \ {0} /\ d * P \in Int
  OBVIOUS
<1>4. P * r < P * Q
  OBVIOUS
<1>5. d * P = (P * Q) * q + P * r
  BY <1>1, <1>2
<1>6. (d * P) % (P * Q) = P * r
  <2> DEFINE a == d * P
             m == P * Q
             s == P * r
  <2>1. a \in Int /\ m \in Nat \ {0} /\ s \in Int /\ 0 <= s /\ s < m
        /\ a = m * q + s
    BY <1>3, <1>4, <1>5
  <2> HIDE DEF a, m, s
  <2>2. a % m = s
    BY <2>1, DivModUnique
  <2>3. QED
    BY <2>2 DEF a, m, s
<1>7. QED
  BY <1>1, <1>6

(* A digit shifted left, with the carry from the digit below, is a digit. *)
LEMMA ShlDigit ==
  ASSUME NEW P \in Nat \ {0}, NEW Q \in Nat \ {0},
         NEW d \in 0 .. P * Q - 1, NEW e \in 0 .. P * Q - 1
  PROVE  ((d * P) % (P * Q)) + (e \div Q) \in 0 .. P * Q - 1
<1>1. (d * P) % (P * Q) = P * (d % Q)
  <2>1. d \in Nat
    OBVIOUS
  <2>2. QED
    BY <2>1, MulMod
<1>2. d % Q \in 0 .. Q - 1
  BY DivMod
<1>3. P * (d % Q) \in Nat /\ P * (d % Q) <= P * (Q - 1)
  BY <1>2
<1>4. e \div Q \in 0 .. P - 1
  BY DivBound
<1>5. P * (Q - 1) = P * Q - P
  OBVIOUS
<1>6. QED
  BY <1>1, <1>3, <1>4, <1>5

(* A digit shifted right, with the bits of the digit above, is a digit. *)
LEMMA ShrDigit ==
  ASSUME NEW P \in Nat \ {0}, NEW Q \in Nat \ {0},
         NEW d \in 0 .. P * Q - 1, NEW e \in 0 .. P * Q - 1
  PROVE  (d \div P) + ((e % P) * Q) \in 0 .. P * Q - 1
<1>1. d \div P \in 0 .. Q - 1
  <2>1. P * Q = Q * P
    OBVIOUS
  <2>2. QED
    BY <2>1, DivBound
<1>2. e % P \in 0 .. P - 1
  BY DivMod
<1>3. (e % P) * Q \in Nat /\ (e % P) * Q <= (P - 1) * Q
  BY <1>2
<1>4. (P - 1) * Q = P * Q - Q
  OBVIOUS
<1>5. QED
  BY <1>1, <1>3, <1>4

(* A quotient taken in two steps, and the remainder of the two together. *)
LEMMA DivDiv ==
  ASSUME NEW P \in Nat \ {0}, NEW Q \in Nat \ {0}, NEW v \in Int
  PROVE  /\ v \div (P * Q) = (v \div P) \div Q
         /\ v % (P * Q) = (v % P) + P * ((v \div P) % Q)
<1>1. PICK q \in Int, r \in 0 .. P - 1 : v = P * q + r /\ v \div P = q /\ v % P = r
  <2>1. /\ v \div P \in Int /\ v % P \in 0 .. P - 1
        /\ v = P * (v \div P) + (v % P)
    BY DivMod
  <2>2. QED
    BY <2>1
<1>2. PICK h \in Int, b \in 0 .. Q - 1 : q = Q * h + b /\ q \div Q = h /\ q % Q = b
  <2>1. /\ q \div Q \in Int /\ q % Q \in 0 .. Q - 1
        /\ q = Q * (q \div Q) + (q % Q)
    BY DivMod
  <2>2. QED
    BY <2>1
<1>3. P * (Q * h + b) + r = (P * Q) * h + (r + P * b)
  OBVIOUS
<1>4. P * b \in Nat /\ P * b <= P * (Q - 1) /\ P * (Q - 1) = P * Q - P
  OBVIOUS
<1>5. v % (P * Q) = r + P * b /\ v \div (P * Q) = h
  <2> DEFINE m == P * Q
             s == r + P * b
  <2>1. m \in Nat \ {0} /\ s \in Int /\ 0 <= s /\ s < m /\ v = m * h + s
    BY <1>1, <1>2, <1>3, <1>4
  <2> HIDE DEF m, s
  <2>2. v % m = s /\ v \div m = h
    BY <2>1, DivModUnique
  <2>3. QED
    BY <2>2 DEF m, s
<1>6. QED
  BY <1>1, <1>2, <1>5

(* A remainder may be taken before or after one is added. *)
LEMMA ModSuccessor ==
  ASSUME NEW m \in Nat \ {0}, NEW x \in Int, NEW k \in Int
  PROVE  (((x + k) % m) + 1) % m = (x + (k + 1)) % m
<1>1. PICK y \in Int, q \in Int, r \in 0 .. m - 1 :
        x + k = y /\ y % m = r /\ y = m * q + r
  <2>1. PICK y \in Int : x + k = y
    OBVIOUS
  <2>2. y \div m \in Int /\ y % m \in 0 .. m - 1 /\ y = m * (y \div m) + (y % m)
    BY DivMod
  <2>3. QED
    BY <2>1, <2>2
<1>2. PICK p \in Int, s \in 0 .. m - 1, z \in Int :
        r + 1 = z /\ z % m = s /\ z = m * p + s
  <2>1. PICK z \in Int : r + 1 = z
    OBVIOUS
  <2>2. z \div m \in Int /\ z % m \in 0 .. m - 1 /\ z = m * (z \div m) + (z % m)
    BY DivMod
  <2>3. QED
    BY <2>1, <2>2
<1>3. PICK w \in Int, q1 \in Int : w = x + (k + 1) /\ q1 = q + p
  OBVIOUS
<1>4. w = m * q1 + s /\ 0 <= s /\ s < m
  <2>1. m * q1 = m * q + m * p
    BY <1>3
  <2>2. PICK a \in Int, b \in Int : a = m * q /\ b = m * p
    OBVIOUS
  <2>3. QED
    BY <1>1, <1>2, <1>3, <2>1, <2>2
<1>5. w % m = s
  BY <1>4, DivModUnique
<1>6. QED
  BY <1>1, <1>2, <1>3, <1>5

(* A bounded set of numbers that is not empty has a greatest one. *)
LEMMA GreatestExists ==
  ASSUME NEW m \in Nat, NEW D \in SUBSET (0 .. m - 1), D # {}
  PROVE  \E i \in D : \A j \in D : j <= i
<1> DEFINE Top(n) == \E i \in D : i < n /\ \A j \in D : j < n => j <= i
           S == {n \in Nat : (\E i \in D : i < n) => Top(n)}
<1>1. 0 \in S
  OBVIOUS
<1>2. ASSUME NEW n \in S PROVE n + 1 \in S
  <2>1. CASE n \in D
    BY <2>1
  <2>2. CASE n \notin D
    <3>1. SUFFICES ASSUME NEW i \in D, i < n + 1 PROVE Top(n + 1)
      OBVIOUS
    <3>2. \A j \in D : j < n + 1 => j < n
      BY <2>2
    <3>3. Top(n)
      BY <3>1, <3>2
    <3>4. QED
      BY <3>2, <3>3
  <2>3. QED
    BY <2>1, <2>2
<1> HIDE DEF S
<1>3. S = Nat
  BY <1>1, <1>2, SetInduction DEF S
<1>4. Top(m)
  <2>1. \A i \in D : i < m
    OBVIOUS
  <2>2. QED
    BY <1>3, <2>1 DEF S
<1>5. QED
  BY <1>4

(* A power of two is greater than its exponent, and greater powers are greater. *)
LEMMA Pow2Grows ==
  /\ \A n \in Nat : n < Pow2[n]
  /\ \A n \in Nat : \A k \in 0 .. n : Pow2[k] <= Pow2[n]
<1> DEFINE S == {n \in Nat : n < Pow2[n]}
<1>1. 0 \in S
  BY Pow2Unfold
<1>2. ASSUME NEW n \in S PROVE n + 1 \in S
  <2>1. PICK P \in Nat \ {0} : Pow2[n] = P
    BY Pow2Unfold
  <2>2. n \in Nat /\ n < P /\ Pow2[n + 1] = 2 * P
    BY <2>1, Pow2Unfold
  <2>3. n + 1 < 2 * P
    BY <2>2
  <2>4. QED
    BY <2>2, <2>3
<1>3. S \in SUBSET Nat
  OBVIOUS
<1>4. S = Nat
  BY <1>1, <1>2, <1>3, SetInduction
<1>5. ASSUME NEW n \in Nat, NEW k \in 0 .. n PROVE Pow2[k] <= Pow2[n]
  <2>1. PICK P \in Nat \ {0} : Pow2[k] = P
    BY Pow2Unfold
  <2>2. n - k \in Nat
    OBVIOUS
  <2>3. PICK Q \in Nat \ {0} : Pow2[n - k] = Q
    BY <2>2, Pow2Unfold
  <2>4. Pow2[n] = P * Q
    BY <2>1, <2>3, Pow2Split
  <2>5. P <= P * Q
    BY <2>1, <2>3
  <2>6. QED
    BY <2>1, <2>4, <2>5
<1>6. QED
  BY <1>4, <1>5

(* A sequence of numbers that begins with 1 and passes m has a first that does. *)
LEMMA FirstAbove ==
  ASSUME NEW f \in [Nat -> Nat], f[0] = 1, NEW m \in Nat, NEW n \in Nat, m < f[n]
  PROVE  \E k \in 0 .. n : m < f[k] /\ (k > 0 => f[k - 1] <= m)
<1> DEFINE D == {k \in 0 .. n : k = 0 \/ f[k - 1] <= m}
<1>1. n + 1 \in Nat /\ D \in SUBSET (0 .. (n + 1) - 1) /\ 0 \in D
  OBVIOUS
<1>2. PICK k \in D : \A j \in D : j <= k
  <2>1. D # {}
    BY <1>1
  <2> HIDE DEF D
  <2>2. QED
    BY <1>1, <2>1, GreatestExists
<1>3. m < f[k]
  <2>1. CASE k = n
    BY <2>1
  <2>2. CASE k # n
    <3>1. k + 1 \in 0 .. n /\ ~(k + 1 \in D) /\ (k + 1) - 1 = k
      BY <1>2, <2>2
    <3>2. ~(f[k] <= m)
      BY <3>1
    <3>3. f[k] \in Nat
      BY <1>2
    <3>4. QED
      BY <3>2, <3>3
  <2>3. QED
    BY <2>1, <2>2
<1>4. QED
  BY <1>2, <1>3

-----------------------------------------------------------------------------
(***************************************************************************)
(* Numbers modulo M.                                                       *)
(***************************************************************************)
(* What a remainder of zero means. *)
LEMMA ZeroRemainder ==
  ASSUME NEW u \in Int, NEW M \in Nat \ {0}
  PROVE  (u % M = 0) <=> \E k \in Int : u = M * k
<1>1. ASSUME u % M = 0 PROVE \E k \in Int : u = M * k
  <2>1. u = M * (u \div M) + (u % M) /\ u \div M \in Int
    BY DivMod
  <2>2. QED
    BY <1>1, <2>1
<1>2. ASSUME NEW k \in Int, u = M * k PROVE u % M = 0
  <2>1. u = M * k + 0 /\ 0 < M /\ 0 \in Int
    BY <1>2
  <2>2. QED
    BY <2>1, DivModUnique
<1>3. QED
  BY <1>1, <1>2

(* Numbers that differ by a multiple of M have one remainder. *)
LEMMA SameRemainder ==
  ASSUME NEW M \in Nat \ {0}, NEW u \in Int, NEW v \in Int, NEW k \in Int,
         u = v + M * k
  PROVE  u % M = v % M
<1>1. v = M * (v \div M) + (v % M) /\ v \div M \in Int /\ v % M \in 0 .. M - 1
  BY DivMod
<1>2. PICK q \in Int, r \in 0 .. M - 1 : r = v % M /\ v = M * q + r
  BY <1>1
<1>3. u = M * (q + k) + r /\ q + k \in Int /\ r \in Int /\ 0 <= r /\ r < M
  BY <1>2
<1>4. u % M = r
  BY <1>3, DivModUnique
<1>5. QED
  BY <1>2, <1>4

(* A number is its remainder and a multiple of M. *)
LEMMA RemainderSplit ==
  ASSUME NEW M \in Nat \ {0}, NEW u \in Int
  PROVE  u % M \in 0 .. M - 1 /\ \E k \in Int : u = (u % M) + M * k
<1>1. u = M * (u \div M) + (u % M) /\ u \div M \in Int /\ u % M \in 0 .. M - 1
  BY DivMod
<1>2. PICK q \in Int, r \in 0 .. M - 1 : r = u % M /\ u = M * q + r
  BY <1>1
<1>3. u = r + M * q
  BY <1>2
<1>4. QED
  BY <1>2, <1>3

(* A factor may be reduced before it is multiplied. *)
LEMMA ReduceFactor ==
  ASSUME NEW M \in Nat \ {0}, NEW u \in Int, NEW v \in Int
  PROVE  (u * (v % M)) % M = (u * v) % M /\ ((v % M) * u) % M = (v * u) % M
<1>1. PICK r \in 0 .. M - 1, k \in Int : r = v % M /\ v = r + M * k
  <2>1. v % M \in 0 .. M - 1 /\ \E k \in Int : v = (v % M) + M * k
    BY RemainderSplit
  <2>2. QED
    BY <2>1
<1>2. u * v = u * r + M * (u * k) /\ v * u = r * u + M * (u * k)
  <2>1. u * v = u * r + u * (M * k) /\ v * u = u * v /\ r * u = u * r
    BY <1>1
  <2>2. u * (M * k) = M * (u * k)
    OBVIOUS
  <2>3. QED
    BY <2>1, <2>2
<1>3. u * v \in Int /\ u * r \in Int /\ u * k \in Int /\ v * u \in Int /\ r * u \in Int
  BY <1>1
<1>4. (u * v) % M = (u * r) % M
  BY <1>2, <1>3, SameRemainder
<1>5. (v * u) % M = (r * u) % M
  BY <1>2, <1>3, SameRemainder
<1>6. QED
  BY <1>1, <1>4, <1>5

(* An odd number has an inverse modulo every power of two, here the negative *)
(* one that Montgomery's multiplication uses.                                *)
LEMMA OddInverse ==
  ASSUME NEW M \in Nat, M % 2 = 1
  PROVE  \A n \in Nat : \E d \in 0 .. Pow2[n] - 1 : (d * M + 1) % Pow2[n] = 0
<1> DEFINE S == {n \in Nat : \E d \in 0 .. Pow2[n] - 1 : (d * M + 1) % Pow2[n] = 0}
<1>1. 0 \in S
  <2>1. 0 \in 0 .. 1 - 1 /\ (0 * M + 1) % 1 = 0
    OBVIOUS
  <2>2. QED
    BY <2>1, Pow2Unfold
<1>2. ASSUME NEW n \in S PROVE n + 1 \in S
  <2>1. PICK P \in Nat \ {0} : Pow2[n] = P
    BY Pow2Unfold
  <2>2. Pow2[n + 1] = 2 * P
    BY <2>1, Pow2Unfold
  <2>3. PICK d \in 0 .. P - 1 : (d * M + 1) % P = 0
    BY <2>1
  <2>4. PICK q \in Int : d * M + 1 = P * q
    <3>1. d * M + 1 \in Int
      BY <2>3
    <3>2. QED
      BY <2>3, <3>1, ZeroRemainder
  <2>5. PICK h \in Int : M = 2 * h + 1
    <3>1. M = 2 * (M \div 2) + (M % 2) /\ M \div 2 \in Int
      OBVIOUS
    <3>2. QED
      BY <3>1
  <2>6. \E f \in 0 .. 2 * P - 1 : \E k \in Int : f * M + 1 = (2 * P) * k
    <3>1. CASE q % 2 = 0
      <4>1. PICK k \in Int : q = 2 * k
        BY <3>1, q = 2 * (q \div 2) + (q % 2)
      <4>2. P * (2 * k) = (2 * P) * k
        OBVIOUS
      <4>3. d \in 0 .. 2 * P - 1 /\ d * M + 1 = (2 * P) * k
        BY <2>3, <2>4, <4>1, <4>2
      <4>4. QED
        BY <4>3
    <3>2. CASE q % 2 = 1
      <4>1. PICK k \in Int : q = 2 * k + 1
        BY <3>2, q = 2 * (q \div 2) + (q % 2)
      <4>2. (d + P) * M + 1 = P * q + P * M
        <5>1. (d + P) * M = d * M + P * M /\ d * M \in Int /\ P * M \in Int
          BY <2>3
        <5>2. QED
          BY <2>4, <5>1
      <4>3. P * q + P * M = P * (q + M)
        OBVIOUS
      <4>4. q + M = 2 * (k + h + 1)
        BY <2>5, <4>1
      <4>5. P * (2 * (k + h + 1)) = (2 * P) * (k + h + 1)
        OBVIOUS
      <4>6. d + P \in 0 .. 2 * P - 1 /\ k + h + 1 \in Int
        BY <2>3
      <4>7. QED
        BY <4>2, <4>3, <4>4, <4>5, <4>6
    <3>3. QED
      BY <3>1, <3>2
  <2>7. PICK f \in 0 .. 2 * P - 1, k \in Int : f * M + 1 = (2 * P) * k
    BY <2>6
  <2>8. (f * M + 1) % (2 * P) = 0
    <3>1. f * M + 1 \in Int /\ 2 * P \in Nat \ {0}
      BY <2>7
    <3>2. QED
      BY <2>7, <3>1, ZeroRemainder
  <2>9. n + 1 \in Nat
    OBVIOUS
  <2>10. QED
    BY <2>2, <2>8, <2>9
<1>3. S = Nat
  <2>1. S \in SUBSET Nat
    OBVIOUS
  <2> HIDE DEF S
  <2>2. QED
    BY <1>1, <1>2, <2>1, SetInduction
<1>4. QED
  BY <1>3 DEF S

(* And a power of two one modulo every odd number. *)
LEMMA PowerInverse ==
  ASSUME NEW M \in Nat, M % 2 = 1, NEW n \in Nat
  PROVE  \E k \in 0 .. M - 1 : (k * Pow2[n]) % M = 1 % M
<1>1. PICK B \in Nat \ {0} : Pow2[n] = B
  BY Pow2Unfold
<1>2. M \in Nat \ {0}
  OBVIOUS
<1>3. PICK d \in 0 .. B - 1 : (d * M + 1) % B = 0
  BY <1>1, OddInverse
<1>4. PICK q \in Int : d * M + 1 = B * q
  <2>1. d * M + 1 \in Int
    BY <1>3
  <2>2. QED
    BY <1>3, <2>1, ZeroRemainder
<1>5. (q * B) % M = 1 % M
  <2>1. PICK w \in Int : w = q * B
    OBVIOUS
  <2>2. w = 1 + M * d /\ 1 \in Int /\ d \in Int
    BY <1>3, <1>4, <2>1
  <2>3. w % M = 1 % M
    BY <1>2, <2>2, SameRemainder
  <2>4. QED
    BY <2>1, <2>3
<1>6. ((q % M) * B) % M = (q * B) % M
  <2>1. q \in Int /\ B \in Int
    OBVIOUS
  <2>2. QED
    BY <1>2, <2>1, ReduceFactor, Zenon
<1>7. q % M \in 0 .. M - 1
  BY <1>2
<1>8. QED
  BY <1>1, <1>5, <1>6, <1>7

=============================================================================
