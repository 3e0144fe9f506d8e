------------------------- MODULE BigNumDivideProofs -------------------------
(***************************************************************************)
(* Theorems about BigNum::divide, operator/= and mod, for any radix,       *)
(* dividends and divisors: the vectors hold every digit that is read or    *)
(* written, quotient * divisor + remainder is the dividend throughout, and *)
(* without a zero digit the estimates are at most one too large and the    *)
(* results are exact.                                                      *)
(***************************************************************************)
EXTENDS BigNumDivide, BigNumArithProofs, TLAPS

-----------------------------------------------------------------------------
(***************************************************************************)
(* Estimating a quotient digit, on integers.                               *)
(***************************************************************************)
(* k is the quotient of a and b, rounded down. *)
IsQuotient(k, a, b) == k * b <= a /\ a < (k + 1) * b

(* b holds v whole units of g. *)
Holds(v, b, g) == v * g <= b

(* There is one such k, and it is what \div gives. *)
LEMMA QuotientIsDiv ==
  ASSUME NEW a \in Nat, NEW b \in Nat \ {0}, NEW k \in Nat
  PROVE  /\ a \div b \in Nat /\ IsQuotient(a \div b, a, b)
         /\ IsQuotient(k, a, b) <=> k = a \div b
         /\ k <= a \div b <=> k * b <= a
<1>1. PICK d \in Int, e \in Int : d = a \div b /\ e = a % b
  <2>1. a \in Int
    OBVIOUS
  <2>2. a \div b \in Int /\ a % b \in 0 .. b - 1
    BY <2>1, DivMod
  <2>3. QED
    BY <2>2
<1>2. e \in 0 .. b - 1 /\ a = b * d + e
  <2>1. a \in Int
    OBVIOUS
  <2>2. QED
    BY <1>1, <2>1, DivMod
<1>3. d \in Nat
  <2>1. ASSUME d < 0 PROVE FALSE
    <3>1. d <= -1 /\ b * d <= b * (-1)
      BY <2>1
    <3>2. QED
      BY <1>2, <3>1
  <2>2. QED
    BY <2>1
<1>4. d * b <= a /\ a < (d + 1) * b
  BY <1>2
<1>5. ASSUME k < d PROVE k * b <= a /\ ~(a < (k + 1) * b)
  <2>1. k + 1 <= d /\ (k + 1) * b <= d * b /\ k * b <= (k + 1) * b
    BY <1>5
  <2>2. QED
    BY <1>4, <2>1
<1>6. ASSUME k > d PROVE ~(k * b <= a)
  <2>1. d + 1 <= k /\ (d + 1) * b <= k * b
    BY <1>6
  <2>2. QED
    BY <1>4, <2>1
<1>7. QED
  BY <1>1, <1>3, <1>4, <1>5, <1>6 DEF IsQuotient

(* Both sides of a division may be scaled. *)
LEMMA QuotientScaled ==
  ASSUME NEW a \in Nat, NEW b \in Nat, NEW k \in Nat, NEW s \in Nat \ {0},
         IsQuotient(k, a, b)
  PROVE  IsQuotient(k, a * s, b * s)
<1>1. k * b <= a /\ a < (k + 1) * b
  BY DEF IsQuotient
<1>2. PICK y1 \in Nat, y2 \in Nat : y1 = k * b /\ y2 = (k + 1) * b
  OBVIOUS
<1>3. y1 * s <= a * s /\ a * s < y2 * s
  BY <1>1, <1>2
<1>4. y1 * s = k * (b * s) /\ y2 * s = (k + 1) * (b * s)
  BY <1>2
<1>5. QED
  BY <1>3, <1>4 DEF IsQuotient

(* A number of at most the quotient d, times the leading digits v of the       *)
(* divisor, is at most the leading digits u of the dividend: the correction    *)
(* does not lower the estimate below the quotient.                             *)
LEMMA QuotientPassesTest ==
  ASSUME NEW a \in Nat, NEW b \in Nat, NEW g \in Nat \ {0}, NEW u \in Nat,
         NEW v \in Nat, NEW d \in Nat, NEW c \in 0 .. d,
         IsQuotient(u, a, g), Holds(v, b, g), IsQuotient(d, a, b)
  PROVE  c * v <= u
<1>1. u * g <= a /\ a < (u + 1) * g /\ v * g <= b /\ d * b <= a
  BY DEF IsQuotient, Holds
<1>2. c \in Nat /\ c <= d
  OBVIOUS
<1>3. PICK y1 \in Nat, y2 \in Nat, y3 \in Nat : y1 = v * g /\ y2 = c * b /\ y3 = d * b
  BY <1>2
<1>4. c * y1 <= y2 /\ y2 <= y3
  BY <1>1, <1>2, <1>3
<1>5. ASSUME c * v >= u + 1 PROVE FALSE
  <2>1. PICK w \in Nat : w = c * v
    BY <1>2
  <2>2. (u + 1) * g <= w * g
    BY <1>5, <2>1
  <2>3. w * g = c * y1
    BY <1>2, <1>3, <2>1
  <2>4. PICK z1 \in Nat, z2 \in Nat : z1 = (u + 1) * g /\ z2 = c * y1
    BY <1>2
  <2>5. a < z1 /\ z1 <= z2 /\ z2 <= y2 /\ y2 <= y3 /\ y3 <= a
    BY <1>1, <1>3, <1>4, <2>2, <2>3, <2>4
  <2>6. QED
    BY <2>5
<1>6. c * v \in Nat
  BY <1>2
<1>7. QED
  BY <1>5, <1>6

(* A number that passes the test is at most one larger than the quotient, when *)
(* v has a digit more than it.                                                 *)
LEMMA TestBoundsEstimate ==
  ASSUME NEW a \in Nat, NEW b \in Nat, NEW g \in Nat \ {0}, NEW u \in Nat,
         NEW v \in Nat, NEW d \in Nat, NEW c \in 0 .. v,
         IsQuotient(u, a, g), IsQuotient(v, b, g), IsQuotient(d, a, b),
         c * v <= u
  PROVE  c <= d + 1
<1>1. u * g <= a /\ b < (v + 1) * g /\ a < (d + 1) * b
  BY DEF IsQuotient
<1>2. SUFFICES ASSUME c >= d + 2 PROVE FALSE
  OBVIOUS
<1>3. c \in Nat /\ c - 1 \in Nat /\ d + 1 <= c - 1
  BY <1>2
<1>4. PICK e \in Nat : e = c - 1
  BY <1>3
<1>5. (d + 1) * b <= e * b
  BY <1>3, <1>4
<1>6. e * b <= e * ((v + 1) * g)
  <2>1. PICK p \in Nat : p = (v + 1) * g
    OBVIOUS
  <2>2. b <= p
    BY <1>1, <2>1
  <2>3. e * b <= e * p
    BY <2>2
  <2>4. QED
    BY <2>1, <2>3
<1>7. e * ((v + 1) * g) = (e * (v + 1)) * g
  OBVIOUS
<1>8. PICK w \in Nat : w = e * (v + 1)
  OBVIOUS
<1>9. u * g < w * g
  <2>1. PICK z1 \in Nat, z2 \in Nat, z3 \in Nat, z4 \in Nat :
          z1 = u * g /\ z2 = (d + 1) * b /\ z3 = e * b /\ z4 = w * g
    OBVIOUS
  <2>2. z1 <= a /\ a < z2 /\ z2 <= z3 /\ z3 <= z4
    BY <1>1, <1>5, <1>6, <1>7, <1>8, <2>1
  <2>3. QED
    BY <2>1, <2>2
<1>10. u < w
  BY <1>9
<1>11. w = c * v + c - v - 1
  BY <1>3, <1>4, <1>8
<1>12. PICK p \in Nat : p = c * v
  BY <1>3
<1>13. p <= u /\ u < p + c - v - 1 /\ c <= v
  BY <1>10, <1>11, <1>12
<1>14. QED
  BY <1>13

(* The first estimate, from one digit z of the divisor, is not too small. *)
LEMMA FirstEstimateEnough ==
  ASSUME NEW a \in Nat, NEW b \in Nat, NEW g \in Nat \ {0}, NEW u \in Nat,
         NEW z \in Nat \ {0}, NEW d \in Nat,
         IsQuotient(u, a, g), Holds(z, b, g), IsQuotient(d, a, b)
  PROVE  d <= u \div z
<1>1. d \in 0 .. d
  OBVIOUS
<1>2. d * z <= u
  BY <1>1, QuotientPassesTest
<1>3. QED
  BY <1>2, QuotientIsDiv

-----------------------------------------------------------------------------
(***************************************************************************)
(* Leading digits.                                                         *)
(***************************************************************************)
(* The number that the digits of z from digit j on stand for. *)
Leading(z, j) == Magnitude(z) \div Weight(j)

(* It takes a digit more at each digit further down. *)
LEMMA LeadingStep ==
  ASSUME NEW z, Safe(z), NEW j \in Nat
  PROVE  /\ Leading(z, j) \in Nat /\ Words(z)[j] \in Digit
         /\ Leading(z, j) = Leading(z, j + 1) * DigitRadix + Words(z)[j]
         /\ z.used <= j => Leading(z, j) = 0
         /\ IsQuotient(Leading(z, j), Magnitude(z), Weight(j))
<1>1. PICK m \in Nat, R \in Nat \ {0}, P \in Nat \ {0} :
        m = Magnitude(z) /\ R = DigitRadix /\ P = Weight(j)
  BY MagnitudeIsSum, RadixPositive, Weights
<1>2. Weight(j + 1) = P * R
  BY <1>1, Weights
<1>3. PICK d \in Nat : d = m \div P
  BY QuotientIsDiv
<1>4. Words(z)[j] = d % R
  BY <1>1, <1>3, DigitOf
<1>5. m \div (P * R) = d \div R
  <2>1. m \in Int
    OBVIOUS
  <2>2. m \div (P * R) = (m \div P) \div R
    BY <2>1, DivDiv
  <2>3. QED
    BY <1>3, <2>2
<1>6. d = (d \div R) * R + (d % R) /\ d % R \in 0 .. R - 1
  <2>1. d \in Int
    OBVIOUS
  <2>2. PICK e \in Int, w \in Int : e = d \div R /\ w = d % R
    <3>1. d \div R \in Int /\ d % R \in 0 .. R - 1
      BY <2>1, DivMod
    <3>2. QED
      BY <3>1
  <2>3. d = R * e + w /\ w \in 0 .. R - 1
    BY <2>1, <2>2, DivMod
  <2>4. R * e = e * R
    OBVIOUS
  <2>5. QED
    BY <2>2, <2>3, <2>4
<1>7. Leading(z, j) = d /\ Leading(z, j + 1) = d \div R
  BY <1>1, <1>2, <1>3, <1>5, Zenon DEF Leading
<1>8. IsQuotient(d, m, P)
  BY <1>3, QuotientIsDiv
<1>9. ASSUME z.used <= j PROVE d = 0
  <2>1. z.used \in Nat
    BY Fields DEF Safe
  <2>2. PICK Q \in Nat : Q = Weight(z.used)
    BY <2>1, Weights
  <2>3. m < Q /\ Q <= P
    BY <1>1, <1>9, <2>1, <2>2, WeightsGrow, MagnitudeIsSum
  <2>4. m < P
    BY <2>3
  <2>5. 0 * P <= m /\ m < (0 + 1) * P
    BY <2>4
  <2>6. IsQuotient(0, m, P) /\ 0 \in Nat
    BY <2>5 DEF IsQuotient
  <2>7. QED
    BY <1>3, <2>6, QuotientIsDiv
<1>10. QED
  BY <1>1, <1>4, <1>6, <1>7, <1>8, <1>9 DEF Digit

(* The first digits of a number of at most k + 1 digits. *)
LEMMA TopDigits ==
  ASSUME NEW z, Safe(z), NEW k \in Nat, z.used <= k + 1
  PROVE  /\ Leading(z, k) = Words(z)[k]
         /\ k >= 1 => Leading(z, k - 1) = Words(z)[k] * DigitRadix + Words(z)[k - 1]
         /\ k >= 2 => Leading(z, k - 2) =
              (Words(z)[k] * DigitRadix + Words(z)[k - 1]) * DigitRadix + Words(z)[k - 2]
<1>1. PICK R \in Nat : R = DigitRadix
  BY RadixAtLeastTwo
<1>2. Leading(z, k) = Words(z)[k]
  <2>1. k + 1 \in Nat
    OBVIOUS
  <2>2. Leading(z, k + 1) = 0
    BY <2>1, LeadingStep
  <2>3. Leading(z, k) = 0 * R + Words(z)[k] /\ Words(z)[k] \in Digit
    BY <1>1, <2>2, LeadingStep
  <2>4. Words(z)[k] \in Int
    BY <1>1, <2>3 DEF Digit
  <2>5. QED
    BY <2>3, <2>4
<1>3. ASSUME k >= 1
      PROVE  Leading(z, k - 1) = Words(z)[k] * DigitRadix + Words(z)[k - 1]
  <2>1. k - 1 \in Nat /\ (k - 1) + 1 = k
    BY <1>3
  <2>2. Leading(z, k - 1) = Leading(z, (k - 1) + 1) * DigitRadix + Words(z)[k - 1]
    BY <2>1, LeadingStep
  <2>3. QED
    BY <1>2, <2>1, <2>2
<1>4. ASSUME k >= 2
      PROVE  Leading(z, k - 2) =
              (Words(z)[k] * DigitRadix + Words(z)[k - 1]) * DigitRadix + Words(z)[k - 2]
  <2>1. k - 2 \in Nat /\ (k - 2) + 1 = k - 1 /\ k >= 1
    BY <1>4
  <2>2. Leading(z, k - 2) = Leading(z, (k - 2) + 1) * DigitRadix + Words(z)[k - 2]
    BY <2>1, LeadingStep
  <2>3. QED
    BY <1>3, <2>1, <2>2
<1>5. QED
  BY <1>2, <1>3, <1>4

(* All digits are the number. *)
LEMMA LeadingAll ==
  ASSUME NEW z, Safe(z)
  PROVE  Leading(z, 0) = Magnitude(z)
<1>1. PICK m \in Nat : m = Magnitude(z)
  BY MagnitudeIsSum
<1>2. m \div 1 = m
  OBVIOUS
<1>3. QED
  BY <1>1, <1>2, Weights DEF Leading

(* How many digits a number uses, by its size. *)
LEMMA UsedOf ==
  ASSUME NEW z, Proper(z), NEW k \in Nat
  PROVE  /\ Magnitude(z) < Weight(k) => z.used <= k
         /\ Weight(k) <= Magnitude(z) => k < z.used
<1>1. z.used \in Nat /\ Safe(z) /\ LeadingNonzero(z)
  BY Fields DEF Proper, Safe
<1>2. PICK m \in Nat, P \in Nat : m = Magnitude(z) /\ P = Weight(k)
  BY <1>1, MagnitudeIsSum, Weights
<1>3. ASSUME m < P PROVE z.used <= k
  <2>1. SUFFICES ASSUME z.used > k PROVE FALSE
    BY <1>1
  <2>2. z.used - 1 \in Nat /\ k <= z.used - 1 /\ z.used > 0
    BY <1>1, <2>1
  <2>3. PICK Q \in Nat : Q = Weight(z.used - 1)
    BY <2>2, Weights
  <2>4. Q <= m
    BY <1>1, <1>2, <2>2, <2>3, MagnitudeAtLeast
  <2>5. P <= Q
    BY <1>2, <2>2, <2>3, WeightsGrow
  <2>6. QED
    BY <1>3, <2>4, <2>5
<1>4. ASSUME P <= m PROVE k < z.used
  <2>1. SUFFICES ASSUME z.used <= k PROVE FALSE
    BY <1>1
  <2>2. PICK Q \in Nat : Q = Weight(z.used)
    BY <1>1, Weights
  <2>3. m < Q
    BY <1>1, <1>2, <2>2, MagnitudeIsSum
  <2>4. Q <= P
    BY <1>1, <1>2, <2>1, <2>2, WeightsGrow
  <2>5. QED
    BY <1>4, <2>3, <2>4
<1>5. QED
  BY <1>2, <1>3, <1>4

-----------------------------------------------------------------------------
(***************************************************************************)
(* The digits of the quotient, which are set one by one.                   *)
(***************************************************************************)
(* Setting a digit in use changes the number by what the digit changes. *)
LEMMA SetDigit ==
  ASSUME NEW z, Safe(z), NEW k \in Nat, k < z.used, NEW d \in Digit
  PROVE  LET w == [z EXCEPT !.dig[k] = d]
         IN  /\ Safe(w) /\ w.used = z.used /\ w.size = z.size /\ w.neg = z.neg
             /\ w.dig[k] = d
             /\ \A j \in 0 .. z.size - 1 : j # k => w.dig[j] = z.dig[j]
             /\ Magnitude(w) = Magnitude(z) + (d - z.dig[k]) * Weight(k)
<1> DEFINE w == [z EXCEPT !.dig[k] = d]
<1>1. /\ z.neg \in BOOLEAN /\ z.used \in Nat /\ z.size \in Nat
      /\ z.dig \in [0 .. z.size - 1 -> Digit] /\ z.used <= z.size /\ z.size > 0
      /\ \A j \in z.used .. z.size - 1 : z.dig[j] = 0
  BY Fields DEF Safe, UsedInVector, ClearAboveUsed
<1>2. z \in Exactly(z.neg, z.used, z.size, z.dig)
  BY Shape DEF Safe
<1>3. k \in 0 .. z.size - 1
  BY <1>1
<1>4. /\ w = [neg |-> z.neg, used |-> z.used, size |-> z.size,
              dig |-> [z.dig EXCEPT ![k] = d]]
  BY <1>2 DEF Exactly
<1>5. /\ [z.dig EXCEPT ![k] = d] \in [0 .. z.size - 1 -> Digit]
      /\ [z.dig EXCEPT ![k] = d][k] = d
      /\ \A j \in 0 .. z.size - 1 : j # k => [z.dig EXCEPT ![k] = d][j] = z.dig[j]
  BY <1>1, <1>3
<1> HIDE DEF w
<1>6. /\ w.used = z.used /\ w.size = z.size /\ w.neg = z.neg /\ w.dig[k] = d
      /\ w.dig \in [0 .. w.size - 1 -> Digit]
      /\ \A j \in 0 .. z.size - 1 : j # k => w.dig[j] = z.dig[j]
  BY <1>4, <1>5
<1>7. Safe(w)
  <2>1. IsNumber(w)
    BY <1>1, <1>4, <1>5 DEF IsNumber
  <2>2. ClearAboveUsed(w)
    BY <1>1, <1>6 DEF ClearAboveUsed
  <2>3. QED
    BY <1>1, <1>6, <2>1, <2>2 DEF Safe, UsedInVector
<1>8. PICK e \in Int : e = d - z.dig[k]
  BY <1>1, <1>3, RadixPositive DEF Digit
<1> DEFINE one == [j \in Nat |-> IF j = k THEN e ELSE 0]
<1>9. one \in [Nat -> Int] /\ one[k] = e /\ \A j \in Nat : j # k => one[j] = 0
  OBVIOUS
<1> HIDE DEF one
<1>10. Words(z) \in [Nat -> Int] /\ Words(w) \in [Nat -> Int]
  BY <1>7, WordsAreDigits DEF Safe
<1>11. \A j \in Nat : Words(w)[j] = Words(z)[j] + one[j]
  <2>1. ASSUME NEW j \in Nat, j # k PROVE Words(w)[j] = Words(z)[j] + one[j]
    <3>1. Words(w)[j] = Words(z)[j]
      BY <1>1, <1>6, <2>1 DEF Words
    <3>2. Words(z)[j] \in Int /\ one[j] = 0
      BY <1>9, <1>10, <2>1
    <3>3. QED
      BY <3>1, <3>2
  <2>2. Words(w)[k] = Words(z)[k] + one[k]
    <3>1. Words(w)[k] = d /\ Words(z)[k] = z.dig[k] /\ z.dig[k] \in Int /\ d \in Int
      BY <1>1, <1>3, <1>6, RadixPositive DEF Words, Digit
    <3>2. QED
      BY <1>8, <1>9, <3>1
  <2>3. QED
    BY <2>1, <2>2
<1>12. \A j \in Nat : Sums(Words(w))[j] = Sums(Words(z))[j] + Sums(one)[j]
  BY <1>9, <1>10, <1>11, SumsPlus, ZenonT(60)
<1>13. Sums(one)[z.used] = e * Weight(k)
  <2>1. \A j \in 0 .. k - 1 : one[j] = 0
    BY <1>9
  <2>2. Sums(one)[k] = 0
    BY <1>9, <2>1, SumsOfZeros
  <2>3. Sums(one)[k + 1] = e * Weight(k)
    <3>1. Sums(one)[k + 1] = 0 + e * Weight(k)
      BY <1>9, <2>2, SumsUnfold
    <3>2. e * Weight(k) \in Int
      BY Weights
    <3>3. QED
      BY <3>1, <3>2
  <2>4. \A j \in Nat : j >= k + 1 => one[j] = 0
    BY <1>9
  <2>5. k + 1 \in Nat /\ z.used >= k + 1
    BY <1>1
  <2>6. Sums(one)[z.used] = Sums(one)[k + 1]
    BY <1>1, <1>9, <2>4, <2>5, SumsSettle
  <2>7. QED
    BY <2>3, <2>6
<1>14. Magnitude(w) = Magnitude(z) + e * Weight(k)
  <2>1. Magnitude(w) = Sums(Words(w))[z.used] /\ Magnitude(z) = Sums(Words(z))[z.used]
    BY <1>1, <1>6, <1>7, MagnitudeIsSum
  <2>2. QED
    BY <1>1, <1>12, <1>13, <2>1
<1>15. QED
  BY <1>6, <1>7, <1>8, <1>14 DEF w

(* A number with no digit but digit k. *)
LEMMA OnlyDigit ==
  ASSUME NEW z, Safe(z), NEW k \in Nat, k < z.used,
         \A j \in 0 .. z.size - 1 : j # k => z.dig[j] = 0
  PROVE  Magnitude(z) = z.dig[k] * Weight(k) /\ z.dig[k] \in Digit
<1>1. /\ z.used \in Nat /\ z.size \in Nat /\ z.used <= z.size
      /\ z.dig \in [0 .. z.size - 1 -> Digit]
  BY Fields DEF Safe, UsedInVector
<1>2. k \in 0 .. z.size - 1
  BY <1>1
<1>3. Words(z) \in [Nat -> Int] /\ Words(z)[k] = z.dig[k]
      /\ \A j \in Nat : j # k => Words(z)[j] = 0
  BY <1>1, <1>2, WordsAreDigits DEF Safe, Words
<1>4. Sums(Words(z))[k] = 0
  <2>1. \A j \in 0 .. k - 1 : Words(z)[j] = 0
    BY <1>3
  <2>2. QED
    BY <1>3, <2>1, SumsOfZeros
<1>5. Sums(Words(z))[k + 1] = 0 + z.dig[k] * Weight(k)
  BY <1>3, <1>4, SumsUnfold
<1>6. \A j \in Nat : j >= k + 1 => Words(z)[j] = 0
  BY <1>3
<1>7. k + 1 \in Nat /\ z.used >= k + 1
  BY <1>1
<1>8. Sums(Words(z))[z.used] = Sums(Words(z))[k + 1]
  BY <1>1, <1>3, <1>6, <1>7, SumsSettle
<1>9. Magnitude(z) = Sums(Words(z))[z.used]
  BY <1>1, MagnitudeIsSum
<1>10. z.dig[k] \in Digit /\ z.dig[k] * Weight(k) \in Int
  <2>1. PICK P \in Nat : P = Weight(k)
    BY Weights
  <2>2. z.dig[k] \in Digit /\ z.dig[k] \in Int
    BY <1>1, <1>2, RadixPositive DEF Digit
  <2>3. QED
    BY <2>1, <2>2
<1>11. QED
  BY <1>5, <1>8, <1>9, <1>10

-----------------------------------------------------------------------------
(***************************************************************************)
(* The inductive invariant.                                                *)
(***************************************************************************)
(* The stages of the call: the loops, and the estimate of a digit in them. *)
Dividing   == pc \in {"leading", "digit", "correct", "subtract"}
Digits     == pc \in {"digit", "correct", "subtract"}
Estimating == pc \in {"correct", "subtract"}

(* The objects are in their form, but for the quotient while it is computed, *)
(* whose leading digits are still zero.                                      *)
Objects ==
  /\ \A v \in {rhs, r, x, y} : Proper(v)
  /\ Safe(q) /\ Safe(this) /\ (pc # "done" => Proper(this))

Kinds ==
  /\ op \in Operators /\ zeroDigit \in BOOLEAN
  /\ pc \in {"call", "threw", "leading", "digit", "correct", "subtract",
             "return", "done"}
  /\ normShift \in 0 .. DigitBits - 1 /\ n \in Nat /\ t \in Nat /\ i \in Nat

(* What the call begins with, and that only a divisor that is not zero gets on. *)
Begun ==
  /\ pc = "call" => q = BigNumDefault
  /\ pc \notin {"call", "threw"} => ~IsZero(rhs)

(* The divisor has digits 0 .. t, the dividend 0 .. n, and the vectors have a word *)
(* for each of them and for each digit of the quotient.                            *)
Normalised ==
  Dividing =>
    /\ Magnitude(rhs) <= Magnitude(this)
    /\ Weight(t) <= Scaled(rhs) /\ Scaled(rhs) < Weight(t + 1)
    /\ Scaled(this) < Weight(n + 1)
    /\ t <= n /\ n <= this.used /\ n < x.size /\ n < y.size
    /\ q.used = this.used + 2
    /\ pc = "leading" => Value(y) = Scaled(rhs) * Weight(n - t) /\ Value(x) >= 0

(* Where the digit loop is, and the divisor in it. *)
Position ==
  Digits => /\ i \in t .. n /\ (Estimating => i > t)
            /\ Value(y) = Scaled(rhs)

(* The digits of the quotient not yet computed are zero. *)
Unset ==
  /\ pc = "leading" => \A k \in 0 .. q.size - 1 : k # n - t => q.dig[k] = 0
  /\ pc = "digit" => \A k \in 0 .. q.size - 1 : k < i - t => q.dig[k] = 0
  /\ Estimating => \A k \in 0 .. q.size - 1 : k < i - t - 1 => q.dig[k] = 0

(* The quotient computed so far, without the digit being estimated. *)
Computed == Magnitude(q) - (IF Estimating THEN Qhat * Weight(i - t - 1) ELSE 0)
Identity == Dividing => Computed * Scaled(rhs) + Value(x) = Scaled(this)

(* The running remainder, when no estimate was made from a zero digit. *)
Below ==
  Digits /\ ~zeroDigit => Value(x) >= 0 /\ Value(x) < Scaled(rhs) * Weight(i - t)

(* The estimate that the next turn of the correction tests, or that has passed. *)
Candidate == IF pc = "correct" THEN (Qhat - 1) % DigitRadix ELSE Qhat

(* One unit of the quotient digit being computed. *)
Unit == Scaled(rhs) * Weight(i - t - 1)

(* An estimate is never zero, and neither too small nor, once it has passed the *)
(* test, more than one too large.                                               *)
Estimates ==
  Estimating =>
    /\ Candidate >= 1
    /\ ~zeroDigit => /\ x.dig[i] # 0
                     /\ Magnitude(x) \div Unit <= Candidate
                     /\ pc = "subtract" => Candidate <= (Magnitude(x) \div Unit) + 1

(* The results. *)
Results == pc = "return" /\ ~zeroDigit => Proper(q) /\ DivideExact

(* Together they are inductive. *)
IInv ==
  /\ Objects /\ Kinds /\ Begun /\ Normalised /\ Position /\ Unset
  /\ Identity /\ Below /\ Estimates /\ Results

(* What the invariant says of the numbers. *)
LEMMA Named ==
  ASSUME IInv
  PROVE  /\ Proper(rhs) /\ Proper(r) /\ Proper(x) /\ Proper(y)
         /\ Safe(q) /\ Safe(this) /\ (pc # "done" => Proper(this))
         /\ n \in Nat /\ t \in Nat /\ i \in Nat /\ normShift \in Nat
         /\ Value(x) \in Int /\ Magnitude(x) \in Nat /\ Magnitude(q) \in Nat
         /\ Scaled(rhs) \in Nat /\ Scaled(this) \in Nat
         /\ pc \notin {"call", "threw"} => Scaled(rhs) > 0 /\ Magnitude(rhs) > 0
<1>1. /\ Proper(rhs) /\ Proper(r) /\ Proper(x) /\ Proper(y)
      /\ Safe(q) /\ Safe(this) /\ (pc # "done" => Proper(this))
      /\ n \in Nat /\ t \in Nat /\ i \in Nat /\ normShift \in 0 .. DigitBits - 1
  BY DEF IInv, Objects, Kinds
<1>2. normShift \in Nat /\ Pow2[normShift] \in Nat \ {0}
  BY <1>1, DigitBitsAssumption, Pow2Unfold
<1>3. PICK P \in Nat \ {0} : P = Pow2[normShift]
  BY <1>2
<1>4. /\ Magnitude(rhs) \in Nat /\ Magnitude(this) \in Nat /\ Magnitude(q) \in Nat
      /\ Magnitude(x) \in Nat
  BY <1>1, MagnitudeIsSum DEF Proper
<1>5. Value(x) \in Int
  BY <1>1, ProperValue
<1>6. PICK m \in Nat, k \in Nat : m = Magnitude(rhs) /\ k = Magnitude(this)
  BY <1>4
<1>7. Scaled(rhs) = m * P /\ Scaled(this) = k * P
  BY <1>3, <1>6 DEF Scaled
<1>8. ASSUME pc \notin {"call", "threw"} PROVE Scaled(rhs) > 0 /\ Magnitude(rhs) > 0
  <2>1. rhs.used # 0
    BY <1>8 DEF IInv, Begun, IsZero
  <2>2. m > 0
    BY <1>1, <1>6, <2>1, ProperValue
  <2>3. m * P > 0
    BY <2>2
  <2>4. QED
    BY <1>6, <1>7, <2>2, <2>3
<1>9. m * P \in Nat /\ k * P \in Nat
  OBVIOUS
<1>10. QED
  BY <1>1, <1>2, <1>4, <1>5, <1>7, <1>8, <1>9

(* k and e are the quotient and the remainder of a and b. *)
IsDivision(a, b, k, e) == a = k * b + e /\ e < b

(* Division of integers rounds the quotient towards zero. *)
LEMMA QuotRem ==
  ASSUME NEW a \in Int, NEW b \in Int, NEW ma \in Nat, NEW mb \in Nat \ {0},
         ma = (IF a < 0 THEN -a ELSE a), mb = (IF b < 0 THEN -b ELSE b),
         NEW k \in Nat, NEW e \in Nat, IsDivision(ma, mb, k, e)
  PROVE  /\ (a < 0) # (b < 0) => Quot(a, b) = -k
         /\ (a < 0) = (b < 0) => Quot(a, b) = k
         /\ k = 0 => Quot(a, b) = 0
         /\ a < 0 => Rem(a, b) = -e
         /\ a >= 0 => Rem(a, b) = e
<1>0. ma = k * mb + e /\ e < mb
  BY DEF IsDivision
<1>1. ma \div mb = k
  <2>1. (k + 1) * mb = k * mb + mb
    OBVIOUS
  <2>2. IsQuotient(k, ma, mb)
    BY <1>0, <2>1 DEF IsQuotient
  <2>3. QED
    BY <2>2, QuotientIsDiv
<1>2. Quot(a, b) = (IF (a < 0) # (b < 0) THEN -1 ELSE 1) * k
  BY <1>1, Zenon DEF Quot
<1>3. Quot(a, b) = IF (a < 0) # (b < 0) THEN -k ELSE k
  BY <1>2
<1>4. Rem(a, b) = a - b * (IF (a < 0) # (b < 0) THEN -k ELSE k)
  BY <1>3, Zenon DEF Rem
<1>5. PICK p \in Nat : p = k * mb
  OBVIOUS
<1>6. b * (IF (a < 0) # (b < 0) THEN -k ELSE k) = IF a < 0 THEN -p ELSE p
  <2>1. CASE b < 0
    <3>1. b = -mb
      BY <2>1
    <3>2. (-mb) * k = -(k * mb) /\ (-mb) * (-k) = k * mb
      OBVIOUS
    <3>3. QED
      BY <1>5, <2>1, <3>1, <3>2
  <2>2. CASE ~(b < 0)
    <3>1. b = mb
      BY <2>2
    <3>2. mb * k = k * mb /\ mb * (-k) = -(k * mb)
      OBVIOUS
    <3>3. QED
      BY <1>5, <2>2, <3>1, <3>2
  <2>3. QED
    BY <2>1, <2>2
<1>7. ma = p + e
  BY <1>0, <1>5
<1>8. QED
  BY <1>0, <1>3, <1>4, <1>6, <1>7

(* What the call starts from. *)
LEMMA InitIInv ==
  ASSUME Init
  PROVE  IInv
<1>1. \E v \in Dividends : this = Represent(v)
  BY DEF Init
<1>2. \E v \in Divisors : rhs = Represent(v)
  BY DEF Init
<1>3. Proper(this) /\ Proper(rhs)
  BY <1>1, <1>2, OperandsAssumption, RepresentExact
<1>4. /\ op \in Operators /\ pc = "call" /\ zeroDigit = FALSE
      /\ q = BigNumDefault /\ r = BigNumDefault /\ x = BigNumDefault /\ y = BigNumDefault
      /\ normShift = 0 /\ n = 0 /\ t = 0 /\ i = 0
  BY DEF Init
<1>5. Objects
  BY <1>3, <1>4, DefaultExact DEF Objects, Proper
<1>6. Kinds
  <2>1. normShift \in 0 .. DigitBits - 1 /\ n \in Nat /\ t \in Nat /\ i \in Nat
    BY <1>4, DigitBitsAssumption
  <2>2. QED
    BY <1>4, <2>1, Zenon DEF Kinds
<1>7. QED
  BY <1>4, <1>5, <1>6 DEF IInv, Begun, Normalised, Position, Unset, Identity, Below,
                          Estimates, Results, Dividing, Digits, Estimating

(* Division by zero. *)
LEMMA ThrowKeeps ==
  ASSUME IInv, Throw
  PROVE  IInv'
<1>1. /\ pc = "call" /\ pc' = "threw" /\ op' = op /\ this' = this /\ rhs' = rhs /\ q' = q
      /\ r' = r /\ x' = x /\ y' = y /\ normShift' = normShift /\ n' = n /\ t' = t
      /\ i' = i /\ zeroDigit' = zeroDigit
  BY DEF Throw, Goto
<1>2. Objects' /\ Kinds' /\ Begun'
  BY <1>1 DEF IInv, Objects, Kinds, Begun
<1>3. QED
  BY <1>1, <1>2 DEF IInv, Normalised, Position, Unset, Identity, Below,
                    Estimates, Results, Dividing, Digits, Estimating

(* The dividend is the remainder. *)
LEMMA DividendSmallerKeeps ==
  ASSUME IInv, DividendSmaller
  PROVE  IInv'
<1>1. /\ pc = "call" /\ pc' = "return" /\ op' = op /\ this' = this /\ rhs' = rhs
      /\ q' = Zero(q) /\ r' = Assign(r, this) /\ x' = x /\ y' = y
      /\ normShift' = normShift /\ n' = n /\ t' = t /\ i' = i /\ zeroDigit' = zeroDigit
      /\ ~IsZero(rhs) /\ CompareMagnitude(this, rhs) = "LessThan"
  BY DEF DividendSmaller, Goto
<1>2. Proper(this) /\ Proper(rhs) /\ Safe(r) /\ Safe(q)
  BY <1>1, Named DEF Proper
<1>3. Proper(r') /\ Value(r') = Value(this) /\ Proper(q') /\ Value(q') = 0
  BY <1>1, <1>2, AssignExact, ZeroExact
<1>4. Objects' /\ Kinds' /\ Begun'
  BY <1>1, <1>3 DEF IInv, Objects, Kinds, Begun, Proper
<1>5. DivideExact'
  <2>1. PICK a \in Int, b \in Int, ma \in Nat, mb \in Nat :
          a = Value(this) /\ b = Value(rhs) /\ ma = Magnitude(this) /\ mb = Magnitude(rhs)
    BY <1>2, ProperValue
  <2>2. /\ ma = (IF a < 0 THEN -a ELSE a) /\ mb = (IF b < 0 THEN -b ELSE b)
    BY <1>2, <2>1, ProperValue
  <2>3. ma < mb /\ mb \in Nat \ {0}
    BY <1>1, <1>2, <2>1, LessMagnitude
  <2>4. PICK k \in Nat : k = 0 /\ IsDivision(ma, mb, k, ma)
    BY <2>3 DEF IsDivision
  <2>5. Quot(a, b) = 0 /\ (a < 0 => Rem(a, b) = -ma) /\ (a >= 0 => Rem(a, b) = ma)
    BY <2>2, <2>3, <2>4, QuotRem
  <2>6. Rem(a, b) = a
    BY <2>2, <2>5
  <2>7. QED
    BY <1>1, <1>3, <2>1, <2>5, <2>6 DEF DivideExact
<1>6. QED
  BY <1>1, <1>3, <1>4, <1>5 DEF IInv, Normalised, Position, Unset, Identity, Below,
                    Estimates, Results, Dividing, Digits, Estimating

(* The normalising shift is less than a digit, whatever the mask makes of the *)
(* bit length.                                                                *)
LEMMA NormShiftRange ==
  ASSUME NEW v, Proper(v)
  PROVE  NormShift(v) \in 0 .. DigitBits - 1
<1>1. PICK m \in Nat : m = NumberBits(v)
  BY NumberBitsExact
<1>2. PICK R \in Nat \ {0} : R = DigitRadix
  BY RadixPositive
<1>3. m % R \in Nat
  BY <1>2
<1>4. NormShift(v) = IF m % R < DigitBits - 1 THEN DigitBits - 1 - (m % R) ELSE 0
  BY <1>1, <1>2 DEF NormShift
<1>5. PICK k \in Nat : k = m % R
  BY <1>3
<1>6. QED
  BY <1>4, <1>5, DigitBitsAssumption

(* A normalised operand. *)
LEMMA NormaliseExact ==
  ASSUME NEW v, Proper(v), v.used > 0, NEW s \in 0 .. DigitBits - 1
  PROVE  LET z == Normalise(v, s)
         IN  /\ Proper(z) /\ z.used \in v.used .. v.used + 1 /\ z.used > 0
             /\ Value(z) = Magnitude(v) * Pow2[s] /\ Value(z) >= 0
             /\ Magnitude(z) = Magnitude(v) * Pow2[s]
<1> DEFINE z == Normalise(v, s)
<1>1. PICK m \in Nat : m = Magnitude(v)
  BY ProperValue
<1>2. Proper(Abs(v)) /\ Value(Abs(v)) = m /\ Abs(v).used = v.used /\ v.used \in Nat
  BY <1>1, AbsExact, Fields DEF Abs, Proper, Safe
<1>3. Proper(z) /\ Value(z) = m * Pow2[s] /\ z.used \in v.used .. v.used + 1
  <2>1. CASE s = 0
    <3>1. Pow2[s] = 1 /\ m * 1 = m
      BY <2>1, Pow2Unfold
    <3>2. z = Abs(v)
      BY <2>1 DEF Normalise
    <3>3. QED
      BY <1>2, <3>1, <3>2
  <2>2. CASE s # 0
    <3>1. z = Shl(Abs(v), s)
      BY <2>2 DEF Normalise
    <3>2. s \in Nat /\ s \div DigitBits = 0 /\ ~(s >= DigitBits)
      BY DigitBitsAssumption
    <3>3. Proper(z) /\ Value(z) = m * Pow2[s]
      BY <1>2, <3>1, <3>2, ShlExact
    <3>4. z.used \in v.used + 0 .. v.used + 0 + 1
      BY <1>2, <3>1, <3>2, ShlSafe DEF Proper
    <3>5. QED
      BY <1>2, <3>3, <3>4
  <2>3. QED
    BY <2>1, <2>2
<1> HIDE DEF z
<1>4. PICK P \in Nat : P = Pow2[s]
  BY Pow2Unfold, DigitBitsAssumption
<1>5. m * P \in Nat
  OBVIOUS
<1>6. Value(z) >= 0 /\ z.used > 0
  BY <1>2, <1>3, <1>4, <1>5
<1>7. Magnitude(z) = Value(z)
  BY <1>3, <1>6, ProperValue
<1>8. QED
  BY <1>1, <1>3, <1>6, <1>7 DEF z

(* The empty quotient: its digits are counted before they are computed. *)
LEMMA EmptyQuotient ==
  ASSUME NEW m \in Nat
  PROVE  LET z == [Grow(BigNumDefault, m) EXCEPT !.used = m]
         IN  /\ Safe(z) /\ z.used = m /\ Magnitude(z) = 0
             /\ \A k \in 0 .. z.size - 1 : z.dig[k] = 0
<1> DEFINE g == Grow(BigNumDefault, m)
           z == [g EXCEPT !.used = m]
<1>1. Safe(BigNumDefault) /\ BigNumDefault.used = 0
  <2>1. Proper(BigNumDefault) /\ Value(BigNumDefault) = 0
    BY DefaultExact
  <2>2. QED
    BY <2>1, ProperValue DEF Proper
<1>2. Safe(g) /\ g.size >= m /\ g.used = 0
  BY <1>1, GrowWords
<1> HIDE DEF g
<1>3. /\ g.neg \in BOOLEAN /\ g.size \in Nat /\ g.size > 0
      /\ g.dig \in [0 .. g.size - 1 -> Digit]
      /\ \A k \in 0 .. g.size - 1 : g.dig[k] = 0
  BY <1>2, Fields DEF Safe, ClearAboveUsed
<1>4. z = [neg |-> g.neg, used |-> m, size |-> g.size, dig |-> g.dig]
  <2>1. g \in Exactly(g.neg, g.used, g.size, g.dig)
    BY <1>2, Shape DEF Safe
  <2>2. QED
    BY <2>1 DEF Exactly
<1> HIDE DEF z
<1>5. z.neg = g.neg /\ z.used = m /\ z.size = g.size /\ z.dig = g.dig
  BY <1>4
<1>6. IsNumber(z)
  BY <1>3, <1>4 DEF IsNumber
<1>7. Safe(z)
  BY <1>2, <1>3, <1>5, <1>6 DEF Safe, UsedInVector, ClearAboveUsed
<1>8. Magnitude(z) = 0
  <2>1. \A j \in 0 .. m - 1 : Words(z)[j] = 0
    BY <1>2, <1>3, <1>5 DEF Words
  <2>2. Words(z) \in [Nat -> Int]
    BY <1>6, WordsAreDigits
  <2>3. Sums(Words(z))[m] = 0
    BY <2>1, <2>2, SumsOfZeros
  <2>4. QED
    BY <1>5, <1>7, <2>3, MagnitudeIsSum
<1>9. QED
  BY <1>3, <1>5, <1>7, <1>8 DEF z, g

(* Normalisation and allocation. *)
LEMMA SetupKeeps ==
  ASSUME IInv, Setup
  PROVE  IInv'
<1>1. PICK s : s = NormShift(rhs)
  OBVIOUS
<1>2. PICK z : z = Normalise(rhs, s)
  OBVIOUS
<1>3. /\ pc = "call" /\ pc' = "leading" /\ op' = op /\ this' = this /\ rhs' = rhs
      /\ q' = [Grow(q, this.used + 2) EXCEPT !.used = this.used + 2] /\ r' = r
      /\ x' = Normalise(this, s) /\ y' = LeftDigitShift(z, n' - t')
      /\ normShift' = s /\ n' = x'.used - 1 /\ t' = z.used - 1 /\ i' = i
      /\ zeroDigit' = zeroDigit
      /\ ~IsZero(rhs) /\ CompareMagnitude(this, rhs) # "LessThan"
  BY <1>1, <1>2 DEF Setup, Goto
<1>4. Proper(this) /\ Proper(rhs) /\ Proper(r)
  BY <1>3, Named
<1>5. PICK m \in Nat, k \in Nat : m = Magnitude(rhs) /\ k = Magnitude(this)
  BY <1>4, ProperValue
<1>6. m <= k /\ rhs.used > 0 /\ this.used > 0 /\ this.used \in Nat /\ m > 0
  <2>1. m <= k
    BY <1>3, <1>4, <1>5, LessMagnitude
  <2>2. rhs.used \in Nat /\ rhs.used # 0 /\ this.used \in Nat
    BY <1>3, <1>4, Fields DEF IsZero, Proper, Safe
  <2>3. m # 0
    BY <1>4, <1>5, <2>2, ProperValue
  <2>4. this.used # 0
    BY <1>4, <1>5, <2>1, <2>3, ProperValue
  <2>5. QED
    BY <2>1, <2>2, <2>3, <2>4
<1>7. s \in 0 .. DigitBits - 1
  BY <1>1, <1>4, NormShiftRange
<1>8. PICK P \in Nat \ {0} : P = Pow2[s]
  BY <1>7, DigitBitsAssumption, Pow2Unfold
<1>9. /\ Proper(x') /\ x'.used \in this.used .. this.used + 1 /\ x'.used > 0
      /\ Value(x') = k * P /\ Magnitude(x') = k * P
  BY <1>3, <1>4, <1>5, <1>6, <1>7, <1>8, NormaliseExact
<1>10. Proper(z) /\ z.used > 0 /\ Value(z) = m * P /\ Magnitude(z) = m * P /\ z.used \in Nat
  BY <1>2, <1>4, <1>5, <1>6, <1>7, <1>8, NormaliseExact, Fields DEF Proper, Safe
<1>11. PICK X \in Nat, V \in Nat : X = k * P /\ V = m * P
  OBVIOUS
<1>12. V <= X /\ V > 0
  BY <1>6, <1>11
<1>13. z.used <= x'.used
  BY <1>9, <1>10, <1>11, <1>12, NotSmallerNotShorter
<1>14. /\ n' \in Nat /\ t' \in Nat /\ t' <= n' /\ n' <= this.used
       /\ x'.used = n' + 1 /\ z.used = t' + 1
  BY <1>3, <1>6, <1>9, <1>10, <1>13
<1>15. Weight(t') <= V /\ V < Weight(t' + 1) /\ X < Weight(n' + 1)
  <2>1. Magnitude(z) >= Weight(z.used - 1)
    BY <1>10, MagnitudeAtLeast DEF Proper
  <2>2. Magnitude(z) \in 0 .. Weight(z.used) - 1
    BY <1>10, MagnitudeIsSum DEF Proper
  <2>3. Magnitude(x') \in 0 .. Weight(x'.used) - 1
    BY <1>9, MagnitudeIsSum DEF Proper
  <2>4. PICK W1 \in Nat, W2 \in Nat, W3 \in Nat :
          W1 = Weight(t') /\ W2 = Weight(t' + 1) /\ W3 = Weight(n' + 1)
    BY <1>14, Weights
  <2>5. V >= W1 /\ V \in 0 .. W2 - 1 /\ X \in 0 .. W3 - 1
    BY <1>3, <1>9, <1>10, <1>11, <1>14, <2>1, <2>2, <2>3, <2>4
  <2>6. QED
    BY <2>4, <2>5
<1>16. n' < x'.size
  BY <1>9, <1>14, Fields DEF Proper, Safe, UsedInVector
<1>17. /\ Proper(y') /\ n' < y'.size /\ Value(y') = V * Weight(n' - t')
  <2>1. PICK e \in Nat : e = n' - t'
    <3>1. PICK a \in Nat, b \in Nat : a = n' /\ b = t' /\ b <= a
      BY <1>14
    <3>2. b <= a
      BY <3>1
    <3>3. \A u \in Nat, w \in Nat : u <= w => w - u \in Nat
      OBVIOUS
    <3>4. a - b \in Nat
      BY <3>2, <3>3
    <3>5. QED
      BY <3>1, <3>4
  <2>2. /\ Safe(y') /\ y'.neg = z.neg /\ Magnitude(y') = Weight(e) * V
        /\ LeadingNonzero(y') /\ y'.used = z.used + e
    BY <1>3, <1>10, <1>11, <2>1, LeftDigitShiftExact, LeftDigitShiftSafe DEF Proper
  <2>3. n' < y'.size
    <3>1. y'.used \in Nat /\ y'.size \in Nat /\ y'.used <= y'.size
      BY <2>2, Fields DEF Safe, UsedInVector
    <3>2. y'.used = (t' + 1) + e
      BY <1>14, <2>2
    <3>3. PICK a \in Nat, b \in Nat : a = n' /\ b = t'
      BY <1>14
    <3>4. e = a - b /\ y'.used = (b + 1) + e
      BY <2>1, <3>2, <3>3
    <3>5. y'.used = a + 1
      BY <3>4
    <3>6. QED
      BY <3>1, <3>3, <3>5
  <2>4. PICK W \in Nat \ {0} : W = Weight(e)
    BY <2>1, Weights
  <2>5. Proper(y') /\ Value(y') = Value(z) * W
    <3>1. Magnitude(y') = W * Magnitude(z)
      BY <1>10, <1>11, <2>2, <2>4
    <3>2. QED
      BY <1>10, <2>2, <2>4, <3>1, ScaledValue
  <2>6. QED
    BY <1>10, <1>11, <2>1, <2>3, <2>4, <2>5
<1>18. /\ Safe(q') /\ q'.used = this.used + 2 /\ Magnitude(q') = 0
       /\ \A j \in 0 .. q'.size - 1 : q'.dig[j] = 0
  <2>1. this.used + 2 \in Nat /\ q = BigNumDefault
    BY <1>3, <1>6 DEF IInv, Begun
  <2>2. QED
    BY <1>3, <2>1, EmptyQuotient
<1>19. Scaled(rhs)' = V /\ Scaled(this)' = X
  BY <1>3, <1>5, <1>8, <1>11 DEF Scaled
<1>20. Objects' /\ Kinds' /\ Begun'
  <2>1. Objects'
    BY <1>3, <1>4, <1>9, <1>17, <1>18 DEF Objects, Proper
  <2>2. Kinds'
    <3>1. op \in Operators /\ zeroDigit \in BOOLEAN /\ i \in Nat
      BY DEF IInv, Kinds
    <3>2. /\ op' \in Operators /\ zeroDigit' \in BOOLEAN /\ i' \in Nat
          /\ normShift' \in 0 .. DigitBits - 1 /\ n' \in Nat /\ t' \in Nat
      BY <1>3, <1>7, <1>14, <3>1, Zenon
    <3>3. QED
      BY <1>3, <3>2, Zenon DEF Kinds
  <2>3. Begun'
    BY <1>3 DEF Begun
  <2>4. QED
    BY <2>1, <2>2, <2>3
<1>21. Normalised'
  BY <1>3, <1>5, <1>6, <1>9, <1>11, <1>14, <1>15, <1>16, <1>17, <1>18, <1>19 DEF Normalised
<1>22. Identity'
  <2>1. Computed' = 0
    BY <1>3, <1>18 DEF Computed, Estimating
  <2>2. 0 * V + X = X
    OBVIOUS
  <2>3. QED
    BY <1>9, <1>11, <1>19, <2>1, <2>2 DEF Identity
<1>23. Position' /\ Unset' /\ Below' /\ Estimates' /\ Results'
  BY <1>3, <1>18 DEF Position, Unset, Below, Estimates, Results, Digits, Estimating
<1>24. QED
  BY <1>20, <1>21, <1>22, <1>23 DEF IInv

(* Weights between two digits. *)
LEMMA WeightBetween ==
  ASSUME NEW a \in Nat, NEW b \in Nat, b <= a
  PROVE  a - b \in Nat /\ Weight(a) = Weight(b) * Weight(a - b) /\ Weight(a - b) \in Nat \ {0}
<1>1. PICK c \in Nat : a = b + c /\ a - b = c
  <2>1. \A u \in Nat, w \in Nat : u <= w => w - u \in Nat
    OBVIOUS
  <2>2. a - b \in Nat
    BY <2>1
  <2>3. a = b + (a - b)
    OBVIOUS
  <2>4. QED
    BY <2>2, <2>3
<1>2. Weight(b + c) = Weight(b) * Weight(c) /\ Weight(c) \in Nat \ {0}
  BY WeightSum, Weights
<1>3. QED
  BY <1>1, <1>2, Zenon

(* One subtraction for the leading quotient digit.  The digit does not overflow, *)
(* since the divisor has its leading digit where the dividend may have it.       *)
LEMMA SubtractLeadingKeeps ==
  ASSUME IInv, SubtractLeading
  PROVE  IInv'
<1>1. /\ pc = "leading" /\ pc' = "leading" /\ op' = op /\ this' = this /\ rhs' = rhs
      /\ q' = [q EXCEPT !.dig[n - t] = (q.dig[n - t] + 1) % WordRadix] /\ r' = r
      /\ x' = SubEq(x, y) /\ y' = y
      /\ normShift' = normShift /\ n' = n /\ t' = t /\ i' = i
      /\ zeroDigit' = zeroDigit
      /\ Compare(x, y) # "LessThan"
  BY DEF SubtractLeading, Goto
<1>2. /\ Proper(rhs) /\ Proper(r) /\ Proper(x) /\ Proper(y) /\ Safe(q) /\ Proper(this)
      /\ n \in Nat /\ t \in Nat
  BY <1>1, Named
<1>3. /\ Magnitude(rhs) <= Magnitude(this)
      /\ Weight(t) <= Scaled(rhs) /\ Scaled(rhs) < Weight(t + 1)
      /\ Scaled(this) < Weight(n + 1)
      /\ t <= n /\ n <= this.used /\ n < x.size /\ n < y.size
      /\ q.used = this.used + 2
      /\ Value(y) = Scaled(rhs) * Weight(n - t) /\ Value(x) >= 0
  BY <1>1 DEF IInv, Normalised, Dividing
<1>4. PICK k \in Nat : k = n - t /\ k <= n
  <2>1. n - t \in Nat
    BY <1>2, <1>3, WeightBetween
  <2>2. n - t <= n
    BY <1>2
  <2>3. QED
    BY <2>1, <2>2
<1>5. k < q.used /\ q.used \in Nat /\ q.used <= q.size /\ q.size \in Nat
  <2>1. q.used \in Nat /\ q.used <= q.size /\ q.size \in Nat
    BY <1>2, Fields DEF Safe, UsedInVector
  <2>2. this.used \in Nat
    BY <1>2, Fields DEF Proper, Safe
  <2>3. k < q.used
    BY <1>2, <1>3, <1>4, <2>1, <2>2
  <2>4. QED
    BY <2>1, <2>3
<1>6. k \in 0 .. q.size - 1 /\ q.dig[k] \in Digit
  BY <1>2, <1>5, Fields DEF Safe
<1>7. PICK V \in Nat, U \in Nat, W \in Nat \ {0}, T \in Nat \ {0}, R \in Nat \ {0}, d \in Nat :
        /\ V = Scaled(rhs) /\ U = Scaled(this) /\ W = Weight(k) /\ T = Weight(t)
        /\ R = DigitRadix /\ d = q.dig[k]
  <2>1. PICK d \in Nat : d = q.dig[k]
    BY <1>6, RadixPositive DEF Digit
  <2>2. PICK V \in Nat, U \in Nat : V = Scaled(rhs) /\ U = Scaled(this)
    BY Named
  <2>3. PICK W \in Nat \ {0}, T \in Nat \ {0}, R \in Nat \ {0} :
          W = Weight(k) /\ T = Weight(t) /\ R = DigitRadix
    BY <1>2, <1>4, Weights, RadixPositive
  <2>4. QED
    BY <2>1, <2>2, <2>3
<1>8. PICK X \in Int, Y \in Nat : X = Value(x) /\ Y = Value(y) /\ Y = V * W /\ X >= 0
  <2>1. V * W \in Nat
    OBVIOUS
  <2>2. QED
    BY <1>2, <1>3, <1>4, <1>7, <2>1, Named
<1>9. Magnitude(q) = d * W
  <2>1. \A j \in 0 .. q.size - 1 : j # k => q.dig[j] = 0
    BY <1>1, <1>4 DEF IInv, Unset
  <2>2. QED
    BY <1>2, <1>5, <1>7, <2>1, OnlyDigit
<1>10. (d * W) * V + X = U
  <2>1. Computed * V + X = U
    BY <1>1, <1>7, <1>8 DEF IInv, Identity, Dividing
  <2>2. PICK m \in Nat : m = Magnitude(q)
    BY <1>2, MagnitudeIsSum
  <2>3. Computed = m - 0
    BY <1>1, <2>2 DEF Computed, Estimating
  <2>4. QED
    BY <1>9, <2>1, <2>2, <2>3
<1>11. Y <= X /\ Proper(x') /\ Value(x') = X - Y /\ x'.size >= x.size
  <2>1. X = Value(x) /\ Y = Value(y)
    BY <1>8
  <2>2. ASSUME X < Y PROVE FALSE
    <3>1. Compare(x, y) = "LessThan"
      BY <1>2, <2>1, <2>2, CompareIsOrder
    <3>2. QED
      BY <1>1, <3>1
  <2>3. Proper(x') /\ Value(x') = X - Y
    BY <1>1, <1>2, <2>1, SubtractExact
  <2>4. x'.size >= x.size
    BY <1>1, <1>2, SubEqSafe DEF Proper
  <2>5. QED
    BY <2>2, <2>3, <2>4
<1>12. d + 1 < R
  <2>1. U < (W * T) * R
    <3>1. Weight(n + 1) = Weight(n) * R /\ Weight(n) = T * W
      BY <1>2, <1>3, <1>4, <1>7, Weights, WeightBetween
    <3>2. (T * W) * R = (W * T) * R
      OBVIOUS
    <3>3. QED
      BY <1>3, <1>7, <3>1, <3>2
  <2>2. W * T <= Y
    <3>1. T <= V
      BY <1>3, <1>7
    <3>2. W * T <= V * W
      BY <3>1
    <3>3. QED
      BY <1>8, <3>2
  <2>3. PICK Z \in Nat : Z = W * T
    OBVIOUS
  <2>4. Z * R <= Y * R
    BY <2>2, <2>3
  <2>5. (d + 1) * Y <= U
    <3>1. (d + 1) * Y = (d * W) * V + Y
      BY <1>8
    <3>2. QED
      BY <1>10, <1>11, <3>1
  <2>6. PICK A \in Nat, B \in Nat : A = (d + 1) * Y /\ B = Y * R
    OBVIOUS
  <2>7. A < B
    BY <2>1, <2>3, <2>4, <2>5, <2>6
  <2>8. ASSUME d + 1 >= R PROVE FALSE
    <3>1. Y * R <= Y * (d + 1)
      BY <2>8
    <3>2. Y * (d + 1) = (d + 1) * Y
      OBVIOUS
    <3>3. QED
      BY <2>6, <2>7, <3>1, <3>2
  <2>9. QED
    BY <2>8
<1>13. q' = [q EXCEPT !.dig[k] = d + 1] /\ d + 1 \in Digit
  <2>1. (d + 1) % (2 * R) = d + 1
    BY <1>12
  <2>2. QED
    BY <1>1, <1>4, <1>7, <1>12, <2>1 DEF WordRadix, Digit
<1>14. /\ Safe(q') /\ q'.used = q.used /\ q'.size = q.size
       /\ \A j \in 0 .. q.size - 1 : j # k => q'.dig[j] = q.dig[j]
       /\ Magnitude(q') = Magnitude(q) + ((d + 1) - q.dig[k]) * Weight(k)
  BY <1>2, <1>5, <1>13, SetDigit
<1>15. Magnitude(q') = d * W + W
  <2>1. ((d + 1) - d) * W = W
    OBVIOUS
  <2>2. QED
    BY <1>7, <1>9, <1>14, <2>1
<1>16. Scaled(rhs)' = V /\ Scaled(this)' = U
  BY <1>1, <1>7 DEF Scaled
<1>17. Objects' /\ Kinds' /\ Begun'
  BY <1>1, <1>2, <1>11, <1>14 DEF IInv, Objects, Kinds, Begun, Proper
<1>18. Normalised'
  <2>1. n < x'.size
    <3>1. x.size \in Nat /\ x'.size \in Nat
      BY <1>2, <1>11, Fields DEF Proper, Safe
    <3>2. QED
      BY <1>2, <1>3, <1>11, <3>1
  <2>2. Value(x') >= 0
    BY <1>8, <1>11
  <2>3. QED
    BY <1>1, <1>3, <1>7, <1>14, <1>16, <2>1, <2>2, Zenon DEF Normalised, Dividing
<1>19. Unset'
  BY <1>1, <1>4, <1>14 DEF IInv, Unset, Estimating
<1>20. Identity'
  <2>1. PICK m \in Nat : m = Magnitude(q') /\ m = d * W + W
    <3>1. d * W + W \in Nat
      OBVIOUS
    <3>2. QED
      BY <1>15, <3>1
  <2>2. Computed' = m - 0
    BY <1>1, <2>1 DEF Computed, Estimating
  <2>3. (d * W + W) * V = (d * W) * V + Y
    BY <1>8
  <2>4. m * V + (X - Y) = U
    BY <1>10, <2>1, <2>3
  <2>5. m - 0 = m
    OBVIOUS
  <2>6. QED
    BY <1>11, <1>16, <2>2, <2>4, <2>5 DEF Identity
<1>21. Position' /\ Below' /\ Estimates' /\ Results'
  BY <1>1 DEF Position, Below, Estimates, Results, Digits, Estimating
<1>22. QED
  BY <1>17, <1>18, <1>19, <1>20, <1>21 DEF IInv

(* The divisor is moved back down. *)
LEMMA LeadingFoundKeeps ==
  ASSUME IInv, LeadingFound
  PROVE  IInv'
<1>1. /\ pc = "leading" /\ pc' = "digit" /\ op' = op /\ this' = this /\ rhs' = rhs
      /\ q' = q /\ r' = r /\ x' = x /\ y' = RightDigitShift(y, n - t)
      /\ normShift' = normShift /\ n' = n /\ t' = t /\ i' = n
      /\ zeroDigit' = zeroDigit
      /\ Compare(x, y) = "LessThan"
  BY DEF LeadingFound, Goto
<1>2. /\ Proper(rhs) /\ Proper(r) /\ Proper(x) /\ Proper(y) /\ Safe(q) /\ Proper(this)
      /\ n \in Nat /\ t \in Nat
  BY <1>1, Named
<1>3. /\ Magnitude(rhs) <= Magnitude(this)
      /\ Weight(t) <= Scaled(rhs) /\ Scaled(rhs) < Weight(t + 1)
      /\ Scaled(this) < Weight(n + 1)
      /\ t <= n /\ n <= this.used /\ n < x.size /\ n < y.size
      /\ q.used = this.used + 2
      /\ Value(y) = Scaled(rhs) * Weight(n - t) /\ Value(x) >= 0
  BY <1>1 DEF IInv, Normalised, Dividing
<1>4. PICK k \in Nat : k = n - t
  BY <1>2, <1>3, WeightBetween
<1>5. PICK V \in Nat, W \in Nat \ {0}, U \in Nat :
        V = Scaled(rhs) /\ W = Weight(k) /\ U = Scaled(this)
  BY <1>4, Named, Weights
<1>6. PICK X \in Int, Y \in Nat : X = Value(x) /\ Y = Value(y) /\ Y = V * W /\ X >= 0
  <2>1. V * W \in Nat
    OBVIOUS
  <2>2. QED
    BY <1>2, <1>3, <1>4, <1>5, <2>1, Named
<1>7. X < Y
  BY <1>1, <1>2, <1>6, CompareIsOrder
<1>8. Proper(y') /\ Value(y') = V /\ y'.size = y.size
  <2>1. Magnitude(y) = Y /\ ~y.neg
    <3>1. Y = Value(y) /\ Y >= 0
      BY <1>6
    <3>2. QED
      BY <1>2, <3>1, ProperValue
  <2>2. (V * W) \div W = V
    <3>1. V * W = W * V + 0 /\ V * W \in Int
      OBVIOUS
    <3>2. QED
      BY <3>1, DivModUnique
  <2>3. Proper(y') /\ Magnitude(y') = V /\ Value(y') = Signed(y, Magnitude(y'))
    BY <1>1, <1>2, <1>4, <1>5, <1>6, <2>1, <2>2, RightDigitShiftExact
  <2>4. y'.size = y.size
    BY <1>1, <1>2, <1>4, RightDigitShiftSafe DEF Proper
  <2>5. QED
    BY <2>1, <2>3, <2>4 DEF Signed
<1>9. Scaled(rhs)' = V /\ Scaled(this)' = U
  BY <1>1, <1>5 DEF Scaled
<1>10. Objects' /\ Kinds' /\ Begun'
  BY <1>1, <1>2, <1>8 DEF IInv, Objects, Kinds, Begun, Proper
<1>11. Normalised'
  BY <1>1, <1>3, <1>5, <1>8, <1>9, Zenon DEF Normalised, Dividing
<1>12. Position'
  BY <1>1, <1>2, <1>3, <1>8, <1>9 DEF Position, Estimating
<1>13. Unset'
  <2>1. \A j \in 0 .. q.size - 1 : j < n - t => q.dig[j] = 0
    <3>1. \A j \in 0 .. q.size - 1 : j # k => q.dig[j] = 0
      BY <1>1, <1>4 DEF IInv, Unset
    <3>2. QED
      BY <1>4, <3>1
  <2>2. QED
    BY <1>1, <2>1 DEF Unset, Estimating
<1>14. Identity'
  <2>1. Computed * V + X = U
    BY <1>1, <1>5, <1>6 DEF IInv, Identity, Dividing
  <2>2. Computed' = Computed
    BY <1>1 DEF Computed, Estimating
  <2>3. QED
    BY <1>1, <1>6, <1>9, <2>1, <2>2 DEF Identity
<1>15. Below'
  BY <1>1, <1>4, <1>5, <1>6, <1>7, <1>9 DEF Below
<1>16. Estimates' /\ Results'
  BY <1>1 DEF Estimates, Results, Estimating
<1>17. QED
  BY <1>10, <1>11, <1>12, <1>13, <1>14, <1>15, <1>16 DEF IInv

(* What holds in the digit loop. *)
LEMMA InDigitLoop ==
  ASSUME IInv, Digits
  PROVE  /\ Proper(rhs) /\ Proper(r) /\ Proper(x) /\ Proper(y) /\ Safe(q) /\ Proper(this)
         /\ n \in Nat /\ t \in Nat /\ i \in Nat /\ t <= i /\ i <= n /\ i - t \in Nat
         /\ n < x.size /\ n < y.size /\ i - t < q.used /\ q.used <= q.size
         /\ q.used \in Nat /\ q.size \in Nat
         /\ Weight(t) <= Scaled(rhs) /\ Scaled(rhs) < Weight(t + 1)
         /\ Value(y) = Scaled(rhs) /\ Magnitude(y) = Scaled(rhs) /\ ~y.neg
         /\ y.used = t + 1 /\ y.dig[t] \in Digit /\ y.dig[t] # 0
         /\ i > t => y.dig[i] = 0
         /\ Scaled(rhs) \in Nat \ {0} /\ Scaled(this) \in Nat
         /\ Computed * Scaled(rhs) + Value(x) = Scaled(this)
<1>1. pc \notin {"call", "threw", "done"} /\ Dividing
  BY DEF Digits, Dividing
<1>2. /\ Proper(rhs) /\ Proper(r) /\ Proper(x) /\ Proper(y) /\ Safe(q) /\ Proper(this)
      /\ n \in Nat /\ t \in Nat /\ i \in Nat
      /\ Scaled(rhs) \in Nat \ {0} /\ Scaled(this) \in Nat
  BY <1>1, Named
<1>3. /\ Weight(t) <= Scaled(rhs) /\ Scaled(rhs) < Weight(t + 1)
      /\ t <= n /\ n <= this.used /\ n < x.size /\ n < y.size
      /\ q.used = this.used + 2
  BY <1>1 DEF IInv, Normalised
<1>4. i \in t .. n /\ Value(y) = Scaled(rhs)
  BY DEF IInv, Position
<1>5. t <= i /\ i <= n /\ i - t \in Nat
  BY <1>2, <1>4, WeightBetween
<1>6. i - t < q.used /\ q.used <= q.size /\ q.used \in Nat /\ q.size \in Nat
  <2>1. q.used <= q.size /\ q.used \in Nat /\ q.size \in Nat /\ this.used \in Nat
    BY <1>2, Fields DEF Safe, UsedInVector, Proper
  <2>2. i - t <= i
    BY <1>2
  <2>3. QED
    BY <1>2, <1>3, <1>5, <2>1, <2>2
<1>7. Magnitude(y) = Scaled(rhs) /\ ~y.neg
  BY <1>2, <1>4, ProperValue
<1>8. y.used = t + 1
  <2>1. t + 1 \in Nat
    BY <1>2
  <2>2. y.used <= t + 1
    BY <1>2, <1>3, <1>7, <2>1, UsedOf
  <2>3. t < y.used
    BY <1>2, <1>3, <1>7, UsedOf
  <2>4. y.used \in Nat
    BY <1>2, Fields DEF Proper, Safe
  <2>5. QED
    BY <1>2, <2>2, <2>3, <2>4
<1>9. y.dig[t] \in Digit /\ y.dig[t] # 0
  <2>1. t \in 0 .. y.size - 1
    BY <1>2, <1>3, Fields DEF Proper, Safe
  <2>2. y.dig[t] \in Digit
    BY <1>2, <2>1, Fields DEF Proper, Safe
  <2>3. y.used > 0 /\ y.used - 1 = t
    BY <1>2, <1>8
  <2>4. QED
    BY <1>2, <2>2, <2>3 DEF Proper, LeadingNonzero
<1>10. ASSUME i > t PROVE y.dig[i] = 0
  <2>1. i \in y.used .. y.size - 1
    <3>1. y.size \in Nat
      BY <1>2, Fields DEF Proper, Safe
    <3>2. QED
      BY <1>2, <1>3, <1>5, <1>8, <1>10, <3>1
  <2>2. QED
    BY <1>2, <2>1 DEF Proper, Safe, ClearAboveUsed
<1>11. Computed * Scaled(rhs) + Value(x) = Scaled(this)
  BY <1>1 DEF IInv, Identity
<1>12. QED
  BY <1>2, <1>3, <1>4, <1>5, <1>6, <1>7, <1>8, <1>9, <1>10, <1>11

(* What every step of the digit loop leaves alone, and what the invariant gets *)
(* from that.                                                                  *)
LEMMA DigitStepKeeps ==
  ASSUME IInv, Digits, Digits',
         op' = op, this' = this, rhs' = rhs, r' = r, y' = y, normShift' = normShift,
         n' = n, t' = t,
         Proper(x'), x'.size >= x.size, Safe(q'), q'.used = q.used,
         i' \in t .. n, Estimating' => i' > t, zeroDigit' \in BOOLEAN
  PROVE  /\ Objects' /\ Kinds' /\ Begun' /\ Normalised' /\ Position' /\ Results'
         /\ Scaled(rhs)' = Scaled(rhs) /\ Scaled(this)' = Scaled(this)
<1>1. /\ pc \in {"digit", "correct", "subtract"}
      /\ pc' \in {"digit", "correct", "subtract"}
  BY DEF Digits
<1>2. Scaled(rhs)' = Scaled(rhs) /\ Scaled(this)' = Scaled(this)
  BY DEF Scaled
<1>3. Objects'
  BY <1>1, InDigitLoop DEF Objects, Proper
<1>4. Kinds'
  <2>1. /\ op \in Operators /\ normShift \in 0 .. DigitBits - 1 /\ n \in Nat /\ t \in Nat
    BY DEF IInv, Kinds
  <2>2. i' \in Nat
    BY <2>1
  <2>3. pc' \in {"call", "threw", "leading", "digit", "correct", "subtract",
                 "return", "done"}
    BY <1>1
  <2>4. QED
    BY <2>1, <2>2, <2>3, Zenon DEF Kinds
<1>5. Begun'
  <2>1. ~IsZero(rhs)
    BY <1>1 DEF IInv, Begun
  <2>2. QED
    BY <1>1, <2>1 DEF Begun
<1>6. Normalised'
  <2>1. /\ Magnitude(rhs) <= Magnitude(this)
        /\ Weight(t) <= Scaled(rhs) /\ Scaled(rhs) < Weight(t + 1)
        /\ Scaled(this) < Weight(n + 1)
        /\ t <= n /\ n <= this.used /\ n < x.size /\ n < y.size
        /\ q.used = this.used + 2
    BY <1>1 DEF IInv, Normalised, Dividing
  <2>2. n < x'.size
    <3>1. x.size \in Nat /\ x'.size \in Nat /\ n \in Nat
      BY InDigitLoop, Fields DEF Proper, Safe
    <3>2. QED
      BY <2>1, <3>1
  <2>3. pc' # "leading"
    BY <1>1
  <2>4. QED
    BY <1>2, <2>1, <2>2, <2>3, Zenon DEF Normalised
<1>7. Position'
  BY <1>2, InDigitLoop DEF Position
<1>8. Results'
  BY <1>1 DEF Results
<1>9. QED
  BY <1>2, <1>3, <1>4, <1>5, <1>6, <1>7, <1>8

(* A digit of the dividend that is above the running remainder. *)
LEMMA SkipDigitKeeps ==
  ASSUME IInv, SkipDigit
  PROVE  IInv'
<1>1. /\ pc = "digit" /\ pc' = "digit" /\ op' = op /\ this' = this /\ rhs' = rhs
      /\ q' = q /\ r' = r /\ x' = x /\ y' = y
      /\ normShift' = normShift /\ n' = n /\ t' = t /\ i' = i - 1
      /\ zeroDigit' = zeroDigit
      /\ i > t /\ i > x.used
  BY DEF SkipDigit, Goto
<1>2. Digits /\ Digits' /\ ~Estimating /\ ~Estimating'
  BY <1>1 DEF Digits, Estimating
<1>3. /\ Proper(x) /\ Safe(q) /\ n \in Nat /\ t \in Nat /\ i \in Nat /\ t <= i /\ i <= n
      /\ Weight(t) <= Scaled(rhs) /\ Scaled(rhs) \in Nat /\ x.size \in Nat
  BY <1>2, InDigitLoop, Fields DEF Proper, Safe
<1>4. i' \in t .. n /\ zeroDigit' \in BOOLEAN /\ x'.size >= x.size
  BY <1>1, <1>3 DEF IInv, Kinds
<1>5. /\ Objects' /\ Kinds' /\ Begun' /\ Normalised' /\ Position' /\ Results'
      /\ Scaled(rhs)' = Scaled(rhs) /\ Scaled(this)' = Scaled(this)
  BY <1>1, <1>2, <1>3, <1>4, DigitStepKeeps
<1>6. Unset'
  <2>1. \A j \in 0 .. q.size - 1 : j < i - t => q.dig[j] = 0
    BY <1>1 DEF IInv, Unset
  <2>2. \A j \in 0 .. q.size - 1 : j < (i - 1) - t => j < i - t
    BY <1>3
  <2>3. QED
    BY <1>1, <2>1, <2>2 DEF Unset, Estimating
<1>7. Identity'
  <2>1. Computed * Scaled(rhs) + Value(x) = Scaled(this)
    BY <1>2, InDigitLoop
  <2>2. Computed' = Computed
    BY <1>1, <1>2 DEF Computed
  <2>3. QED
    BY <1>1, <1>5, <2>1, <2>2 DEF Identity
<1>8. Below'
  <2>1. SUFFICES ASSUME ~zeroDigit
                 PROVE  Value(x) >= 0 /\ Value(x) < Scaled(rhs) * Weight((i - 1) - t)
    BY <1>1, <1>5 DEF Below
  <2>2. Value(x) >= 0 /\ Value(x) = Magnitude(x)
    BY <1>2, <1>3, <2>1, ProperValue DEF IInv, Below
  <2>3. x.used \in Nat /\ i - 1 \in Nat /\ x.used <= i - 1 /\ t <= i - 1
    BY <1>1, <1>3, Fields DEF Proper, Safe
  <2>4. PICK A \in Nat, B \in Nat, T \in Nat, W \in Nat, V \in Nat, X \in Nat :
          /\ A = Weight(x.used) /\ B = Weight(i - 1) /\ T = Weight(t)
          /\ W = Weight((i - 1) - t) /\ V = Scaled(rhs) /\ X = Magnitude(x)
    BY <1>3, <2>3, Weights, WeightBetween, MagnitudeIsSum DEF Proper
  <2>5. X < A /\ A <= B /\ B = T * W /\ T <= V
    <3>1. X < A
      <4>1. Magnitude(x) \in 0 .. Weight(x.used) - 1
        BY <1>3, MagnitudeIsSum DEF Proper
      <4>2. QED
        BY <2>4, <4>1
    <3>2. A <= B
      BY <2>3, <2>4, WeightsGrow
    <3>3. B = T * W
      BY <1>3, <2>3, <2>4, WeightBetween
    <3>4. QED
      BY <1>3, <2>4, <3>1, <3>2, <3>3
  <2>6. T * W <= V * W
    BY <2>5
  <2>7. X < V * W
    <3>1. PICK Z \in Nat : Z = V * W
      OBVIOUS
    <3>2. QED
      BY <2>5, <2>6, <3>1
  <2>8. QED
    BY <2>2, <2>4, <2>7
<1>9. Estimates'
  BY <1>2 DEF Estimates
<1>10. QED
  BY <1>5, <1>6, <1>7, <1>8, <1>9 DEF IInv

(* Setting the quotient digit that is being computed. *)
LEMMA QhatSet ==
  ASSUME IInv, Digits, i > t, NEW d \in Int
  PROVE  /\ i - t - 1 \in Nat /\ i - t - 1 \in 0 .. q.size - 1
         /\ Qhat \in Digit /\ d % DigitRadix \in Digit
         /\ Safe(WithQhat(d)) /\ WithQhat(d).used = q.used /\ WithQhat(d).size = q.size
         /\ WithQhat(d).dig[i - t - 1] = d % DigitRadix
         /\ \A j \in 0 .. q.size - 1 : j # i - t - 1 => WithQhat(d).dig[j] = q.dig[j]
         /\ Magnitude(WithQhat(d))
              = Magnitude(q) + ((d % DigitRadix) - Qhat) * Weight(i - t - 1)
<1>1. /\ Safe(q) /\ i \in Nat /\ t \in Nat /\ i - t \in Nat /\ i - t < q.used
      /\ q.used <= q.size /\ q.used \in Nat /\ q.size \in Nat
  BY InDigitLoop
<1>2. PICK k \in Nat : k = i - t - 1 /\ k < q.used
  <2>1. i - t - 1 \in Nat /\ i - t - 1 < q.used
    BY <1>1
  <2>2. QED
    BY <2>1
<1>3. k \in 0 .. q.size - 1
  BY <1>1, <1>2
<1>4. q.dig[k] \in Digit /\ Qhat = q.dig[k]
  BY <1>1, <1>2, <1>3, Fields DEF Safe, Qhat
<1>5. PICK e \in Digit : e = d % DigitRadix
  BY ModDigit
<1>6. WithQhat(d) = [q EXCEPT !.dig[k] = e]
  BY <1>2, <1>5 DEF WithQhat
<1>7. LET w == [q EXCEPT !.dig[k] = e]
      IN  /\ Safe(w) /\ w.used = q.used /\ w.size = q.size /\ w.neg = q.neg
          /\ w.dig[k] = e
          /\ \A j \in 0 .. q.size - 1 : j # k => w.dig[j] = q.dig[j]
          /\ Magnitude(w) = Magnitude(q) + (e - q.dig[k]) * Weight(k)
  BY <1>1, <1>2, SetDigit
<1>8. QED
  BY <1>2, <1>3, <1>4, <1>5, <1>6, <1>7

(* One unit of that digit. *)
LEMMA UnitSplit ==
  ASSUME IInv, Digits, i > t
  PROVE  /\ i - 1 \in Nat /\ i - t - 1 \in Nat /\ t <= i - 1 /\ Unit \in Nat \ {0}
         /\ Scaled(rhs) * Weight(i - t) = Unit * DigitRadix
         /\ Weight(i - 1) = Weight(t) * Weight(i - t - 1)
         /\ Weight(i - t) \in Nat \ {0} /\ Weight(i - t - 1) \in Nat \ {0}
         /\ Weight(i + 1) = Weight(t + 1) * Weight(i - t)
<1>1. i \in Nat /\ t \in Nat /\ Scaled(rhs) \in Nat \ {0}
  BY InDigitLoop
<1>2. PICK k \in Nat : k = i - t - 1
  BY <1>1
<1>3. i - 1 \in Nat /\ t <= i - 1 /\ (i - 1) - t = k /\ i - t = k + 1
      /\ i + 1 = (t + 1) + (k + 1)
  BY <1>1, <1>2
<1>4. PICK V \in Nat \ {0}, W \in Nat \ {0}, R \in Nat \ {0} :
        V = Scaled(rhs) /\ W = Weight(k) /\ R = DigitRadix
  BY <1>1, Weights, RadixPositive
<1>5. Weight(k + 1) = W * R /\ Weight(k + 1) \in Nat \ {0}
  BY <1>4, Weights
<1>6. V * (W * R) = (V * W) * R /\ V * W \in Nat \ {0}
  <2>1. V * W > 0
    OBVIOUS
  <2>2. QED
    BY <2>1
<1>7. Weight(i - 1) = Weight(t) * W
  BY <1>1, <1>3, <1>4, WeightBetween
<1>8. Weight(i + 1) = Weight(t + 1) * Weight(k + 1)
  <2>1. t + 1 \in Nat /\ k + 1 \in Nat
    BY <1>1
  <2>2. QED
    BY <1>3, <2>1, WeightSum
<1>9. QED
  BY <1>2, <1>3, <1>4, <1>5, <1>6, <1>7, <1>8 DEF Unit

(* The running remainder, when its digit iDigit is not zero. *)
LEMMA RunningRemainder ==
  ASSUME IInv, Digits, i > t, ~zeroDigit
  PROVE  /\ Value(x) = Magnitude(x) /\ Magnitude(x) \in Nat /\ x.used <= i + 1
         /\ IsQuotient(Magnitude(x) \div Unit, Magnitude(x), Unit)
         /\ Magnitude(x) \div Unit \in 0 .. DigitRadix - 1
<1>1. /\ Proper(x) /\ i \in Nat /\ t \in Nat /\ Scaled(rhs) \in Nat \ {0}
      /\ Scaled(rhs) < Weight(t + 1)
  BY InDigitLoop
<1>2. Value(x) >= 0 /\ Value(x) < Scaled(rhs) * Weight(i - t)
  BY DEF IInv, Below
<1>3. Value(x) = Magnitude(x) /\ Magnitude(x) \in Nat
  BY <1>1, <1>2, ProperValue
<1>4. PICK U \in Nat \ {0}, R \in Nat \ {0} :
        U = Unit /\ R = DigitRadix /\ Scaled(rhs) * Weight(i - t) = U * R
  BY UnitSplit, RadixPositive
<1>5. PICK V \in Nat, W \in Nat \ {0}, T \in Nat \ {0} :
        /\ V = Scaled(rhs) /\ W = Weight(i - t) /\ T = Weight(t + 1)
        /\ Weight(i + 1) = T * W
  <2>1. t + 1 \in Nat
    BY <1>1
  <2>2. Weight(t + 1) \in Nat \ {0}
    BY <2>1, Weights
  <2>3. Weight(i - t) \in Nat \ {0} /\ Weight(i + 1) = Weight(t + 1) * Weight(i - t)
    BY UnitSplit
  <2>4. QED
    BY <1>1, <2>2, <2>3
<1>6. PICK X \in Nat : X = Magnitude(x)
  BY <1>3
<1>7. X < U * R
  BY <1>2, <1>3, <1>4, <1>6
<1>8. x.used <= i + 1
  <2>1. V * W <= T * W
    BY <1>1, <1>5
  <2>2. PICK A \in Nat, B \in Nat : A = V * W /\ B = T * W
    OBVIOUS
  <2>3. X < A
    BY <1>2, <1>3, <1>5, <1>6, <2>2
  <2>4. X < B
    BY <2>1, <2>2, <2>3
  <2>5. i + 1 \in Nat
    BY <1>1
  <2>6. QED
    BY <1>1, <1>5, <1>6, <2>2, <2>4, <2>5, UsedOf
<1>9. PICK e \in Nat : e = X \div U /\ IsQuotient(e, X, U)
  BY QuotientIsDiv
<1>10. e < R
  <2>1. e * U <= X
    BY <1>9 DEF IsQuotient
  <2>2. ASSUME e >= R PROVE FALSE
    <3>1. R * U <= e * U
      BY <2>2
    <3>2. PICK A \in Nat, B \in Nat : A = R * U /\ B = e * U /\ A = U * R
      OBVIOUS
    <3>3. QED
      BY <1>7, <2>1, <3>1, <3>2
  <2>3. QED
    BY <2>2
<1>11. QED
  BY <1>3, <1>4, <1>6, <1>8, <1>9, <1>10

(* The first estimate is a digit and not zero, from a zero digit too. *)
LEMMA FirstEstimateRange ==
  ASSUME IInv, Digits, i > t
  PROVE  /\ FirstEstimate \in 1 .. DigitRadix - 1
         /\ x.dig[i] \in Digit /\ x.dig[i - 1] \in Digit /\ y.dig[i] = 0
         /\ x.dig[i] # 0 =>
              FirstEstimate =
                LET word == (x.dig[i] * DigitRadix + x.dig[i - 1]) \div y.dig[t]
                IN  IF word > DigitRadix - 1 THEN DigitRadix - 1 ELSE word
<1>1. /\ Proper(x) /\ i \in Nat /\ t \in Nat /\ n \in Nat /\ i <= n /\ n < x.size
      /\ y.dig[t] \in Digit /\ y.dig[t] # 0 /\ y.dig[i] = 0
  BY InDigitLoop
<1>2. x.dig[i] \in Digit /\ x.dig[i - 1] \in Digit
  <2>1. x.size \in Nat
    BY <1>1, Fields DEF Proper, Safe
  <2>2. i \in 0 .. x.size - 1 /\ i - 1 \in 0 .. x.size - 1
    BY <1>1, <2>1
  <2>3. QED
    BY <1>1, <2>2, Fields DEF Proper, Safe
<1>3. PICK R \in Nat : R = DigitRadix /\ R >= 2
  BY RadixAtLeastTwo
<1>4. PICK a \in 0 .. R - 1, b \in 0 .. R - 1, z \in 1 .. R - 1 :
        a = x.dig[i] /\ b = x.dig[i - 1] /\ z = y.dig[t]
  BY <1>1, <1>2, <1>3 DEF Digit
<1>5. PICK u \in Nat : u = a * R + b
  <2>1. a * R + b \in Nat
    BY <1>3
  <2>2. QED
    BY <2>1
<1>6. PICK w \in Nat : w = u \div z /\ (a # 0 => w >= 1)
  <2>1. z \in Nat \ {0}
    OBVIOUS
  <2>2. u \div z \in Nat
    BY <2>1, QuotientIsDiv
  <2>3. PICK k \in Nat : k = 1
    OBVIOUS
  <2>4. ASSUME a # 0 PROVE k <= u \div z
    <3>1. a >= 1
      BY <2>4
    <3>2. a * R >= 1 * R
      BY <1>3, <3>1
    <3>3. k * z <= u
      <4>1. PICK p \in Nat : p = a * R
        BY <1>3
      <4>2. k * z = z
        BY <2>3
      <4>3. QED
        BY <1>3, <1>5, <3>2, <4>1, <4>2
    <3>4. QED
      BY <2>1, <3>3, QuotientIsDiv
  <2>5. QED
    BY <2>2, <2>3, <2>4
<1>7. FirstEstimate = IF a = 0 \/ w > R - 1 THEN R - 1 ELSE w
  BY <1>1, <1>3, <1>4, <1>5, <1>6 DEF FirstEstimate
<1>8. FirstEstimate \in 1 .. R - 1
  BY <1>3, <1>6, <1>7
<1>9. QED
  BY <1>1, <1>2, <1>3, <1>4, <1>5, <1>6, <1>7, <1>8

(* It is not too small, unless it was made from a zero digit. *)
LEMMA FirstEstimateNotSmall ==
  ASSUME IInv, Digits, i > t, ~zeroDigit, x.dig[i] # 0
  PROVE  Magnitude(x) \div Unit <= FirstEstimate
<1>1. /\ Safe(x) /\ Safe(y) /\ i \in Nat /\ t \in Nat /\ n \in Nat /\ i <= n /\ n < x.size
      /\ n < y.size /\ t <= i
      /\ y.dig[t] \in Digit /\ y.dig[t] # 0 /\ y.used = t + 1 /\ Magnitude(y) = Scaled(rhs)
      /\ x.size \in Nat /\ y.size \in Nat
  BY InDigitLoop, Fields DEF Proper, Safe
<1>2. /\ i - 1 \in Nat /\ i - t - 1 \in Nat /\ Unit \in Nat \ {0}
      /\ Weight(i - 1) = Weight(t) * Weight(i - t - 1)
  BY UnitSplit
<1>3. PICK X \in Nat, d \in Nat :
        X = Magnitude(x) /\ d = X \div Unit /\ IsQuotient(d, X, Unit) /\ d <= DigitRadix - 1
  <2>1. Magnitude(x) \in Nat /\ IsQuotient(Magnitude(x) \div Unit, Magnitude(x), Unit)
        /\ Magnitude(x) \div Unit \in 0 .. DigitRadix - 1
    BY RunningRemainder
  <2>2. PICK d \in Nat : d = Magnitude(x) \div Unit /\ d <= DigitRadix - 1
    BY <2>1, RadixPositive
  <2>3. QED
    BY <2>1, <2>2
<1>4. PICK U \in Nat \ {0}, g \in Nat \ {0}, W \in Nat \ {0}, T \in Nat \ {0}, V \in Nat :
        /\ U = Unit /\ g = Weight(i - 1) /\ W = Weight(i - t - 1) /\ T = Weight(t)
        /\ V = Scaled(rhs) /\ U = V * W /\ g = T * W
  <2>1. Weight(i - 1) \in Nat \ {0} /\ Weight(i - t - 1) \in Nat \ {0} /\ Weight(t) \in Nat \ {0}
    BY <1>1, <1>2, Weights
  <2>2. Scaled(rhs) \in Nat
    BY InDigitLoop
  <2>3. QED
    BY <1>2, <2>1, <2>2 DEF Unit
<1>5. PICK R \in Nat, z \in Nat \ {0}, u \in Nat :
        /\ R = DigitRadix /\ z = y.dig[t] /\ u = x.dig[i] * R + x.dig[i - 1]
  <2>1. PICK R \in Nat, a \in Nat, b \in Nat :
          R = DigitRadix /\ a = x.dig[i] /\ b = x.dig[i - 1]
    BY FirstEstimateRange, RadixPositive DEF Digit
  <2>2. a * R + b \in Nat
    OBVIOUS
  <2>3. y.dig[t] \in Nat \ {0}
    BY <1>1, RadixPositive DEF Digit
  <2>4. QED
    BY <2>1, <2>2, <2>3
<1>6. IsQuotient(u, X, g)
  <2>1. i >= 1 /\ x.used <= i + 1
    BY <1>1, <1>2, RunningRemainder
  <2>2. Leading(x, i - 1) = Words(x)[i] * DigitRadix + Words(x)[i - 1]
    BY <1>1, <2>1, TopDigits
  <2>3. Words(x)[i] = x.dig[i] /\ Words(x)[i - 1] = x.dig[i - 1]
    BY <1>1, <1>2 DEF Words
  <2>4. Leading(x, i - 1) = u
    BY <1>5, <2>2, <2>3
  <2>5. QED
    BY <1>1, <1>2, <1>3, <1>4, <2>4, LeadingStep
<1>7. Holds(z, U, g)
  <2>1. Words(y)[t] = y.dig[t] /\ y.used <= t + 1
    BY <1>1 DEF Words
  <2>2. Leading(y, t) = z
    BY <1>1, <1>5, <2>1, TopDigits
  <2>3. IsQuotient(z, V, T)
    BY <1>1, <1>4, <2>2, LeadingStep
  <2>4. z * T <= V
    BY <2>3 DEF IsQuotient
  <2>5. (z * T) * W <= V * W
    <3>1. PICK A \in Nat : A = z * T
      OBVIOUS
    <3>2. A * W <= V * W
      BY <2>4, <3>1
    <3>3. QED
      BY <3>1, <3>2
  <2>6. z * g = (z * T) * W
    BY <1>4
  <2>7. QED
    BY <1>4, <2>5, <2>6 DEF Holds
<1>8. d <= u \div z
  BY <1>3, <1>4, <1>6, <1>7, FirstEstimateEnough, ZenonT(60)
<1>9. PICK w \in Nat : w = u \div z
  BY QuotientIsDiv
<1>10. FirstEstimate = IF w > R - 1 THEN R - 1 ELSE w
  BY <1>5, <1>9, FirstEstimateRange
<1>11. QED
  BY <1>3, <1>5, <1>8, <1>9, <1>10

(* The first estimate of a digit, one too large, since the loop lowers it first. *)
LEMMA EstimateKeeps ==
  ASSUME IInv, Estimate
  PROVE  IInv'
<1>1. /\ pc = "digit" /\ pc' = "correct" /\ op' = op /\ this' = this /\ rhs' = rhs
      /\ q' = WithQhat(FirstEstimate + 1) /\ r' = r /\ x' = x /\ y' = y
      /\ normShift' = normShift /\ n' = n /\ t' = t /\ i' = i
      /\ zeroDigit' = (zeroDigit \/ x.dig[i] = y.dig[i])
      /\ i > t /\ i <= x.used
  BY DEF Estimate, Goto
<1>2. Digits /\ Digits' /\ ~Estimating /\ Estimating'
  BY <1>1 DEF Digits, Estimating
<1>3. /\ Proper(x) /\ Safe(q) /\ n \in Nat /\ t \in Nat /\ i \in Nat /\ t <= i /\ i <= n
      /\ x.size \in Nat
  BY <1>2, InDigitLoop, Fields DEF Proper, Safe
<1>4. PICK f \in Nat, R \in Nat :
        f = FirstEstimate /\ R = DigitRadix /\ f >= 1 /\ f <= R - 1
  BY <1>1, <1>2, FirstEstimateRange, RadixPositive
<1>5. f + 1 \in Int
  OBVIOUS
<1>6. PICK k \in Nat : k = i - t - 1 /\ k \in 0 .. q.size - 1
  BY <1>1, <1>2, <1>5, QhatSet
<1>7. /\ Qhat \in Digit /\ Safe(q') /\ q'.used = q.used /\ q'.size = q.size
      /\ q'.dig[k] = (f + 1) % R
      /\ \A j \in 0 .. q.size - 1 : j # k => q'.dig[j] = q.dig[j]
      /\ Magnitude(q') = Magnitude(q) + (((f + 1) % R) - Qhat) * Weight(k)
  BY <1>1, <1>2, <1>4, <1>5, <1>6, QhatSet
<1>8. Qhat' = q'.dig[k] /\ Unit' = Unit /\ Scaled(rhs)' = Scaled(rhs)
  BY <1>1, <1>6 DEF Qhat, Unit, Scaled
<1>9. i' \in t .. n /\ zeroDigit' \in BOOLEAN /\ x'.size >= x.size
  BY <1>1, <1>3
<1>10. /\ Objects' /\ Kinds' /\ Begun' /\ Normalised' /\ Position' /\ Results'
       /\ Scaled(this)' = Scaled(this)
  BY <1>1, <1>2, <1>3, <1>7, <1>9, DigitStepKeeps
<1>11. \A j \in 0 .. q.size - 1 : j < i - t => q.dig[j] = 0
  BY <1>1 DEF IInv, Unset
<1>12. Unset'
  <2>1. \A j \in 0 .. q.size - 1 : j < i - t - 1 => j < i - t /\ j # k
    BY <1>3, <1>6
  <2>2. QED
    BY <1>1, <1>7, <1>11, <2>1 DEF Unset
<1>13. Identity'
  <2>1. Qhat = 0
    <3>1. k < i - t
      BY <1>3, <1>6
    <3>2. QED
      BY <1>6, <1>11, <3>1 DEF Qhat
  <2>2. PICK m \in Nat, W \in Nat, e \in Nat :
          m = Magnitude(q) /\ W = Weight(k) /\ e = (f + 1) % R
    <3>1. Magnitude(q) \in Nat /\ Weight(k) \in Nat
      BY <1>3, <1>6, Weights, MagnitudeIsSum
    <3>2. (f + 1) % R \in Nat
      BY <1>4
    <3>3. QED
      BY <3>1, <3>2
  <2>3. Magnitude(q') = m + (e - 0) * W
    BY <1>4, <1>7, <2>1, <2>2
  <2>4. Computed' = (m + (e - 0) * W) - e * W
    BY <1>1, <1>2, <1>4, <1>6, <1>7, <1>8, <2>2, <2>3 DEF Computed
  <2>5. (m + (e - 0) * W) - e * W = m
    OBVIOUS
  <2>6. Computed = m - 0
    BY <1>2, <2>2 DEF Computed
  <2>7. Computed' = Computed
    BY <2>4, <2>5, <2>6
  <2>8. Computed * Scaled(rhs) + Value(x) = Scaled(this)
    BY <1>2, InDigitLoop
  <2>9. QED
    BY <1>1, <1>8, <1>10, <2>7, <2>8 DEF Identity
<1>14. Below'
  BY <1>1, <1>2, <1>8 DEF IInv, Below
<1>15. Estimates'
  <2>1. Candidate' = f
    <3>1. ((((f + 1) % R) - 1) % R) = f
      <4>1. CASE f + 1 < R
        <5>1. (f + 1) % R = f + 1 /\ f % R = f
          BY <4>1
        <5>2. (f + 1) - 1 = f
          OBVIOUS
        <5>3. QED
          BY <5>1, <5>2
      <4>2. CASE f + 1 >= R
        <5>1. f + 1 = R /\ R > 0
          BY <1>4, <4>2
        <5>2. R % R = 0
          BY <5>1
        <5>3. (0 - 1) % R = R - 1
          BY <5>1
        <5>4. QED
          BY <5>1, <5>2, <5>3
      <4>3. QED
        BY <1>4, <4>1, <4>2
    <3>2. QED
      BY <1>1, <1>4, <1>7, <1>8, <3>1 DEF Candidate
  <2>2. ASSUME ~zeroDigit'
        PROVE  x'.dig[i'] # 0 /\ Magnitude(x') \div Unit' <= f
    <3>1. y.dig[i] = 0
      BY <1>1, <1>2, FirstEstimateRange
    <3>2. ~zeroDigit /\ x.dig[i] # 0
      BY <1>1, <2>2, <3>1
    <3>3. QED
      BY <1>1, <1>2, <1>4, <1>8, <3>2, FirstEstimateNotSmall
  <2>3. QED
    BY <1>1, <1>4, <2>1, <2>2 DEF Estimates
<1>16. QED
  BY <1>10, <1>12, <1>13, <1>14, <1>15 DEF IInv

-----------------------------------------------------------------------------
(***************************************************************************)
(* The test of an estimate.                                                *)
(***************************************************************************)
(* A default-constructed object of which digits are counted that are clear. *)
LEMMA DefaultCounted ==
  ASSUME NEW m \in 0 .. 3
  PROVE  LET z == [BigNumDefault EXCEPT !.used = m]
         IN  /\ Safe(z) /\ z.used = m /\ Magnitude(z) = 0 /\ ~z.neg /\ z.size >= 3
             /\ z.size \in Nat /\ \A k \in 0 .. z.size - 1 : z.dig[k] = 0
<1> DEFINE g == BigNumDefault
           z == [g EXCEPT !.used = m]
<1>1. Safe(g) /\ g.neg = FALSE
  BY BaseCapacityAssumption, NewSafe DEF BigNumDefault
<1>2. g.size >= 3
  <2>1. PICK B \in Nat \ {0} : B = BaseCapacity
    BY BaseCapacityAssumption
  <2>2. B % B = 0
    OBVIOUS
  <2>3. g.size = B + (2 * B - (B % B))
    BY <2>1 DEF BigNumDefault, New, Grow
  <2>4. QED
    BY <2>2, <2>3
<1>3. Grow(g, m) = g
  BY <1>1, <1>2, Fields DEF Grow, Safe
<1> HIDE DEF g
<1>4. z.size = g.size /\ z.neg = g.neg
  <2>1. g \in Exactly(g.neg, g.used, g.size, g.dig)
    BY <1>1, Shape DEF Safe
  <2>2. QED
    BY <2>1 DEF Exactly
<1> HIDE DEF z
<1>5. /\ Safe(z) /\ z.used = m /\ Magnitude(z) = 0
      /\ \A k \in 0 .. z.size - 1 : z.dig[k] = 0
  BY <1>3, EmptyQuotient DEF z, g
<1>6. QED
  BY <1>1, <1>2, <1>4, <1>5, Fields DEF Safe, z, g

(* Its first digits set, as the code builds the numbers it compares. *)
Built(m, a, b) == [BigNumDefault EXCEPT !.used = m, !.dig[0] = a, !.dig[1] = b]

(* The number built. *)
LEMMA DigitsSet ==
  ASSUME NEW m \in 2 .. 3, NEW a \in Digit, NEW b \in Digit,
         NEW z, z = Built(m, a, b)
  PROVE  /\ Safe(z) /\ z.used = m /\ ~z.neg /\ z.size >= 3 /\ z.size \in Nat
         /\ Magnitude(z) = b * DigitRadix + a
         /\ z.dig[1] = b /\ \A k \in 2 .. z.size - 1 : z.dig[k] = 0
<1> DEFINE z0 == [BigNumDefault EXCEPT !.used = m]
           z1 == [z0 EXCEPT !.dig[0] = a]
           z2 == [z1 EXCEPT !.dig[1] = b]
<1>1. z = z2
  BY DEF Built
<1>2. /\ Safe(z0) /\ z0.used = m /\ Magnitude(z0) = 0 /\ ~z0.neg /\ z0.size >= 3
      /\ z0.size \in Nat /\ \A k \in 0 .. z0.size - 1 : z0.dig[k] = 0
  BY DefaultCounted
<1> HIDE DEF z0
<1>3. PICK R \in Nat, c \in Nat, d \in Nat : R = DigitRadix /\ c = a /\ d = b
  BY RadixPositive DEF Digit
<1>4. Weight(0) = 1 /\ Weight(0 + 1) = 1 * R
  BY <1>3, Weights
<1>5. /\ Safe(z1) /\ z1.used = m /\ z1.size = z0.size /\ z1.neg = z0.neg
      /\ \A j \in 0 .. z0.size - 1 : j # 0 => z1.dig[j] = z0.dig[j]
      /\ Magnitude(z1) = Magnitude(z0) + (a - z0.dig[0]) * Weight(0)
  <2>1. 0 \in Nat /\ 0 < z0.used
    BY <1>2
  <2>2. QED
    BY <1>2, <2>1, SetDigit
<1> HIDE DEF z1
<1>6. /\ Safe(z2) /\ z2.used = m /\ z2.size = z1.size /\ z2.neg = z1.neg /\ z2.dig[1] = b
      /\ \A j \in 0 .. z1.size - 1 : j # 1 => z2.dig[j] = z1.dig[j]
      /\ Magnitude(z2) = Magnitude(z1) + (b - z1.dig[1]) * Weight(1)
  <2>1. PICK k \in Nat : k = 1 /\ k < z1.used /\ z1.size \in Nat
    BY <1>2, <1>5
  <2>2. LET w == [z1 EXCEPT !.dig[k] = b]
        IN  /\ Safe(w) /\ w.used = z1.used /\ w.size = z1.size /\ w.neg = z1.neg
            /\ w.dig[k] = b
            /\ \A j \in 0 .. z1.size - 1 : j # k => w.dig[j] = z1.dig[j]
            /\ Magnitude(w) = Magnitude(z1) + (b - z1.dig[k]) * Weight(k)
    <3>1. Safe(z1) /\ k < z1.used
      BY <1>5, <2>1
    <3>2. QED
      BY <3>1, SetDigit
  <2>3. QED
    BY <1>5, <2>1, <2>2
<1> HIDE DEF z2
<1>7. Magnitude(z2) = d * R + c
  <2>1. z0.dig[0] = 0 /\ z1.dig[1] = 0
    BY <1>2, <1>5
  <2>2. Magnitude(z1) = 0 + (c - 0) * 1
    BY <1>2, <1>3, <1>4, <1>5, <2>1
  <2>3. Magnitude(z2) = (0 + (c - 0) * 1) + (d - 0) * (1 * R)
    BY <1>3, <1>4, <1>6, <2>1, <2>2
  <2>4. (0 + (c - 0) * 1) + (d - 0) * (1 * R) = d * R + c
    OBVIOUS
  <2>5. QED
    BY <2>3, <2>4
<1>8. \A k \in 2 .. z2.size - 1 : z2.dig[k] = 0
  BY <1>2, <1>5, <1>6
<1>9. QED
  BY <1>1, <1>2, <1>3, <1>5, <1>6, <1>7, <1>8

(* The two leading digits of the divisor. *)
LEMMA TwoDigits ==
  ASSUME NEW a \in Digit, NEW b \in Digit, b # 0
  PROVE  LET z == [BigNumDefault EXCEPT !.used = 2, !.dig[0] = a, !.dig[1] = b]
         IN  Proper(z) /\ z.used = 2 /\ Value(z) = b * DigitRadix + a
<1>1. PICK z : z = Built(2, a, b)
  OBVIOUS
<1>2. 2 \in 2 .. 3
  OBVIOUS
<1>3. /\ Safe(z) /\ z.used = 2 /\ ~z.neg /\ Magnitude(z) = b * DigitRadix + a
      /\ z.dig[1] = b
  BY <1>1, <1>2, DigitsSet
<1>4. Proper(z)
  BY <1>3 DEF Proper, LeadingNonzero, ZeroNonnegative
<1>5. Value(z) = b * DigitRadix + a
  BY <1>3 DEF Value
<1>6. QED
  BY <1>1, <1>3, <1>4, <1>5 DEF Built

Three(a, b, c) ==
  [BigNumDefault EXCEPT !.used = 3, !.dig[0] = a, !.dig[1] = b, !.dig[2] = c]

(* Three digits of the running remainder, the first of which may be zero. *)
LEMMA ThreeDigits ==
  ASSUME NEW a \in Digit, NEW b \in Digit, NEW c \in Digit, NEW z, z = Three(a, b, c)
  PROVE  /\ z.used = 3
         /\ c # 0 => Proper(z) /\ Magnitude(z) = (c * DigitRadix + b) * DigitRadix + a
<1>0. PICK z2 : z2 = Built(3, a, b)
  OBVIOUS
<1> DEFINE z3 == [z2 EXCEPT !.dig[2] = c]
<1>1. z = z3
  BY <1>0 DEF Built, Three
<1>2. /\ Safe(z2) /\ z2.used = 3 /\ ~z2.neg /\ z2.size >= 3 /\ z2.size \in Nat
      /\ Magnitude(z2) = b * DigitRadix + a
      /\ \A k \in 2 .. z2.size - 1 : z2.dig[k] = 0
  <2>1. 3 \in 2 .. 3
    OBVIOUS
  <2>2. QED
    BY <1>0, <2>1, DigitsSet
<1>3. /\ Safe(z3) /\ z3.used = 3 /\ z3.neg = z2.neg /\ z3.dig[2] = c
      /\ Magnitude(z3) = Magnitude(z2) + (c - z2.dig[2]) * Weight(2)
  <2>1. 2 \in Nat /\ 2 < z2.used
    BY <1>2
  <2>2. QED
    BY <1>2, <2>1, SetDigit
<1> HIDE DEF z3
<1>4. PICK R \in Nat, a1 \in Nat, b1 \in Nat, c1 \in Nat :
        R = DigitRadix /\ a1 = a /\ b1 = b /\ c1 = c
  BY RadixPositive DEF Digit
<1>5. Magnitude(z3) = (c1 * R + b1) * R + a1
  <2>1. Weight(0 + 1) = 1 * R /\ Weight(1 + 1) = Weight(1) * R
    BY <1>4, Weights
  <2>2. Weight(2) = R * R
    BY <2>1
  <2>3. z2.dig[2] = 0
    BY <1>2
  <2>4. Magnitude(z3) = (b1 * R + a1) + (c1 - 0) * (R * R)
    BY <1>2, <1>3, <1>4, <2>2, <2>3
  <2>5. (b1 * R + a1) + (c1 - 0) * (R * R) = (c1 * R + b1) * R + a1
    OBVIOUS
  <2>6. QED
    BY <2>4, <2>5
<1>6. c # 0 => Proper(z3)
  BY <1>2, <1>3 DEF Proper, LeadingNonzero, ZeroNonnegative
<1>7. QED
  BY <1>1, <1>3, <1>4, <1>5, <1>6

(* The two leading digits of a number of k + 1 digits, and a zero if it has but *)
(* one, are a quotient of the number and the weight of digit k.                 *)
LEMMA TopTwo ==
  ASSUME NEW z, Safe(z), NEW k \in Nat, z.used <= k + 1,
         NEW e, e = IF k < 1 THEN 0 ELSE Words(z)[k - 1]
  PROVE  /\ Words(z)[k] * DigitRadix + e \in Nat /\ Words(z)[k] \in Digit /\ e \in Digit
         /\ IsQuotient(Words(z)[k] * DigitRadix + e, Magnitude(z) * DigitRadix, Weight(k))
<1>1. PICK R \in Nat \ {0}, M \in Nat : R = DigitRadix /\ M = Magnitude(z)
  BY RadixPositive, MagnitudeIsSum
<1>2. Words(z)[k] \in Digit /\ Leading(z, k) = Words(z)[k]
  BY LeadingStep, TopDigits
<1>3. PICK a \in Nat : a = Words(z)[k]
  BY <1>1, <1>2 DEF Digit
<1>4. CASE k = 0
  <2>1. e = 0 /\ M = a
    BY <1>1, <1>2, <1>3, <1>4, LeadingAll
  <2>2. M * R + 0 \in Nat /\ (M * R + 0) * 1 <= M * R /\ M * R < ((M * R + 0) + 1) * 1
    <3>1. PICK p \in Nat : p = M * R
      OBVIOUS
    <3>2. QED
      BY <3>1
  <2>3. IsQuotient(M * R + 0, M * R, 1)
    BY <2>2 DEF IsQuotient
  <2>4. QED
    BY <1>1, <1>2, <1>3, <1>4, <2>1, <2>2, <2>3, RadixPositive, Weights
<1>5. CASE k >= 1
  <2>1. k - 1 \in Nat /\ (k - 1) + 1 = k
    BY <1>5
  <2>2. e = Words(z)[k - 1] /\ e \in Digit
    BY <1>5, <2>1, LeadingStep
  <2>3. PICK b \in Nat : b = e
    BY <1>1, <2>2 DEF Digit
  <2>4. PICK u \in Nat : u = a * R + b
    OBVIOUS
  <2>5. Leading(z, k - 1) = u
    BY <1>1, <1>3, <1>5, <2>2, <2>3, <2>4, TopDigits
  <2>6. PICK P \in Nat : P = Weight(k - 1) /\ Weight(k) = P * R
    BY <1>1, <2>1, Weights
  <2>7. IsQuotient(u, M, P)
    BY <1>1, <2>1, <2>5, <2>6, LeadingStep
  <2>8. IsQuotient(u, M * R, P * R)
    BY <2>7, QuotientScaled
  <2>9. QED
    BY <1>1, <1>2, <1>3, <2>2, <2>3, <2>4, <2>6, <2>8
<1>6. QED
  BY <1>4, <1>5

(* And its three leading digits of the weight of digit k - 1. *)
LEMMA TopThree ==
  ASSUME NEW z, Safe(z), NEW k \in Nat, k >= 1, z.used <= k + 1,
         NEW e, e = IF k < 2 THEN 0 ELSE Words(z)[k - 2]
  PROVE  LET u == (Words(z)[k] * DigitRadix + Words(z)[k - 1]) * DigitRadix + e
         IN  /\ u \in Nat /\ e \in Digit
             /\ IsQuotient(u, Magnitude(z) * DigitRadix, Weight(k - 1))
<1>1. PICK R \in Nat \ {0}, M \in Nat : R = DigitRadix /\ M = Magnitude(z)
  BY RadixPositive, MagnitudeIsSum
<1>2. /\ k - 1 \in Nat /\ Words(z)[k] \in Digit /\ Words(z)[k - 1] \in Digit
      /\ Leading(z, k - 1) = Words(z)[k] * DigitRadix + Words(z)[k - 1]
  <2>1. k - 1 \in Nat
    OBVIOUS
  <2>2. QED
    BY <2>1, LeadingStep, TopDigits
<1>3. PICK a \in Nat, b \in Nat : a = Words(z)[k] /\ b = Words(z)[k - 1]
  BY <1>1, <1>2 DEF Digit
<1>4. PICK v \in Nat : v = a * R + b /\ v = Leading(z, k - 1)
  <2>1. a * R + b \in Nat
    OBVIOUS
  <2>2. QED
    BY <1>1, <1>2, <1>3, <2>1
<1>5. CASE k = 1
  <2>1. e = 0 /\ v = M /\ k - 1 = 0
    BY <1>1, <1>4, <1>5, LeadingAll
  <2>2. v * R + 0 \in Nat /\ (v * R + 0) * 1 <= v * R /\ v * R < ((v * R + 0) + 1) * 1
    <3>1. PICK p \in Nat : p = v * R
      OBVIOUS
    <3>2. QED
      BY <3>1
  <2>3. IsQuotient(v * R + 0, v * R, 1)
    BY <2>2 DEF IsQuotient
  <2>4. QED
    BY <1>1, <1>3, <1>4, <2>1, <2>2, <2>3, RadixPositive, Weights
<1>6. CASE k >= 2
  <2>1. k - 2 \in Nat /\ (k - 2) + 1 = k - 1
    BY <1>6
  <2>2. e = Words(z)[k - 2] /\ e \in Digit
    BY <1>6, <2>1, LeadingStep
  <2>3. PICK c \in Nat : c = e
    BY <1>1, <2>2 DEF Digit
  <2>4. PICK u \in Nat : u = v * R + c
    OBVIOUS
  <2>5. Leading(z, k - 2) = u
    <3>1. Leading(z, k - 2) = Leading(z, (k - 2) + 1) * DigitRadix + Words(z)[k - 2]
      BY <2>1, LeadingStep
    <3>2. QED
      BY <1>1, <1>4, <2>1, <2>2, <2>3, <2>4, <3>1
  <2>6. PICK P \in Nat : P = Weight(k - 2) /\ Weight(k - 1) = P * R
    BY <1>1, <2>1, Weights
  <2>7. IsQuotient(u, M, P)
    BY <1>1, <2>1, <2>5, <2>6, LeadingStep
  <2>8. IsQuotient(u, M * R, P * R)
    BY <2>7, QuotientScaled
  <2>9. QED
    BY <1>1, <1>3, <1>4, <2>2, <2>3, <2>4, <2>6, <2>8
<1>7. QED
  BY <1>5, <1>6

(* The two numbers that the loop compares: c times the leading digits of the  *)
(* divisor, and those of the running remainder.  When its first digit is zero *)
(* the second still counts three digits, and an estimate of one is not called *)
(* too large.                                                                 *)
LEMMA TestCompares ==
  ASSUME IInv, Digits, i > t, NEW c \in Digit, c >= 1
  PROVE  \E u \in Nat, v \in Nat :
           /\ IsQuotient(v, Scaled(rhs) * DigitRadix, Weight(t)) /\ v >= DigitRadix
           /\ x.used <= i + 1 =>
                IsQuotient(u, Magnitude(x) * DigitRadix, Weight(i - 1))
           /\ x.dig[i] # 0 =>
                (CompareMagnitude(Temp1(c), Temp2) = "GreaterThan" <=> c * v > u)
           /\ c = 1 => CompareMagnitude(Temp1(c), Temp2) # "GreaterThan"
<1>1. /\ Safe(x) /\ Safe(y) /\ i \in Nat /\ t \in Nat /\ n \in Nat /\ i <= n /\ n < x.size
      /\ n < y.size /\ t <= i /\ y.used = t + 1 /\ Magnitude(y) = Scaled(rhs)
      /\ y.dig[t] # 0 /\ x.size \in Nat /\ y.size \in Nat
  BY InDigitLoop, Fields DEF Proper, Safe
<1>2. PICK R \in Nat : R = DigitRadix /\ R >= 2
  BY RadixAtLeastTwo
<1>3. PICK y0 : y0 = IF t < 1 THEN 0 ELSE y.dig[t - 1]
  OBVIOUS
<1>4. PICK x0 : x0 = IF i < 2 THEN 0 ELSE x.dig[i - 2]
  OBVIOUS
<1>5. /\ Words(y)[t] = y.dig[t] /\ y0 = (IF t < 1 THEN 0 ELSE Words(y)[t - 1])
      /\ Words(x)[i] = x.dig[i] /\ Words(x)[i - 1] = x.dig[i - 1]
      /\ x0 = (IF i < 2 THEN 0 ELSE Words(x)[i - 2])
  <2>1. Words(y)[t] = y.dig[t] /\ Words(x)[i] = x.dig[i]
    BY <1>1 DEF Words
  <2>2. i - 1 \in Nat /\ i - 1 < x.size
    BY <1>1
  <2>3. Words(x)[i - 1] = x.dig[i - 1]
    BY <2>2 DEF Words
  <2>4. ASSUME t >= 1 PROVE Words(y)[t - 1] = y.dig[t - 1]
    <3>1. t - 1 \in Nat /\ t - 1 < y.size
      BY <1>1, <2>4
    <3>2. QED
      BY <3>1 DEF Words
  <2>5. ASSUME i >= 2 PROVE Words(x)[i - 2] = x.dig[i - 2]
    <3>1. i - 2 \in Nat /\ i - 2 < x.size
      BY <1>1, <2>5
    <3>2. QED
      BY <3>1 DEF Words
  <2>6. t < 1 \/ t >= 1
    BY <1>1
  <2>7. i < 2 \/ i >= 2
    BY <1>1
  <2>8. QED
    BY <1>3, <1>4, <2>1, <2>3, <2>4, <2>5, <2>6, <2>7
<1>6. /\ y.dig[t] * DigitRadix + y0 \in Nat /\ y.dig[t] \in Digit /\ y0 \in Digit
      /\ IsQuotient(y.dig[t] * DigitRadix + y0, Scaled(rhs) * DigitRadix, Weight(t))
  <2>1. y.used <= t + 1
    BY <1>1
  <2>2. QED
    BY <1>1, <1>5, <2>1, TopTwo
<1>7. PICK v \in Nat : v = y.dig[t] * DigitRadix + y0 /\ v >= R /\ v < R * R
  <2>1. PICK a \in Nat, b \in Nat : a = y.dig[t] /\ b = y0 /\ a < R /\ b < R /\ a # 0
    BY <1>1, <1>2, <1>6 DEF Digit
  <2>2. 1 * R <= a * R /\ a * R <= (R - 1) * R
    BY <1>2, <2>1
  <2>3. (R - 1) * R = R * R - R
    BY <1>2
  <2>4. PICK p \in Nat, s \in Nat : p = a * R /\ s = R * R
    OBVIOUS
  <2>5. R <= p + b /\ p + b < s
    BY <1>2, <2>1, <2>2, <2>3, <2>4
  <2>6. QED
    BY <1>2, <2>1, <2>4, <2>5
<1>8. x.dig[i] \in Digit /\ x.dig[i - 1] \in Digit /\ x0 \in Digit
  <2>1. x.dig[i] \in Digit /\ x.dig[i - 1] \in Digit
    BY FirstEstimateRange
  <2>2. ASSUME i >= 2 PROVE x.dig[i - 2] \in Digit
    <3>1. i - 2 \in 0 .. x.size - 1
      BY <1>1, <2>2
    <3>2. QED
      BY <1>1, <3>1, Fields DEF Safe
  <2>3. i < 2 \/ i >= 2
    BY <1>1
  <2>4. QED
    BY <1>4, <2>1, <2>2, <2>3, RadixPositive
<1>9. PICK u \in Nat : u = (x.dig[i] * DigitRadix + x.dig[i - 1]) * DigitRadix + x0
  <2>1. PICK a \in Nat, b \in Nat, d \in Nat : a = x.dig[i] /\ b = x.dig[i - 1] /\ d = x0
    BY <1>2, <1>8 DEF Digit
  <2>2. (a * R + b) * R + d \in Nat
    OBVIOUS
  <2>3. QED
    BY <1>2, <2>1, <2>2
<1>10. ASSUME x.used <= i + 1
       PROVE  IsQuotient(u, Magnitude(x) * DigitRadix, Weight(i - 1))
  <2>1. i >= 1
    BY <1>1
  <2>2. IsQuotient((Words(x)[i] * DigitRadix + Words(x)[i - 1]) * DigitRadix + x0,
                   Magnitude(x) * DigitRadix, Weight(i - 1))
    BY <1>1, <1>5, <1>10, <2>1, TopThree
  <2>3. QED
    BY <1>5, <1>9, <2>2
<1>11. Proper(Temp1(c)) /\ Magnitude(Temp1(c)) = v * c
  <2>1. PICK z : z = [BigNumDefault EXCEPT !.used = 2, !.dig[0] = y0, !.dig[1] = y.dig[t]]
    OBVIOUS
  <2>2. Proper(z) /\ Value(z) = v
    BY <1>1, <1>6, <1>7, <2>1, TwoDigits
  <2>3. Temp1(c) = MulDigit(z, c)
    BY <1>3, <2>1 DEF Temp1
  <2>4. Proper(Temp1(c)) /\ Value(Temp1(c)) = v * c
    BY <2>2, <2>3, MulDigitExact
  <2>5. PICK e \in Nat : e = c
    BY RadixPositive DEF Digit
  <2>6. v * e >= 0
    OBVIOUS
  <2>7. QED
    BY <2>4, <2>5, <2>6, ProperValue
<1>12. /\ Temp2.used = 3
       /\ x.dig[i] # 0 => Proper(Temp2) /\ Magnitude(Temp2) = u
  <2>1. Temp2 = [BigNumDefault EXCEPT !.used = 3, !.dig[0] = x0, !.dig[1] = x.dig[i - 1],
                                      !.dig[2] = x.dig[i]]
    BY <1>4 DEF Temp2
  <2>2. PICK z : z = Temp2
    OBVIOUS
  <2>3. PICK a : a = x.dig[i]
    OBVIOUS
  <2>4. PICK b : b = x.dig[i - 1]
    OBVIOUS
  <2>5. a \in Digit /\ b \in Digit /\ x0 \in Digit
    BY <1>8, <2>3, <2>4
  <2>6. z = Three(x0, b, a)
    BY <2>1, <2>2, <2>3, <2>4 DEF Three
  <2>7. z.used = 3 /\ (a # 0 => Proper(z) /\ Magnitude(z) = (a * DigitRadix + b) * DigitRadix + x0)
    BY <2>5, <2>6, ThreeDigits
  <2>8. QED
    BY <1>9, <2>2, <2>3, <2>4, <2>7
<1>13. ASSUME x.dig[i] # 0
       PROVE  CompareMagnitude(Temp1(c), Temp2) = "GreaterThan" <=> c * v > u
  <2>1. PICK e \in Nat, p \in Nat : e = c /\ p = v * e /\ p = e * v
    <3>1. PICK e \in Nat : e = c
      BY RadixPositive DEF Digit
    <3>2. v * e = e * v /\ v * e \in Nat
      OBVIOUS
    <3>3. QED
      BY <3>1, <3>2
  <2>2. CompareMagnitude(Temp1(c), Temp2) = "GreaterThan" <=> p > u
    BY <1>11, <1>12, <1>13, <2>1, CompareMagnitudeExact
  <2>3. QED
    BY <2>1, <2>2
<1>14. ASSUME c = 1 PROVE CompareMagnitude(Temp1(c), Temp2) # "GreaterThan"
  <2>1. Weight(2) = R * R
    <3>1. Weight(0 + 1) = 1 * R /\ Weight(1 + 1) = Weight(1) * R
      BY <1>2, Weights
    <3>2. QED
      BY <3>1
  <2>2. v * 1 = v
    OBVIOUS
  <2>3. Magnitude(Temp1(c)) < Weight(2)
    BY <1>7, <1>11, <1>14, <2>1, <2>2
  <2>4. Temp1(c).used <= 2 /\ Temp1(c).used \in Nat
    BY <1>11, <2>3, UsedOf, Fields DEF Proper, Safe
  <2>5. Temp1(c).used < Temp2.used /\ ~(Temp1(c).used > Temp2.used)
    BY <1>12, <2>4
  <2>6. QED
    BY <2>5, Zenon DEF CompareMagnitude
<1>15. QED
  BY <1>2, <1>6, <1>7, <1>9, <1>10, <1>13, <1>14

(* An estimate not below the quotient digit is lowered exactly as long as it is *)
(* too large by more than one.                                                  *)
LEMMA TestDecides ==
  ASSUME IInv, Digits, i > t, NEW c \in Digit, c >= 1
  PROVE  /\ c = 1 => CompareMagnitude(Temp1(c), Temp2) # "GreaterThan"
         /\ ~zeroDigit /\ x.dig[i] # 0 =>
              IF CompareMagnitude(Temp1(c), Temp2) = "GreaterThan"
              THEN Magnitude(x) \div Unit < c
              ELSE c <= (Magnitude(x) \div Unit) + 1
<1>1. PICK u \in Nat, v \in Nat :
        /\ IsQuotient(v, Scaled(rhs) * DigitRadix, Weight(t)) /\ v >= DigitRadix
        /\ x.used <= i + 1 =>
             IsQuotient(u, Magnitude(x) * DigitRadix, Weight(i - 1))
        /\ x.dig[i] # 0 =>
             (CompareMagnitude(Temp1(c), Temp2) = "GreaterThan" <=> c * v > u)
        /\ c = 1 => CompareMagnitude(Temp1(c), Temp2) # "GreaterThan"
  BY TestCompares
<1>2. SUFFICES ASSUME ~zeroDigit, x.dig[i] # 0
               PROVE  IF CompareMagnitude(Temp1(c), Temp2) = "GreaterThan"
                      THEN Magnitude(x) \div Unit < c
                      ELSE c <= (Magnitude(x) \div Unit) + 1
  BY <1>1
<1>3. /\ Magnitude(x) \in Nat /\ x.used <= i + 1
      /\ IsQuotient(Magnitude(x) \div Unit, Magnitude(x), Unit)
      /\ Magnitude(x) \div Unit \in 0 .. DigitRadix - 1
  BY <1>2, RunningRemainder
<1>4. PICK X \in Nat, R \in Nat \ {0}, U \in Nat \ {0}, V \in Nat \ {0}, W \in Nat \ {0},
           T \in Nat \ {0}, g \in Nat \ {0} :
        /\ X = Magnitude(x) /\ R = DigitRadix /\ U = Unit /\ V = Scaled(rhs)
        /\ W = Weight(i - t - 1) /\ T = Weight(t) /\ g = Weight(i - 1)
        /\ U = V * W /\ g = T * W
  <2>1. /\ Unit \in Nat \ {0} /\ Scaled(rhs) \in Nat \ {0} /\ Weight(i - t - 1) \in Nat \ {0}
        /\ Weight(t) \in Nat \ {0} /\ Weight(i - 1) \in Nat \ {0}
        /\ Weight(i - 1) = Weight(t) * Weight(i - t - 1)
    BY InDigitLoop, UnitSplit, Weights
  <2>2. Unit = Scaled(rhs) * Weight(i - t - 1)
    BY DEF Unit
  <2>3. QED
    BY <1>3, <2>1, <2>2, RadixPositive
<1>5. PICK d \in Nat : d = X \div U /\ IsQuotient(d, X, U)
  BY <1>3, <1>4
<1>6. PICK a \in Nat, b \in Nat : a = X * R /\ b = U * R
  OBVIOUS
<1>7. IsQuotient(u, a, g)
  BY <1>1, <1>3, <1>4, <1>6
<1>8. IsQuotient(v, b, g) /\ Holds(v, b, g)
  <2>1. PICK p \in Nat : p = V * R
    OBVIOUS
  <2>2. IsQuotient(v, p, T)
    BY <1>1, <1>4, <2>1
  <2>3. IsQuotient(v, p * W, T * W)
    BY <2>2, QuotientScaled
  <2>4. p * W = U * R
    BY <1>4, <2>1
  <2>5. IsQuotient(v, b, g)
    BY <1>4, <1>6, <2>3, <2>4
  <2>6. QED
    BY <2>5 DEF IsQuotient, Holds
<1>9. IsQuotient(d, a, b)
  BY <1>5, <1>6, QuotientScaled
<1>10. PICK e \in Nat : e = c /\ e < R
  BY <1>4 DEF Digit
<1>11. CompareMagnitude(Temp1(c), Temp2) = "GreaterThan" <=> e * v > u
  BY <1>1, <1>2, <1>10
<1>12. ASSUME e * v > u PROVE d < e
  <2>1. SUFFICES ASSUME e <= d PROVE FALSE
    OBVIOUS
  <2>2. e \in 0 .. d
    BY <2>1
  <2>3. e * v <= u
    BY <1>7, <1>8, <1>9, <2>2, QuotientPassesTest
  <2>4. PICK p \in Nat : p = e * v
    OBVIOUS
  <2>5. QED
    BY <1>12, <2>3, <2>4
<1>13. ASSUME ~(e * v > u) PROVE e <= d + 1
  <2>1. e \in 0 .. v
    BY <1>1, <1>4, <1>10
  <2>2. e * v <= u
    <3>1. PICK p \in Nat : p = e * v
      OBVIOUS
    <3>2. QED
      BY <1>13, <3>1
  <2>3. QED
    BY <1>7, <1>8, <1>9, <2>1, <2>2, TestBoundsEstimate
<1>14. QED
  BY <1>4, <1>5, <1>10, <1>11, <1>12, <1>13

(* One turn of the do-while: what passes is at most one too large. *)
LEMMA CorrectKeeps ==
  ASSUME IInv, Correct
  PROVE  IInv'
<1>1. /\ pc = "correct" /\ op' = op /\ this' = this /\ rhs' = rhs
      /\ q' = WithQhat((Qhat - 1) % DigitRadix) /\ r' = r /\ x' = x /\ y' = y
      /\ normShift' = normShift /\ n' = n /\ t' = t /\ i' = i /\ zeroDigit' = zeroDigit
      /\ pc' = IF CompareMagnitude(Temp1((Qhat - 1) % DigitRadix), Temp2) = "GreaterThan"
               THEN "correct" ELSE "subtract"
  BY DEF Correct, Goto
<1>2. Digits /\ Digits' /\ Estimating /\ Estimating'
  BY <1>1 DEF Digits, Estimating
<1>3. /\ Proper(x) /\ Safe(q) /\ n \in Nat /\ t \in Nat /\ i \in Nat /\ t <= i /\ i <= n
      /\ x.size \in Nat
  BY <1>2, InDigitLoop, Fields DEF Proper, Safe
<1>4. i > t
  BY <1>2 DEF IInv, Position
<1>5. PICK c \in Int : c = (Qhat - 1) % DigitRadix /\ c = Candidate
  <2>1. Qhat \in Digit
    BY <1>2, <1>4, QhatSet
  <2>2. Qhat - 1 \in Int
    BY <2>1, RadixPositive DEF Digit
  <2>3. (Qhat - 1) % DigitRadix \in Int
    BY <2>2, ModDigit, RadixPositive DEF Digit
  <2>4. QED
    BY <1>1, <2>3 DEF Candidate
<1>6. c \in Digit /\ c >= 1 /\ c \in Nat /\ c % DigitRadix = c
  <2>1. c \in Digit
    <3>1. Qhat \in Digit
      BY <1>2, <1>4, QhatSet
    <3>2. Qhat - 1 \in Int
      BY <3>1, RadixPositive DEF Digit
    <3>3. QED
      BY <1>5, <3>2, ModDigit
  <2>2. c >= 1
    BY <1>2, <1>5 DEF IInv, Estimates
  <2>3. QED
    BY <2>1, <2>2, DigitDiv
<1>7. PICK k \in Nat : k = i - t - 1 /\ k \in 0 .. q.size - 1
  BY <1>2, <1>4, <1>6, QhatSet
<1>8. /\ Qhat \in Digit /\ Safe(q') /\ q'.used = q.used /\ q'.size = q.size
      /\ q'.dig[k] = c
      /\ \A j \in 0 .. q.size - 1 : j # k => q'.dig[j] = q.dig[j]
      /\ Magnitude(q') = Magnitude(q) + (c - Qhat) * Weight(k)
  BY <1>1, <1>2, <1>4, <1>5, <1>6, <1>7, QhatSet
<1>9. Qhat' = c /\ Unit' = Unit /\ Scaled(rhs)' = Scaled(rhs)
  BY <1>1, <1>7, <1>8 DEF Qhat, Unit, Scaled
<1>10. i' \in t .. n /\ zeroDigit' \in BOOLEAN /\ x'.size >= x.size
  BY <1>1, <1>3 DEF IInv, Kinds
<1>11. /\ Objects' /\ Kinds' /\ Begun' /\ Normalised' /\ Position' /\ Results'
       /\ Scaled(this)' = Scaled(this)
  BY <1>1, <1>2, <1>3, <1>4, <1>8, <1>10, DigitStepKeeps
<1>12. Unset'
  <2>1. \A j \in 0 .. q.size - 1 : j < i - t - 1 => q.dig[j] = 0
    BY <1>2 DEF IInv, Unset
  <2>2. \A j \in 0 .. q.size - 1 : j < i - t - 1 => j # k
    BY <1>3, <1>7
  <2>3. QED
    BY <1>1, <1>8, <2>1, <2>2 DEF Unset
<1>13. Identity'
  <2>1. PICK m \in Int, W \in Int, d \in Int :
          m = Magnitude(q) /\ W = Weight(k) /\ d = Qhat
    <3>1. Magnitude(q) \in Int /\ Weight(k) \in Int
      BY <1>3, <1>7, Weights, MagnitudeIsSum
    <3>2. Qhat \in Int
      BY <1>8, RadixPositive DEF Digit
    <3>3. QED
      BY <3>1, <3>2
  <2>2. Magnitude(q') = m + (c - d) * W
    BY <1>8, <2>1
  <2>3. Computed' = (m + (c - d) * W) - c * W
    BY <1>1, <1>2, <1>7, <1>9, <2>1, <2>2 DEF Computed
  <2>4. (m + (c - d) * W) - c * W = m - d * W
    OBVIOUS
  <2>5. Computed = m - d * W
    BY <1>2, <1>7, <2>1 DEF Computed
  <2>6. Computed' = Computed
    BY <2>3, <2>4, <2>5
  <2>7. Computed * Scaled(rhs) + Value(x) = Scaled(this)
    BY <1>2, InDigitLoop
  <2>8. QED
    BY <1>1, <1>9, <1>11, <2>6, <2>7 DEF Identity
<1>14. Below'
  BY <1>1, <1>2, <1>9 DEF IInv, Below
<1>15. /\ c = 1 => pc' = "subtract"
       /\ ~zeroDigit /\ x.dig[i] # 0 =>
            IF pc' = "correct" THEN Magnitude(x) \div Unit < c
            ELSE c <= (Magnitude(x) \div Unit) + 1
  BY <1>1, <1>2, <1>4, <1>5, <1>6, TestDecides
<1>16. pc' \in {"correct", "subtract"}
  BY <1>1
<1>17. ~zeroDigit => /\ x.dig[i] # 0 /\ Magnitude(x) \div Unit \in Nat
                     /\ Magnitude(x) \div Unit <= c
  <2>1. ASSUME ~zeroDigit PROVE Magnitude(x) \div Unit \in Nat
    <3>1. Magnitude(x) \div Unit \in 0 .. DigitRadix - 1
      BY <1>2, <1>4, <2>1, RunningRemainder
    <3>2. QED
      BY <3>1, RadixPositive
  <2>2. QED
    BY <1>2, <1>5, <2>1 DEF IInv, Estimates
<1>18. Estimates'
  <2>1. CASE pc' = "subtract"
    <3>1. Candidate' = c
      BY <1>9, <2>1 DEF Candidate
    <3>2. ASSUME ~zeroDigit'
          PROVE  /\ x'.dig[i'] # 0 /\ Magnitude(x') \div Unit' <= c
                 /\ c <= (Magnitude(x') \div Unit') + 1
      BY <1>1, <1>9, <1>15, <1>17, <2>1, <3>2
    <3>3. QED
      BY <1>6, <3>1, <3>2 DEF Estimates
  <2>2. CASE pc' = "correct"
    <3>1. c >= 2
      BY <1>6, <1>15, <2>2
    <3>2. (c - 1) % DigitRadix = c - 1
      <4>1. c - 1 \in Digit
        BY <1>6, <3>1, RadixPositive DEF Digit
      <4>2. QED
        BY <4>1, DigitDiv
    <3>3. Candidate' = c - 1
      BY <1>9, <2>2, <3>2 DEF Candidate
    <3>4. ASSUME ~zeroDigit'
          PROVE  x'.dig[i'] # 0 /\ Magnitude(x') \div Unit' <= c - 1
      <4>1. PICK d \in Nat : d = Magnitude(x) \div Unit
        BY <1>1, <1>17, <3>4
      <4>2. x.dig[i] # 0 /\ d < c
        BY <1>1, <1>15, <1>17, <2>2, <3>4, <4>1
      <4>3. QED
        BY <1>1, <1>6, <1>9, <4>1, <4>2
    <3>5. pc' # "subtract"
      BY <2>2
    <3>6. QED
      BY <1>6, <3>1, <3>3, <3>4, <3>5 DEF Estimates
  <2>3. QED
    BY <1>16, <2>1, <2>2
<1>19. QED
  BY <1>11, <1>12, <1>13, <1>14, <1>18 DEF IInv

-----------------------------------------------------------------------------
(***************************************************************************)
(* Subtracting the multiple of the divisor, and adding one back.           *)
(***************************************************************************)
(* A positive number moved up by whole digits. *)
LEMMA PositiveMovedUp ==
  ASSUME NEW z, Proper(z), Value(z) > 0, NEW k \in Nat
  PROVE  /\ Proper(LeftDigitShift(z, k))
         /\ Value(LeftDigitShift(z, k)) = Value(z) * Weight(k)
<1>1. PICK m \in Nat : m = Magnitude(z) /\ m = Value(z) /\ m > 0 /\ ~z.neg /\ z.used # 0
  BY ProperValue
<1>2. z.used \in Nat /\ z.used > 0 /\ Safe(z) /\ LeadingNonzero(z)
  BY <1>1, Fields DEF Proper, Safe
<1>3. PICK W \in Nat \ {0} : W = Weight(k)
  BY Weights
<1>4. PICK v : v = LeftDigitShift(z, k)
  OBVIOUS
<1>5. Safe(v) /\ ~v.neg /\ Magnitude(v) = W * m /\ LeadingNonzero(v)
  BY <1>1, <1>2, <1>3, <1>4, LeftDigitShiftExact
<1>6. Proper(v)
  BY <1>5 DEF Proper, ZeroNonnegative
<1>7. Value(v) = W * m
  BY <1>5 DEF Value
<1>8. W * m = m * W
  OBVIOUS
<1>9. QED
  BY <1>1, <1>3, <1>4, <1>6, <1>7, <1>8

(* A remainder of d whole units, less c of them, d or one more. *)
LEMMA OneAddedBack ==
  ASSUME NEW X \in Int, NEW U \in Nat \ {0}, NEW d \in Nat, IsQuotient(d, X, U),
         NEW c \in Nat, d <= c, c <= d + 1
  PROVE  IF X - c * U < 0 THEN X - c * U + U >= 0 /\ X - c * U + U < U
         ELSE X - c * U < U
<1>1. PICK p \in Nat : p = d * U /\ (d + 1) * U = p + U
  OBVIOUS
<1>2. p <= X /\ X < p + U
  BY <1>1 DEF IsQuotient
<1>3. CASE c = d
  BY <1>1, <1>2, <1>3
<1>4. CASE c = d + 1
  BY <1>1, <1>2, <1>4
<1>5. QED
  BY <1>3, <1>4

(* The digit is kept or lowered as the remainder allows. *)
LEMMA SubtractMultipleKeeps ==
  ASSUME IInv, SubtractMultiple
  PROVE  IInv'
<1>1. /\ pc = "subtract" /\ pc' = "digit" /\ op' = op /\ this' = this /\ rhs' = rhs
      /\ r' = r /\ y' = y
      /\ normShift' = normShift /\ n' = n /\ t' = t /\ i' = i - 1
      /\ zeroDigit' = zeroDigit
  BY DEF SubtractMultiple, Goto
<1>2. Digits /\ Digits' /\ Estimating /\ ~Estimating'
  BY <1>1 DEF Digits, Estimating
<1>3. /\ Proper(x) /\ Proper(y) /\ Safe(x) /\ Safe(y) /\ Safe(q)
      /\ n \in Nat /\ t \in Nat /\ i \in Nat /\ t <= i /\ i <= n
      /\ x.size \in Nat /\ Value(y) = Scaled(rhs) /\ Scaled(rhs) \in Nat \ {0}
      /\ Scaled(this) \in Nat /\ Value(x) \in Int /\ Magnitude(q) \in Nat
  <2>1. /\ Proper(x) /\ Proper(y) /\ Safe(q)
        /\ n \in Nat /\ t \in Nat /\ i \in Nat /\ t <= i /\ i <= n
        /\ Value(y) = Scaled(rhs) /\ Scaled(rhs) \in Nat \ {0} /\ Scaled(this) \in Nat
    BY <1>2, InDigitLoop
  <2>2. Value(x) \in Int /\ Magnitude(q) \in Nat
    BY Named
  <2>3. QED
    BY <2>1, <2>2, Fields DEF Proper, Safe
<1>4. i > t
  BY <1>2 DEF IInv, Position
<1>5. PICK c \in Nat : c = Qhat /\ c \in Digit /\ c >= 1 /\ c % DigitRadix = c
                       /\ c - 1 \in Int /\ (c - 1) % DigitRadix = c - 1
  <2>1. Qhat \in Digit /\ Qhat \in Nat
    <3>1. 0 \in Int
      OBVIOUS
    <3>2. Qhat \in Digit
      BY <1>2, <1>4, <3>1, QhatSet
    <3>3. QED
      BY <3>2, RadixPositive DEF Digit
  <2>2. Qhat >= 1
    BY <1>1, <1>2 DEF IInv, Estimates, Candidate
  <2>3. Qhat - 1 \in Digit /\ Qhat - 1 \in Int
    BY <2>1, <2>2, RadixPositive DEF Digit
  <2>4. QED
    BY <2>1, <2>2, <2>3, DigitDiv
<1>6. PICK k \in Nat : k = i - t - 1 /\ k \in 0 .. q.size - 1
  BY <1>2, <1>4, <1>5, QhatSet
<1>7. /\ Qhat = q.dig[k] /\ Safe(WithQhat(c - 1)) /\ WithQhat(c - 1).used = q.used
      /\ WithQhat(c - 1).size = q.size
      /\ \A j \in 0 .. q.size - 1 : j # k => WithQhat(c - 1).dig[j] = q.dig[j]
      /\ Magnitude(WithQhat(c - 1)) = Magnitude(q) + ((c - 1) - c) * Weight(k)
  <2>1. Qhat = q.dig[k]
    BY <1>6 DEF Qhat
  <2>2. QED
    BY <1>2, <1>4, <1>5, <1>6, <2>1, QhatSet
<1>8. PICK X \in Int, V \in Nat \ {0}, W \in Nat \ {0}, U \in Nat \ {0}, m \in Nat :
        /\ X = Value(x) /\ V = Scaled(rhs) /\ W = Weight(k) /\ U = Unit /\ U = V * W
        /\ m = Magnitude(q)
  <2>1. Unit \in Nat \ {0}
    BY <1>2, <1>4, UnitSplit
  <2>2. Unit = Scaled(rhs) * Weight(k)
    BY <1>6 DEF Unit
  <2>3. QED
    BY <1>3, <2>1, <2>2, Weights
<1>9. PICK multiple : multiple = LeftDigitShift(MulDigit(y, c), k)
  OBVIOUS
<1>10. Proper(multiple) /\ Value(multiple) = c * U
  <2>1. Proper(MulDigit(y, c)) /\ Value(MulDigit(y, c)) = V * c
    BY <1>3, <1>5, <1>8, MulDigitExact
  <2>2. V * c > 0
    BY <1>5
  <2>3. Proper(multiple) /\ Value(multiple) = (V * c) * W
    BY <1>8, <1>9, <2>1, <2>2, PositiveMovedUp
  <2>4. (V * c) * W = c * (V * W)
    OBVIOUS
  <2>5. QED
    BY <1>8, <2>3, <2>4
<1>11. PICK rest : rest = SubEq(x, multiple)
  OBVIOUS
<1>12. /\ Proper(rest) /\ Safe(rest) /\ Value(rest) = X - c * U /\ rest.size >= x.size
       /\ rest.neg <=> X - c * U < 0
  <2>1. Proper(rest) /\ Value(rest) = X - c * U
    BY <1>3, <1>8, <1>10, <1>11, SubtractExact
  <2>2. Safe(rest) /\ rest.size >= x.size
    BY <1>3, <1>10, <1>11, SubEqSafe DEF Proper
  <2>3. QED
    BY <2>1, <2>2, ProperValue
<1>13. PICK back : back = LeftDigitShift(y, k)
  OBVIOUS
<1>14. Proper(back) /\ Safe(back) /\ Value(back) = U
  BY <1>3, <1>8, <1>13, PositiveMovedUp DEF Proper
<1>15. IF rest.neg THEN x' = AddEq(rest, back) /\ q' = WithQhat(c - 1)
       ELSE x' = rest /\ q' = q
  BY <1>5, <1>6, <1>9, <1>11, <1>13 DEF SubtractMultiple
<1>16. ASSUME rest.neg
       PROVE  /\ Proper(x') /\ Value(x') = X - c * U + U /\ x'.size >= x.size
              /\ Magnitude(q') = m - W
  <2>1. Proper(x') /\ Value(x') = (X - c * U) + U
    BY <1>12, <1>14, <1>15, <1>16, AddExact
  <2>2. Safe(x') /\ x'.size >= rest.size
    BY <1>12, <1>14, <1>15, <1>16, AddEqSafe
  <2>3. x'.size \in Nat /\ rest.size \in Nat
    BY <1>12, <2>2, Fields DEF Safe
  <2>4. x'.size >= x.size
    BY <1>3, <1>12, <2>2, <2>3
  <2>5. Magnitude(q') = m + ((c - 1) - c) * W
    BY <1>7, <1>8, <1>15, <1>16
  <2>6. m + ((c - 1) - c) * W = m - W
    OBVIOUS
  <2>7. QED
    BY <2>1, <2>4, <2>5, <2>6
<1>17. ASSUME ~rest.neg
       PROVE  /\ Proper(x') /\ Value(x') = X - c * U /\ x'.size >= x.size
              /\ Magnitude(q') = m
  BY <1>8, <1>12, <1>15, <1>17
<1>18. /\ Safe(q') /\ q'.used = q.used /\ q'.size = q.size
       /\ \A j \in 0 .. q.size - 1 : j # k => q'.dig[j] = q.dig[j]
  BY <1>3, <1>7, <1>15
<1>19. Proper(x') /\ x'.size >= x.size
  BY <1>16, <1>17
<1>20. i' \in t .. n /\ zeroDigit' \in BOOLEAN /\ (i' - t) = k
  <2>1. i' \in t .. n /\ (i' - t) = k
    BY <1>1, <1>3, <1>4, <1>6
  <2>2. QED
    BY <1>1, <2>1 DEF IInv, Kinds
<1>21. /\ Objects' /\ Kinds' /\ Begun' /\ Normalised' /\ Position' /\ Results'
       /\ Scaled(rhs)' = Scaled(rhs) /\ Scaled(this)' = Scaled(this)
  BY <1>1, <1>2, <1>18, <1>19, <1>20, DigitStepKeeps
<1>22. Unset'
  <2>1. \A j \in 0 .. q.size - 1 : j < k => q.dig[j] = 0
    BY <1>2, <1>6 DEF IInv, Unset
  <2>2. \A j \in 0 .. q.size - 1 : j < k => j # k
    BY <1>6
  <2>3. \A j \in 0 .. q'.size - 1 : j < k => q'.dig[j] = 0
    BY <1>18, <2>1, <2>2
  <2>4. QED
    BY <1>1, <1>2, <1>20, <2>3 DEF Unset
<1>23. Identity'
  <2>1. (m - c * W) * V + X = Scaled(this)
    <3>1. Computed = m - c * W
      BY <1>2, <1>5, <1>6, <1>8 DEF Computed
    <3>2. Computed * Scaled(rhs) + Value(x) = Scaled(this)
      BY <1>2, InDigitLoop
    <3>3. QED
      BY <1>8, <3>1, <3>2
  <2>2. Computed' = Magnitude(q')
    <3>1. Magnitude(q') \in Int
      BY <1>8, <1>16, <1>17
    <3>2. Computed' = Magnitude(q') - 0
      BY <1>2 DEF Computed
    <3>3. QED
      BY <3>1, <3>2
  <2>3. Computed' * V + Value(x') = Scaled(this)
    <3>1. CASE rest.neg
      <4>1. (m - W) * V + (X - c * U + U) = (m - c * W) * V + X
        BY <1>8
      <4>2. QED
        BY <1>16, <2>1, <2>2, <3>1, <4>1
    <3>2. CASE ~rest.neg
      <4>1. m * V + (X - c * U) = (m - c * W) * V + X
        BY <1>8
      <4>2. QED
        BY <1>17, <2>1, <2>2, <3>2, <4>1
    <3>3. QED
      BY <3>1, <3>2
  <2>4. QED
    BY <1>8, <1>21, <2>3 DEF Identity
<1>24. Below'
  <2>1. SUFFICES ASSUME ~zeroDigit PROVE Value(x') >= 0 /\ Value(x') < U
    <3>1. U = Scaled(rhs)' * Weight(i' - t')
      BY <1>1, <1>8, <1>20, <1>21
    <3>2. QED
      BY <1>1, <3>1 DEF Below
  <2>2. X = Magnitude(x) /\ IsQuotient(X \div U, X, U) /\ X \div U \in Nat
    <3>1. /\ Value(x) = Magnitude(x)
          /\ IsQuotient(Magnitude(x) \div Unit, Magnitude(x), Unit)
          /\ Magnitude(x) \div Unit \in 0 .. DigitRadix - 1
      BY <1>2, <1>4, <2>1, RunningRemainder
    <3>2. QED
      BY <1>8, <3>1, RadixPositive
  <2>3. PICK d \in Nat : d = X \div U /\ IsQuotient(d, X, U)
    BY <2>2
  <2>4. d <= c /\ c <= d + 1
    BY <1>1, <1>2, <1>5, <1>8, <2>1, <2>2, <2>3 DEF IInv, Estimates, Candidate
  <2>5. PICK p \in Int : p = X - c * U
    OBVIOUS
  <2>6. IF p < 0 THEN p + U >= 0 /\ p + U < U ELSE p < U
    BY <2>3, <2>4, <2>5, OneAddedBack
  <2>7. CASE rest.neg
    BY <1>12, <1>16, <2>5, <2>6, <2>7
  <2>8. CASE ~rest.neg
    BY <1>12, <1>17, <2>5, <2>6, <2>8
  <2>9. QED
    BY <2>7, <2>8
<1>25. Estimates'
  BY <1>2 DEF Estimates
<1>26. QED
  BY <1>21, <1>22, <1>23, <1>24, <1>25 DEF IInv

-----------------------------------------------------------------------------
(***************************************************************************)
(* The results.                                                            *)
(***************************************************************************)
(* A running remainder below the divisor, both normalised: the quotient is the *)
(* one rounded down, and undoing the shift gives its remainder.                *)
LEMMA Denormalised ==
  ASSUME NEW Q \in Nat, NEW m \in Nat, NEW a \in Nat, m <= a, NEW P \in Nat \ {0},
         NEW X \in Nat, IsDivision(a * P, m * P, Q, X)
  PROVE  X \div P \in Nat /\ Q # 0 /\ IsDivision(a, m, Q, X \div P)
<1>0. a * P = Q * (m * P) + X /\ X < m * P
  BY DEF IsDivision
<1>1. PICK e \in Int : e = a - Q * m
  OBVIOUS
<1>2. X = P * e + 0
  <2>1. P * (a - Q * m) = a * P - Q * (m * P)
    OBVIOUS
  <2>2. PICK b \in Int, d \in Int : b = a * P /\ d = Q * (m * P)
    OBVIOUS
  <2>3. QED
    BY <1>0, <1>1, <2>1, <2>2
<1>3. X \div P = e
  <2>1. X \in Int /\ 0 \in 0 .. P - 1
    OBVIOUS
  <2>2. QED
    BY <1>2, <2>1, DivModUnique
<1>4. e >= 0
  <2>1. ASSUME e <= -1 PROVE FALSE
    <3>1. P * e <= P * (-1)
      BY <2>1
    <3>2. QED
      BY <1>2, <3>1
  <2>2. QED
    BY <2>1
<1>5. e < m
  <2>1. ASSUME e >= m PROVE FALSE
    <3>1. P * e >= P * m /\ P * m = m * P
      BY <2>1
    <3>2. QED
      BY <1>0, <1>2, <3>1
  <2>2. QED
    BY <2>1
<1>6. Q # 0
  <2>1. ASSUME Q = 0 PROVE FALSE
    <3>1. e = a
      BY <1>1, <2>1
    <3>2. QED
      BY <1>5, <3>1
  <2>2. QED
    BY <2>1
<1>7. QED
  BY <1>1, <1>3, <1>4, <1>5, <1>6 DEF IsDivision

(* The numbers at the end of the digit loop. *)
LEMMA LoopEnds ==
  ASSUME IInv, pc = "digit", i <= t, ~zeroDigit
  PROVE  LET e == Magnitude(x) \div Pow2[normShift]
         IN  /\ e \in Nat /\ Magnitude(q) # 0
             /\ IsDivision(Magnitude(this), Magnitude(rhs), Magnitude(q), e)
<1>1. Digits /\ ~Estimating /\ pc # "done"
  BY DEF Digits, Estimating
<1>2. /\ Proper(x) /\ Safe(q) /\ Safe(this) /\ Safe(rhs) /\ i \in Nat /\ t \in Nat /\ t <= i
      /\ Computed * Scaled(rhs) + Value(x) = Scaled(this)
  BY <1>1, InDigitLoop DEF Proper
<1>3. PICK P \in Nat \ {0} : P = Pow2[normShift]
  <2>1. normShift \in Nat
    BY Named
  <2>2. QED
    BY <2>1, Pow2Unfold
<1>4. PICK Q \in Nat, m \in Nat, a \in Nat, X \in Nat :
        /\ Q = Magnitude(q) /\ m = Magnitude(rhs) /\ a = Magnitude(this) /\ X = Magnitude(x)
  BY <1>2, MagnitudeIsSum DEF Proper
<1>5. Scaled(rhs) = m * P /\ Scaled(this) = a * P
  BY <1>3, <1>4 DEF Scaled
<1>6. m <= a
  BY <1>1, <1>4 DEF IInv, Normalised, Digits, Dividing
<1>7. Value(x) = X /\ X < m * P
  <2>1. i - t = 0
    BY <1>2
  <2>2. Value(x) >= 0 /\ Value(x) < Scaled(rhs) * Weight(0)
    BY <1>1, <2>1 DEF IInv, Below
  <2>3. Value(x) = X
    BY <1>2, <1>4, <2>2, ProperValue
  <2>4. (m * P) * 1 = m * P
    OBVIOUS
  <2>5. QED
    BY <1>5, <2>2, <2>3, <2>4, Weights
<1>8. IsDivision(a * P, m * P, Q, X)
  <2>1. Computed = Q - 0 /\ Q - 0 = Q
    BY <1>1, <1>4 DEF Computed
  <2>2. Computed * (m * P) + X = a * P
    BY <1>2, <1>5, <1>7
  <2>3. a * P = Q * (m * P) + X
    BY <2>1, <2>2
  <2>4. QED
    BY <1>7, <2>3 DEF IsDivision
<1>9. X \div P \in Nat /\ Q # 0 /\ IsDivision(a, m, Q, X \div P)
  BY <1>6, <1>8, Denormalised
<1>10. QED
  BY <1>3, <1>4, <1>9

(* The quotient is clamped and signed, the remainder signed and shifted back. *)
LEMMA FinishKeeps ==
  ASSUME IInv, Finish
  PROVE  IInv'
<1> DEFINE s == x.used # 0 /\ this.neg
           z == [x EXCEPT !.neg = s]
           b == this.neg # rhs.neg
<1>1. /\ pc = "digit" /\ pc' = "return" /\ op' = op /\ this' = this /\ rhs' = rhs
      /\ x' = x /\ y' = y
      /\ normShift' = normShift /\ n' = n /\ t' = t /\ i' = i /\ zeroDigit' = zeroDigit
      /\ i <= t
  BY DEF Finish, Goto
<1>2. q' = [Clamp(q) EXCEPT !.neg = b] /\ r' = Assign(r, Shr(z, normShift))
  BY DEF Finish
<1>3. /\ Proper(rhs) /\ Proper(r) /\ Proper(x) /\ Proper(y) /\ Safe(q) /\ Proper(this)
      /\ Safe(r) /\ normShift \in Nat /\ this.neg \in BOOLEAN /\ rhs.neg \in BOOLEAN
  <2>1. /\ Proper(rhs) /\ Proper(r) /\ Proper(x) /\ Proper(y) /\ Safe(q) /\ Proper(this)
        /\ normShift \in Nat
    BY <1>1, Named
  <2>2. QED
    BY <2>1, ProperValue DEF Proper
<1>4. s \in BOOLEAN /\ b \in BOOLEAN /\ (~s \/ Magnitude(x) # 0)
  BY <1>3, ProperValue
<1>5. Proper(z) /\ z.neg = s /\ Magnitude(z) = Magnitude(x)
  BY <1>3, <1>4, SignedProper, SignedMagnitude DEF Proper
<1> HIDE DEF z, s, b
<1>6. /\ Proper(r')
      /\ Value(r') = Signed(z, Magnitude(x) \div Pow2[normShift])
  BY <1>2, <1>3, <1>5, ShrExact, AssignExact
<1>7. PICK v : v = Clamp(q)
  OBVIOUS
<1>8. Proper(v) /\ Magnitude(v) = Magnitude(q)
  BY <1>3, <1>7, ClampExact
<1>9. Safe(q')
  BY <1>2, <1>4, <1>7, <1>8, SignedSafe DEF Proper
<1>10. ASSUME ~zeroDigit PROVE Proper(q') /\ DivideExact'
  <2>1. PICK e \in Nat, Q \in Nat \ {0}, ma \in Nat, mb \in Nat \ {0} :
          /\ e = Magnitude(x) \div Pow2[normShift] /\ Q = Magnitude(q)
          /\ ma = Magnitude(this) /\ mb = Magnitude(rhs)
          /\ IsDivision(ma, mb, Q, e)
    <3>1. /\ Magnitude(this) \in Nat /\ Magnitude(rhs) \in Nat /\ Magnitude(q) \in Nat
      BY <1>3, MagnitudeIsSum DEF Proper
    <3>2. /\ Magnitude(x) \div Pow2[normShift] \in Nat /\ Magnitude(q) # 0
          /\ IsDivision(Magnitude(this), Magnitude(rhs), Magnitude(q),
                        Magnitude(x) \div Pow2[normShift])
      BY <1>1, <1>10, LoopEnds
    <3>3. Magnitude(rhs) # 0
      BY <3>1, <3>2 DEF IsDivision
    <3>4. QED
      BY <3>1, <3>2, <3>3
  <2>2. PICK f \in Int, g \in Int : f = Value(this) /\ g = Value(rhs)
    BY <1>3, ProperValue
  <2>3. ma = (IF f < 0 THEN -f ELSE f) /\ mb = (IF g < 0 THEN -g ELSE g)
    <3>1. ma = Magnitude(this) /\ mb = Magnitude(rhs)
      BY <2>1
    <3>2. ma = (IF f < 0 THEN -f ELSE f)
      BY <1>3, <2>2, <3>1, ProperValue
    <3>3. mb = (IF g < 0 THEN -g ELSE g)
      BY <1>3, <2>2, <3>1, ProperValue
    <3>4. QED
      BY <3>2, <3>3
  <2>4. (this.neg <=> f < 0) /\ (rhs.neg <=> g < 0)
    BY <1>3, <2>2, ProperValue
  <2>5. IsDivision(ma, mb, Q, e) /\ Q \in Nat
    BY <2>1
  <2>6. /\ (f < 0) # (g < 0) => Quot(f, g) = -Q
        /\ (f < 0) = (g < 0) => Quot(f, g) = Q
        /\ f < 0 => Rem(f, g) = -e
        /\ f >= 0 => Rem(f, g) = e
    BY <2>3, <2>5, QuotRem
  <2>7. Proper(q') /\ Value(q') = IF b THEN -Q ELSE Q
    BY <1>2, <1>4, <1>7, <1>8, <2>1, SignedProper
  <2>8. Value(q') = Quot(f, g)
    <3>1. b <=> ((f < 0) # (g < 0))
      BY <1>3, <2>4 DEF b
    <3>2. QED
      BY <2>6, <2>7, <3>1
  <2>9. Value(r') = Rem(f, g)
    <3>1. Value(r') = IF s THEN -e ELSE e
      BY <1>5, <1>6, <2>1 DEF Signed
    <3>2. CASE f >= 0
      <4>1. ~s
        BY <2>2, <2>4, <3>2 DEF s
      <4>2. QED
        BY <2>6, <3>1, <3>2, <4>1
    <3>3. CASE f < 0 /\ x.used # 0
      <4>1. s
        BY <2>2, <2>4, <3>3 DEF s
      <4>2. QED
        BY <2>6, <3>1, <3>3, <4>1
    <3>4. CASE f < 0 /\ x.used = 0
      <4>1. ~s
        BY <3>4 DEF s
      <4>2. e = 0
        <5>1. Magnitude(x) = 0
          BY <1>3, <3>4, ProperValue
        <5>2. PICK P \in Nat \ {0} : P = Pow2[normShift]
          BY <1>3, Pow2Unfold
        <5>3. 0 = P * 0 + 0 /\ 0 \in 0 .. P - 1 /\ 0 \in Int
          OBVIOUS
        <5>4. 0 \div P = 0
          BY <5>3, DivModUnique
        <5>5. QED
          BY <2>1, <5>1, <5>2, <5>4
      <4>3. \A u \in Nat : u <= 0 => -u = u
        OBVIOUS
      <4>4. e <= 0
        BY <4>2
      <4>5. -e = e
        BY <4>3, <4>4
      <4>6. Value(r') = e /\ Rem(f, g) = -e
        BY <2>6, <3>1, <3>4, <4>1
      <4>7. QED
        BY <4>5, <4>6
    <3>5. QED
      BY <2>2, <3>2, <3>3, <3>4
  <2>10. QED
    BY <1>1, <2>2, <2>7, <2>8, <2>9 DEF DivideExact
<1>11. Objects'
  BY <1>1, <1>3, <1>6, <1>9 DEF Objects, Proper
<1>12. Kinds' /\ Begun'
  BY <1>1, Zenon DEF IInv, Kinds, Begun
<1>13. Results'
  BY <1>1, <1>10 DEF Results
<1>14. QED
  BY <1>1, <1>11, <1>12, <1>13 DEF IInv, Normalised, Position, Unset, Identity, Below,
                                   Estimates, Dividing, Digits, Estimating

(* The result is copied to *this. *)
LEMMA ReturnKeeps ==
  ASSUME IInv, Return
  PROVE  IInv'
<1>1. /\ pc = "return" /\ pc' = "done" /\ op' = op /\ rhs' = rhs
      /\ q' = q /\ r' = r /\ x' = x /\ y' = y
      /\ normShift' = normShift /\ n' = n /\ t' = t /\ i' = i /\ zeroDigit' = zeroDigit
  BY DEF Return, Goto
<1>2. /\ Proper(rhs) /\ Proper(r) /\ Proper(x) /\ Proper(y) /\ Safe(q) /\ Safe(this)
      /\ Safe(rhs) /\ Safe(r)
  BY Named DEF Proper
<1>3. Safe(this')
  <2>1. PICK v : v = (IF r.neg THEN AddEq(r, rhs) ELSE r)
    OBVIOUS
  <2>2. Safe(v)
    BY <1>2, <2>1, AddEqSafe
  <2>3. this' = Assign(this, IF op = "mod" THEN v ELSE q)
    BY <2>1 DEF Return
  <2>4. QED
    BY <1>2, <2>2, <2>3, AssignSafe
<1>4. Objects'
  BY <1>1, <1>2, <1>3 DEF Objects
<1>5. Kinds' /\ Begun'
  BY <1>1, Zenon DEF IInv, Kinds, Begun
<1>6. QED
  BY <1>1, <1>4, <1>5 DEF IInv, Normalised, Position, Unset, Identity, Below,
                          Estimates, Results, Dividing, Digits, Estimating

(* Nothing else changes the state. *)
LEMMA NextKeeps ==
  ASSUME IInv, [Next]_vars
  PROVE  IInv'
<1>1. CASE UNCHANGED vars
  BY <1>1 DEF IInv, Objects, Kinds, Begun, Normalised, Position, Unset, Identity, Below,
              Estimates, Results, Dividing, Digits, Estimating, Computed, Candidate, Unit,
              Scaled, DivideExact, Qhat, vars
<1>2. CASE Step
  BY <1>2, ThrowKeeps, DividendSmallerKeeps, SetupKeeps, SubtractLeadingKeeps,
     LeadingFoundKeeps, SkipDigitKeeps, EstimateKeeps, CorrectKeeps,
     SubtractMultipleKeeps, FinishKeeps, ReturnKeeps DEF Step
<1>3. QED
  BY <1>1, <1>2 DEF Next, Stopped

-----------------------------------------------------------------------------
(***************************************************************************)
(* The theorems.                                                           *)
(***************************************************************************)
(* The invariant, of every call. *)
THEOREM Invariant == Spec => []IInv
<1>1. Init => IInv
  BY InitIInv
<1>2. IInv /\ [Next]_vars => IInv'
  BY NextKeeps
<1>3. QED
  BY <1>1, <1>2, PTL DEF Spec

(* Whatever the operands and however wrong an estimate, divide reads and writes *)
(* within the six vectors: the counts of digits in use stay within them, every  *)
(* word is a digit, and the indices are never negative.                         *)
THEOREM TypeCorrect == Spec => []TypeOK
<1>1. ASSUME IInv PROVE TypeOK
  <2>1. /\ Safe(this) /\ Safe(rhs) /\ Safe(q) /\ Safe(r) /\ Safe(x) /\ Safe(y)
        /\ normShift \in Nat /\ n \in Nat /\ t \in Nat /\ i \in Nat
    BY <1>1, Named DEF Proper
  <2>2. \A v \in {this, rhs, q, r, x, y} : IsNumber(v) /\ v.used <= v.size
    BY <2>1 DEF Safe, UsedInVector
  <2>3. {normShift, n, t, i} \subseteq Nat
    BY <2>1
  <2>4. /\ op \in Operators /\ zeroDigit \in BOOLEAN
        /\ pc \in {"call", "threw", "leading", "digit", "correct", "subtract",
                   "return", "done"}
    BY <1>1 DEF IInv, Kinds
  <2>5. QED
    BY <2>2, <2>3, <2>4, Zenon DEF TypeOK
<1>2. QED
  BY <1>1, Invariant, PTL

(* quotient * divisor + remainder is the dividend at the head of both loops, *)
(* also of a call whose estimates are wrong: the quotient digit always moves *)
(* with the running remainder.                                               *)
THEOREM LoopIdentityHolds == Spec => []LoopIdentity
<1>1. ASSUME IInv PROVE LoopIdentity
  <2>1. SUFFICES ASSUME pc \in {"leading", "digit"}
                 PROVE  Magnitude(q) * Scaled(rhs) + Value(x) = Scaled(this)
    BY DEF LoopIdentity
  <2>2. Computed * Scaled(rhs) + Value(x) = Scaled(this)
    BY <1>1, <2>1 DEF IInv, Identity, Dividing
  <2>3. PICK Q \in Nat : Q = Magnitude(q)
    BY <1>1, Named
  <2>4. Computed = Q - 0
    BY <2>1, <2>3 DEF Computed, Estimating
  <2>5. Q - 0 = Q
    OBVIOUS
  <2>6. QED
    BY <2>2, <2>3, <2>4, <2>5
<1>2. QED
  BY <1>1, Invariant, PTL

(* The running remainder stays below one unit of the quotient digit last *)
(* computed, in every call that estimates from no zero digit.            *)
THEOREM RemainderStaysBelow == Spec => []RemainderBelowDivisor
<1>1. ASSUME IInv PROVE RemainderBelowDivisor
  <2>1. SUFFICES ASSUME pc = "digit", ~zeroDigit
                 PROVE  ~x.neg /\ Magnitude(x) < Scaled(rhs) * Pow2[DigitBits * (i - t)]
    BY DEF RemainderBelowDivisor
  <2>2. Value(x) >= 0 /\ Value(x) < Scaled(rhs) * Weight(i - t)
    BY <1>1, <2>1 DEF IInv, Below, Digits
  <2>3. Proper(x)
    BY <1>1, Named
  <2>4. ~x.neg /\ Value(x) = Magnitude(x)
    BY <2>2, <2>3, ProperValue
  <2>5. QED
    BY <2>2, <2>4 DEF Weight
<1>2. QED
  BY <1>1, Invariant, PTL

(* The correction leaves the quotient digit or one more, so that one divisor *)
(* added back is enough, of a divisor that was not normalised too.           *)
THEOREM EstimateIsClose == Spec => []EstimateAtMostOneTooLarge
<1>1. ASSUME IInv PROVE EstimateAtMostOneTooLarge
  <2>1. SUFFICES ASSUME pc = "subtract", ~zeroDigit
                 PROVE  Magnitude(x) \div Unit \in {Qhat, Qhat - 1}
    <3>1. Unit = Scaled(rhs) * Pow2[DigitBits * (i - t - 1)]
      BY DEF Unit, Weight
    <3>2. QED
      BY <2>1, <3>1, Zenon DEF EstimateAtMostOneTooLarge
  <2>2. Digits /\ Estimating /\ i > t
    BY <1>1, <2>1 DEF IInv, Position, Digits, Estimating
  <2>3. /\ Magnitude(x) \div Unit <= Qhat
        /\ Qhat <= (Magnitude(x) \div Unit) + 1
    BY <1>1, <2>1, <2>2 DEF IInv, Estimates, Candidate
  <2>4. PICK d \in Int : d = Magnitude(x) \div Unit
    <3>1. Magnitude(x) \div Unit \in 0 .. DigitRadix - 1
      BY <1>1, <2>1, <2>2, RunningRemainder
    <3>2. QED
      BY <3>1, RadixPositive
  <2>5. PICK c \in Int : c = Qhat
    <3>1. 0 \in Int
      OBVIOUS
    <3>2. Qhat \in Digit
      BY <1>1, <2>2, <3>1, QhatSet
    <3>3. QED
      BY <3>2, RadixPositive DEF Digit
  <2>6. d <= c /\ c <= d + 1
    BY <2>3, <2>4, <2>5
  <2>7. d \in {c, c - 1}
    BY <2>6
  <2>8. QED
    BY <2>4, <2>5, <2>7
<1>2. QED
  BY <1>1, Invariant, PTL

(* Quotient and remainder are those of truncated division, with any signs, and *)
(* in the form the other operations expect, of every call that estimates from  *)
(* no zero digit.                                                              *)
THEOREM DivisionExact == Spec => []DivideExactUnlessZeroDigit
<1>1. ASSUME IInv PROVE DivideExactUnlessZeroDigit
  <2>1. CASE ~zeroDigit /\ pc = "return"
    <3>1. Proper(q) /\ Proper(r) /\ DivideExact
      BY <1>1, <2>1, Named DEF IInv, Results
    <3>2. ASSUME NEW v \in {q, r}
          PROVE  /\ v.used > 0 => v.dig[v.used - 1] # 0
                 /\ v.used = 0 => ~v.neg
                 /\ \A j \in v.used .. v.size - 1 : v.dig[j] = 0
      BY <3>1, <3>2 DEF Proper, Safe, ClearAboveUsed, LeadingNonzero, ZeroNonnegative, IsZero
    <3>3. QED
      BY <3>1, <3>2, Zenon DEF DivideExactUnlessZeroDigit
  <2>2. CASE zeroDigit \/ pc # "return"
    BY <2>2, Zenon DEF DivideExactUnlessZeroDigit, DivideExact
  <2>3. QED
    BY <1>1, <2>1, <2>2 DEF IInv, Kinds
<1>2. QED
  BY <1>1, Invariant, PTL

(* The remainder of truncated division, made nonnegative by adding the modulus. *)
LEMMA RemainderReduced ==
  ASSUME NEW a \in Int, NEW b \in Nat \ {0}
  PROVE  /\ Rem(a, b) \in Int
         /\ a % b = IF Rem(a, b) < 0 THEN Rem(a, b) + b ELSE Rem(a, b)
<1>1. PICK ma \in Nat : ma = (IF a < 0 THEN -a ELSE a)
  OBVIOUS
<1>2. b = (IF b < 0 THEN -b ELSE b) /\ b \in Int
  OBVIOUS
<1>3. PICK k \in Nat, e \in Nat : IsDivision(ma, b, k, e)
  <2>0. ma \in Int
    OBVIOUS
  <2>1. PICK k \in Int, e \in Int : k = ma \div b /\ e = ma % b
    <3>1. ma \div b \in Int /\ ma % b \in 0 .. b - 1
      BY <2>0, DivMod
    <3>2. QED
      BY <3>1
  <2>2. e \in 0 .. b - 1 /\ ma = b * k + e
    BY <2>0, <2>1, DivMod
  <2>3. ma \div b \in Nat
    BY QuotientIsDiv
  <2>4. b * k = k * b
    BY <2>1
  <2>5. QED
    BY <2>1, <2>2, <2>3, <2>4 DEF IsDivision
<1>4. /\ (a < 0) # (b < 0) => Quot(a, b) = -k
      /\ (a < 0) = (b < 0) => Quot(a, b) = k
      /\ a < 0 => Rem(a, b) = -e
      /\ a >= 0 => Rem(a, b) = e
  BY <1>1, <1>2, <1>3, QuotRem
<1>5. ma = k * b + e /\ e < b
  BY <1>3 DEF IsDivision
<1>6. CASE a >= 0
  <2>1. a = b * k + e
    BY <1>1, <1>5, <1>6
  <2>2. a % b = e
    BY <1>5, <2>1, DivModUnique
  <2>3. QED
    BY <1>4, <1>6, <2>2
<1>7. CASE a < 0
  <2>1. a = -(k * b) - e
    BY <1>1, <1>5, <1>7
  <2>2. CASE e = 0
    <3>1. a = b * (-k) + 0
      BY <2>1, <2>2
    <3>2. a % b = 0
      BY <3>1, DivModUnique
    <3>3. \A u \in Nat : u <= 0 => -u = u
      OBVIOUS
    <3>4. e <= 0
      BY <2>2
    <3>5. -e = e
      BY <3>3, <3>4
    <3>6. QED
      BY <1>4, <1>7, <2>2, <3>2, <3>5
  <2>3. CASE e > 0
    <3>1. PICK j \in Int, f \in Int : j = -k - 1 /\ f = b - e
      OBVIOUS
    <3>2. b * (-k - 1) = -(k * b) - b
      OBVIOUS
    <3>3. a = b * j + f /\ 0 <= f /\ f < b
      BY <1>5, <2>1, <2>3, <3>1, <3>2
    <3>4. a % b = f
      BY <3>3, DivModUnique
    <3>5. QED
      BY <1>4, <1>7, <2>3, <3>1, <3>4
  <2>4. QED
    BY <2>2, <2>3
<1>8. QED
  BY <1>6, <1>7

(* mod by a positive modulus gives the least nonnegative residue, of a negative *)
(* number too, of every call that estimates from no zero digit.                 *)
THEOREM ModReducesHolds == Spec => ModReduces
<1>1. ASSUME IInv, [Next]_vars
      PROVE  [pc' = "done" /\ op = "mod" /\ ~zeroDigit /\ ~rhs.neg
                => Value(this') = Value(this) % Value(rhs)]_vars
  <2>1. SUFFICES ASSUME Step, pc' = "done", op = "mod", ~zeroDigit, ~rhs.neg
                 PROVE  Value(this') = Value(this) % Value(rhs)
    BY <1>1 DEF Next, Stopped
  <2>2. Return
    BY <2>1 DEF Step, Throw, DividendSmaller, Setup, SubtractLeading, LeadingFound,
                SkipDigit, Estimate, Correct, SubtractMultiple, Finish, Goto
  <2>3. pc = "return"
    BY <2>2 DEF Return, Goto
  <2>4. /\ Proper(this) /\ Proper(rhs) /\ Proper(r) /\ Safe(this) /\ DivideExact
        /\ ~IsZero(rhs)
    BY <1>1, <2>1, <2>3, Named DEF IInv, Begun, Results
  <2>5. PICK a \in Int, e \in Int : a = Value(this) /\ e = Value(r)
    BY <2>4, ProperValue
  <2>6. PICK b \in Nat \ {0} : b = Value(rhs)
    <3>1. Value(rhs) \in Int /\ Value(rhs) >= 0 /\ Value(rhs) # 0
      BY <2>1, <2>4, ProperValue DEF IsZero
    <3>2. QED
      BY <3>1
  <2>7. e = Rem(a, b)
    BY <2>3, <2>4, <2>5, <2>6 DEF DivideExact
  <2>8. a % b = IF e < 0 THEN e + b ELSE e
    BY <2>7, RemainderReduced
  <2>9. PICK v : v = (IF r.neg THEN AddEq(r, rhs) ELSE r)
    OBVIOUS
  <2>10. Proper(v) /\ Value(v) = a % b
    <3>1. r.neg <=> e < 0
      BY <2>4, <2>5, ProperValue
    <3>2. Proper(AddEq(r, rhs)) /\ Value(AddEq(r, rhs)) = e + b
      BY <2>4, <2>5, <2>6, AddExact
    <3>3. QED
      BY <2>4, <2>5, <2>8, <2>9, <3>1, <3>2
  <2>11. this' = Assign(this, v)
    BY <2>1, <2>2, <2>9 DEF Return
  <2>12. Value(this') = a % b
    BY <2>4, <2>10, <2>11, AssignExact
  <2>13. QED
    BY <2>5, <2>6, <2>12
<1>2. QED
  BY <1>1, Invariant, PTL DEF Spec, ModReduces

=============================================================================
