-------------------------- MODULE RsaBlocksProofs ---------------------------
(***************************************************************************)
(* Proofs about RsaBlocks, for every width of digits and bytes, every      *)
(* base capacity, all RSA keys, messages and sizes of the buffers: neither *)
(* call writes behind its buffer, the cipher text is the powers of the     *)
(* blocks, and what is decrypted is the blocks without their leading zero  *)
(* bytes.  In three parts: what a write and a slice of a buffer are, what  *)
(* an exponentiation, a block and its bytes are as numbers, and the        *)
(* invariant that counts the blocks of both calls.                         *)
(***************************************************************************)
EXTENDS RsaBlocks, BigNumArithProofs, SequenceTheorems

(***************************************************************************)
(* Buffers.                                                                *)
(***************************************************************************)
(* What a slice of a buffer is. *)
IsSlice(slice, buffer, at, count) ==
  Len(slice) = count /\ \A i \in 1 .. count : slice[i] = buffer[at + i]

(* A slice inside a buffer is its bytes. *)
LEMMA SliceExact ==
  ASSUME NEW S, NEW buffer \in Seq(S), NEW at \in Nat, NEW count \in Nat,
         at + count <= Len(buffer)
  PROVE  /\ Slice(buffer, at, count) \in Seq(S)
         /\ IsSlice(Slice(buffer, at, count), buffer, at, count)
<1> DEFINE m == at + 1
           n == at + count
<1>1. m \in Int /\ n \in Int /\ n - m + 1 = count
  OBVIOUS
<1>2. \A i \in m .. n : buffer[i] \in S
  OBVIOUS
<1>3. /\ SubSeq(buffer, m, n) \in Seq(S)
      /\ Len(SubSeq(buffer, m, n)) = IF m <= n THEN n - m + 1 ELSE 0
      /\ \A i \in 1 .. n - m + 1 : SubSeq(buffer, m, n)[i] = buffer[m + i - 1]
  BY <1>1, <1>2, SubSeqProperties
<1>4. Slice(buffer, at, count) = SubSeq(buffer, m, n)
  BY DEF Slice
<1>5. QED
  BY <1>1, <1>3, <1>4 DEF IsSlice

(* A write that ends inside its buffer keeps the size and the other bytes. *)
LEMMA WriteExact ==
  ASSUME NEW S, NEW buffer \in Seq(S), NEW at \in Nat, NEW bytes \in Seq(S),
         at + Len(bytes) <= Len(buffer)
  PROVE  /\ Write(buffer, at, bytes) \in Seq(S)
         /\ Len(Write(buffer, at, bytes)) = Len(buffer)
         /\ \A k \in 1 .. Len(buffer) :
              Write(buffer, at, bytes)[k] =
                IF at < k /\ k <= at + Len(bytes) THEN bytes[k - at] ELSE buffer[k]
<1>1. Len(buffer) \in Nat /\ Len(bytes) \in Nat
  OBVIOUS
<1>2. Larger(Len(buffer), at + Len(bytes)) = Len(buffer)
  BY <1>1 DEF Larger
<1> DEFINE w == [k \in 1 .. Len(buffer) |->
                   IF at < k /\ k <= at + Len(bytes) THEN bytes[k - at] ELSE buffer[k]]
<1>3. Write(buffer, at, bytes) = w
  BY <1>2 DEF Write
<1>4. w \in Seq(S) /\ Len(w) = Len(buffer)
  BY <1>1
<1>5. QED
  BY <1>3, <1>4

(* The slice just written is what was written. *)
LEMMA SliceWritten ==
  ASSUME NEW S, NEW buffer \in Seq(S), NEW at \in Nat, NEW bytes \in Seq(S),
         NEW count \in Nat, Len(bytes) = count, at + count <= Len(buffer)
  PROVE  Slice(Write(buffer, at, bytes), at, count) = bytes
<1> DEFINE w == Write(buffer, at, bytes)
<1>1. /\ w \in Seq(S) /\ Len(w) = Len(buffer)
      /\ \A k \in 1 .. Len(buffer) :
           w[k] = IF at < k /\ k <= at + Len(bytes) THEN bytes[k - at] ELSE buffer[k]
  BY WriteExact
<1> HIDE DEF w
<1>2. Slice(w, at, count) \in Seq(S) /\ IsSlice(Slice(w, at, count), w, at, count)
  <2>1. at + count <= Len(w) /\ w \in Seq(S)
    BY <1>1
  <2>2. QED
    BY <2>1, SliceExact
<1>3. \A i \in 1 .. count : w[at + i] = bytes[i]
  <2>1. TAKE i \in 1 .. count
  <2>2. at + i \in 1 .. Len(buffer) /\ at < at + i /\ at + i <= at + count
        /\ at + i - at = i
    OBVIOUS
  <2>3. QED
    BY <1>1, <2>2
<1>4. Slice(w, at, count) = bytes
  BY <1>2, <1>3, SeqEqual DEF IsSlice
<1>5. QED
  BY <1>4 DEF w

(* A slice that lies before what is written stays. *)
LEMMA SliceKept ==
  ASSUME NEW S, NEW buffer \in Seq(S), NEW at \in Nat, NEW bytes \in Seq(S),
         at + Len(bytes) <= Len(buffer),
         NEW from \in Nat, NEW count \in Nat, from + count <= at
  PROVE  Slice(Write(buffer, at, bytes), from, count) = Slice(buffer, from, count)
<1> DEFINE w == Write(buffer, at, bytes)
<1>1. /\ w \in Seq(S) /\ Len(w) = Len(buffer) /\ Len(bytes) \in Nat
      /\ Len(buffer) \in Nat
      /\ \A k \in 1 .. Len(buffer) :
           w[k] = IF at < k /\ k <= at + Len(bytes) THEN bytes[k - at] ELSE buffer[k]
  BY WriteExact
<1> HIDE DEF w
<1>2. from + count <= Len(w) /\ from + count <= Len(buffer) /\ w \in Seq(S)
  BY <1>1
<1>3. /\ Slice(w, from, count) \in Seq(S)
      /\ IsSlice(Slice(w, from, count), w, from, count)
  BY <1>2, SliceExact
<1>4. /\ Slice(buffer, from, count) \in Seq(S)
      /\ IsSlice(Slice(buffer, from, count), buffer, from, count)
  BY <1>2, SliceExact
<1>5. Slice(w, from, count) = Slice(buffer, from, count)
  <2>1. \A i \in 1 .. count : w[from + i] = buffer[from + i]
    <3>1. TAKE i \in 1 .. count
    <3>2. from + i \in 1 .. Len(buffer) /\ ~(at < from + i)
      BY <1>1
    <3>3. QED
      BY <1>1, <3>2
  <2>2. QED
    BY <1>3, <1>4, <2>1, SeqEqual DEF IsSlice
<1>6. QED
  BY <1>5 DEF w

(* What follows the start of a buffer is added to it by a write. *)
LEMMA StartWritten ==
  ASSUME NEW S, NEW buffer \in Seq(S), NEW at \in Nat, NEW bytes \in Seq(S),
         at + Len(bytes) <= Len(buffer)
  PROVE  SubSeq(Write(buffer, at, bytes), 1, at + Len(bytes))
           = SubSeq(buffer, 1, at) \o bytes
<1> DEFINE w == Write(buffer, at, bytes)
           n == Len(bytes)
<1>1. /\ w \in Seq(S) /\ Len(w) = Len(buffer) /\ n \in Nat
      /\ Len(buffer) \in Nat
      /\ \A k \in 1 .. Len(buffer) :
           w[k] = IF at < k /\ k <= at + n THEN bytes[k - at] ELSE buffer[k]
  BY WriteExact
<1> HIDE DEF w
<1>2. \A s : SubSeq(s, 1, at + n) = Slice(s, 0, at + n) /\ SubSeq(s, 1, at) = Slice(s, 0, at)
  BY <1>1 DEF Slice
<1>3. 0 \in Nat /\ at + n \in Nat /\ 0 + (at + n) <= Len(w) /\ 0 + at <= Len(buffer)
  BY <1>1
<1>4. /\ Slice(w, 0, at + n) \in Seq(S) /\ Len(Slice(w, 0, at + n)) = at + n
      /\ \A i \in 1 .. at + n : Slice(w, 0, at + n)[i] = w[0 + i]
  <2>1. w \in Seq(S)
    BY <1>1
  <2>2. QED
    BY <2>1, <1>3, SliceExact DEF IsSlice
<1>5. /\ Slice(buffer, 0, at) \in Seq(S) /\ Len(Slice(buffer, 0, at)) = at
      /\ \A i \in 1 .. at : Slice(buffer, 0, at)[i] = buffer[0 + i]
  BY <1>3, SliceExact DEF IsSlice
<1> DEFINE c == Slice(buffer, 0, at) \o bytes
<1>6. /\ c \in Seq(S) /\ Len(c) = at + n
      /\ \A i \in 1 .. at + n :
           c[i] = IF i <= at THEN Slice(buffer, 0, at)[i] ELSE bytes[i - at]
  <2>1. PICK start : start = Slice(buffer, 0, at)
    OBVIOUS
  <2>2. start \in Seq(S) /\ Len(start) = at
    BY <1>5, <2>1
  <2>3. /\ start \o bytes \in Seq(S)
        /\ Len(start \o bytes) = Len(start) + Len(bytes)
        /\ \A i \in 1 .. Len(start) + Len(bytes) :
             (start \o bytes)[i]
               = IF i <= Len(start) THEN start[i] ELSE bytes[i - Len(start)]
    BY <2>2, ConcatProperties
  <2>4. QED
    BY <2>1, <2>2, <2>3
<1>7. \A i \in 1 .. at + n : Slice(w, 0, at + n)[i] = c[i]
  <2>1. TAKE i \in 1 .. at + n
  <2>2. Slice(w, 0, at + n)[i] = w[i] /\ i \in 1 .. Len(buffer) /\ i \in Nat
    BY <1>1, <1>3, <1>4
  <2>3. CASE i <= at
    BY <1>1, <1>5, <1>6, <2>2, <2>3
  <2>4. CASE ~(i <= at)
    BY <1>1, <1>6, <2>2, <2>4
  <2>5. QED
    BY <2>3, <2>4
<1> HIDE DEF c
<1>8. Slice(w, 0, at + n) = c
  BY <1>4, <1>6, <1>7, SeqEqual
<1>9. QED
  BY <1>2, <1>8 DEF w, c

-----------------------------------------------------------------------------
(* The recursion of FlattenSeq, and what it computes for the first i of the *)
(* sequences.                                                               *)
FlattenBody(seqs, g) ==
  [i \in 1 .. Len(seqs) |-> IF i = 1 THEN seqs[i] ELSE g[i - 1] \o seqs[i]]

Flattens(seqs, S, f) ==
  /\ f[0] = <<>>
  /\ \A i \in 0 .. Len(seqs) : f[i] \in Seq(S)
  /\ \A i \in 1 .. Len(seqs) : f[i] = f[i - 1] \o seqs[i]

(* Whatever flattens the sequences one by one ends with what FlattenSeq has. *)
LEMMA FlattenIs ==
  ASSUME NEW S, NEW seqs \in Seq(Seq(S)), NEW f, Flattens(seqs, S, f)
  PROVE  FlattenSeq(seqs) = f[Len(seqs)]
<1> DEFINE m == Len(seqs)
           c == CHOOSE g : g = FlattenBody(seqs, g)
           h == [i \in 1 .. m |-> f[i]]
<1>1. m \in Nat /\ \A i \in 1 .. m : seqs[i] \in Seq(S)
  OBVIOUS
<1>2. m # 0 => FlattenSeq(seqs) = c[m]
  BY DEF FlattenSeq, FlattenBody
<1>3. CASE m = 0
  <2>1. FlattenSeq(seqs) = seqs
    BY <1>3 DEF FlattenSeq
  <2>2. seqs = <<>>
    BY <1>3
  <2>3. QED
    BY <1>3, <2>1, <2>2 DEF Flattens
<1>4. CASE m # 0
  <2>1. h = FlattenBody(seqs, h)
    <3>1. ASSUME NEW i \in 1 .. m
          PROVE  f[i] = IF i = 1 THEN seqs[i] ELSE h[i - 1] \o seqs[i]
      <4>1. f[i] = f[i - 1] \o seqs[i]
        BY <3>1 DEF Flattens
      <4>2. CASE i = 1
        <5>1. f[i - 1] = <<>>
          BY <4>2 DEF Flattens
        <5>2. <<>> \o seqs[i] = seqs[i]
          BY <1>1, ConcatEmptySeq
        <5>3. QED
          BY <4>1, <4>2, <5>1, <5>2
      <4>3. CASE i # 1
        <5>1. i - 1 \in 1 .. m
          BY <1>1, <4>3
        <5>2. QED
          BY <4>1, <4>3, <5>1
      <4>4. QED
        BY <4>2, <4>3
    <3>2. QED
      BY <3>1 DEF FlattenBody
  <2>2. c = FlattenBody(seqs, c)
    <3> HIDE DEF h
    <3>1. QED
      BY <2>1
  <2> HIDE DEF c, h, m
  <2>3. \A i \in 1 .. m : c[i] = IF i = 1 THEN seqs[i] ELSE c[i - 1] \o seqs[i]
    BY <2>2 DEF FlattenBody, m
  <2> DEFINE T == {k \in Nat : k + 1 <= m => c[k + 1] = f[k + 1]}
  <2>4. 0 \in T
    <3>1. SUFFICES ASSUME 1 <= m PROVE c[1] = f[1]
      OBVIOUS
    <3>2. 1 \in 1 .. m
      BY <1>1, <3>1 DEF m
    <3>3. f[1] = <<>> \o seqs[1]
      <4>1. f[1] = f[1 - 1] \o seqs[1] /\ f[0] = <<>>
        BY <3>2 DEF Flattens, m
      <4>2. 1 - 1 = 0
        OBVIOUS
      <4>3. QED
        BY <4>1, <4>2
    <3>4. <<>> \o seqs[1] = seqs[1]
      BY <1>1, <3>2, ConcatEmptySeq
    <3>5. QED
      BY <2>3, <3>2, <3>3, <3>4
  <2>5. ASSUME NEW k \in T PROVE k + 1 \in T
    <3>1. SUFFICES ASSUME k + 2 <= m PROVE c[k + 2] = f[k + 2]
      BY <2>5
    <3>2. /\ k \in Nat /\ k + 2 \in 1 .. m /\ k + 2 # 1 /\ (k + 2) - 1 = k + 1
          /\ k + 1 <= m
      BY <1>1, <3>1 DEF m
    <3>3. c[k + 2] = c[k + 1] \o seqs[k + 2]
      BY <2>3, <3>2
    <3>4. f[k + 2] = f[k + 1] \o seqs[k + 2]
      BY <3>2 DEF Flattens, m
    <3>5. QED
      BY <2>5, <3>2, <3>3, <3>4
  <2> HIDE DEF T
  <2>6. T = Nat
    <3>1. T \in SUBSET Nat
      BY DEF T
    <3>2. QED
      BY <2>4, <2>5, <3>1, SetInduction
  <2>7. PICK k \in Nat : k + 1 = m
    <3>1. m \in Nat
      BY <1>1 DEF m
    <3>2. m - 1 \in Nat /\ (m - 1) + 1 = m
      BY <1>4, <3>1
    <3>3. QED
      BY <3>2
  <2>8. c[m] = f[m]
    <3>1. m \in Nat /\ k \in T
      BY <1>1, <2>6 DEF m
    <3>2. c[k + 1] = f[k + 1]
      BY <2>7, <3>1 DEF T
    <3>3. QED
      BY <2>7, <3>2
  <2>9. QED
    BY <1>2, <1>4, <2>8 DEF c, m
<1>5. QED
  BY <1>3, <1>4

(* There is such a function. *)
LEMMA FlattensExists ==
  ASSUME NEW S, NEW seqs \in Seq(Seq(S))
  PROVE  \E f : Flattens(seqs, S, f)
<1> DEFINE m == Len(seqs)
           step == [p \in (0 .. m - 1) \X Seq(S) |-> p[2] \o seqs[p[1] + 1]]
<1>1. m \in Nat /\ \A i \in 1 .. m : seqs[i] \in Seq(S)
  OBVIOUS
<1> HIDE DEF m
<1>2. ASSUME NEW p \in (0 .. m - 1) \X Seq(S) PROVE p[2] \o seqs[p[1] + 1] \in Seq(S)
  <2>1. p[2] \in Seq(S) /\ seqs[p[1] + 1] \in Seq(S)
    BY <1>1
  <2>2. QED
    BY <2>1, ConcatProperties
<1>3. step \in [(0 .. m - 1) \X Seq(S) -> Seq(S)]
  BY <1>2
<1>4. <<>> \in Seq(S)
  OBVIOUS
<1>0. PICK V, base : V = Seq(S) /\ base = <<>>
  OBVIOUS
<1>5. PICK f : SolvesUpTo(m, V, base, step, f)
  <2> HIDE DEF step
  <2>2. m \in Nat /\ base \in V /\ step \in [(0 .. m - 1) \X V -> V]
    BY <1>0, <1>1, <1>3, <1>4
  <2>3. QED
    BY <2>2, BoundedRecursionSolves
<1>6. f \in [0 .. m -> Seq(S)] /\ f[0] = <<>>
  <2>1. f \in [0 .. m -> V]
    BY <1>5 DEF SolvesUpTo
  <2>2. f[0] = base
    <3>1. 0 \in 0 .. m
      BY <1>1
    <3>2. QED
      BY <1>5, <3>1 DEF SolvesUpTo
  <2>3. QED
    BY <1>0, <2>1, <2>2
<1>7. ASSUME NEW i \in 1 .. m PROVE f[i] = f[i - 1] \o seqs[i]
  <2>1. i \in 0 .. m /\ i # 0 /\ i - 1 \in 0 .. m - 1 /\ i - 1 \in 0 .. m /\ (i - 1) + 1 = i
    BY <1>1
  <2>2. f[i] = step[<<i - 1, f[i - 1]>>]
    BY <1>5, <2>1 DEF SolvesUpTo
  <2>3. f[i - 1] \in Seq(S)
    BY <1>6, <2>1
  <2> DEFINE e == <<i - 1, f[i - 1]>>
  <2>4. e \in (0 .. m - 1) \X Seq(S) /\ e[1] = i - 1 /\ e[2] = f[i - 1]
    BY <2>1, <2>3
  <2> HIDE DEF e
  <2>5. step[e] = e[2] \o seqs[e[1] + 1]
    BY <2>4
  <2>6. QED
    BY <2>1, <2>2, <2>4, <2>5 DEF e
<1>8. QED
  BY <1>6, <1>7 DEF Flattens, m

(* A sequence of sequences with one more is flattened by appending it. *)
LEMMA FlattenAppend ==
  ASSUME NEW S, NEW m \in Nat, NEW seqs \in [1 .. m + 1 -> Seq(S)],
         NEW start, start = [i \in 1 .. m |-> seqs[i]]
  PROVE  /\ FlattenSeq(start) \in Seq(S)
         /\ FlattenSeq(seqs) = FlattenSeq(start) \o seqs[m + 1]
<1>1. /\ seqs \in Seq(Seq(S)) /\ Len(seqs) = m + 1
      /\ start \in Seq(Seq(S)) /\ Len(start) = m
  OBVIOUS
<1>2. PICK f : Flattens(seqs, S, f)
  BY <1>1, FlattensExists
<1>3. Flattens(start, S, f)
  <2>1. /\ f[0] = <<>>
        /\ \A i \in 0 .. m + 1 : f[i] \in Seq(S)
        /\ \A i \in 1 .. m + 1 : f[i] = f[i - 1] \o seqs[i]
    BY <1>1, <1>2 DEF Flattens
  <2>2. \A i \in 0 .. m : f[i] \in Seq(S)
    BY <2>1
  <2>3. \A i \in 1 .. m : i \in 1 .. m + 1 /\ start[i] = seqs[i]
    OBVIOUS
  <2>4. QED
    BY <1>1, <2>1, <2>2, <2>3 DEF Flattens
<1>4. FlattenSeq(seqs) = f[m + 1] /\ FlattenSeq(start) = f[m]
  BY <1>1, <1>2, <1>3, FlattenIs
<1>5. f[m + 1] = f[m] \o seqs[m + 1] /\ f[m] \in Seq(S)
  <2>1. /\ \A i \in 0 .. m + 1 : f[i] \in Seq(S)
        /\ \A i \in 1 .. m + 1 : f[i] = f[i - 1] \o seqs[i]
    BY <1>1, <1>2 DEF Flattens
  <2>2. m + 1 \in 1 .. m + 1 /\ m \in 0 .. m + 1 /\ (m + 1) - 1 = m
    OBVIOUS
  <2>3. QED
    BY <2>1, <2>2
<1>6. QED
  BY <1>4, <1>5

(* Nothing flattens to nothing. *)
LEMMA FlattenEmpty ==
  ASSUME NEW seqs, Len(seqs) = 0
  PROVE  FlattenSeq(seqs) = seqs
BY DEF FlattenSeq

-----------------------------------------------------------------------------
(***************************************************************************)
(* Powers.                                                                 *)
(***************************************************************************)
(* The recursion of PowerMod and of Exponentiation, from whatever they begin *)
(* with.                                                                     *)
PowerFrom(base, v, n, exponent) ==
  LET p[k \in Nat] == IF k = 0 THEN base ELSE (p[k - 1] * v) % n
  IN  p[exponent]

(* It is well founded. *)
LEMMA PowerUnfold ==
  ASSUME NEW base \in Nat, NEW v \in Nat, NEW n \in Nat \ {0}
  PROVE  /\ PowerFrom(base, v, n, 0) = base
         /\ \A k \in Nat : /\ PowerFrom(base, v, n, k) \in Nat
                           /\ PowerFrom(base, v, n, k + 1)
                                = (PowerFrom(base, v, n, k) * v) % n
<1> DEFINE step == [q \in Nat \X Nat |-> (q[2] * v) % n]
           Body(g) == [k \in Nat |-> IF k = 0 THEN base ELSE (g[k - 1] * v) % n]
           c == CHOOSE g : g = Body(g)
<1>1. \A k : PowerFrom(base, v, n, k) = c[k]
  BY DEF PowerFrom
<1>2. \A u \in Nat : (u * v) % n \in Nat
  <2>1. TAKE u \in Nat
  <2>2. u * v \in Nat
    OBVIOUS
  <2>3. QED
    BY <2>2
<1>3. step \in StepFunctions(Nat)
  BY <1>2 DEF StepFunctions
<1>4. PICK f : Solves(Nat, base, step, f)
  <2> HIDE DEF step
  <2>1. QED
    BY <1>3, RecursionSolves
<1>5. f \in [Nat -> Nat]
  BY <1>4 DEF Solves
<1>6. f = Body(f)
  <2>1. ASSUME NEW k \in Nat PROVE f[k] = IF k = 0 THEN base ELSE (f[k - 1] * v) % n
    <3>1. f[k] = IF k = 0 THEN base ELSE step[<<k - 1, f[k - 1]>>]
      BY <1>4 DEF Solves
    <3>2. ASSUME k # 0 PROVE step[<<k - 1, f[k - 1]>>] = (f[k - 1] * v) % n
      <4> DEFINE e == <<k - 1, f[k - 1]>>
      <4>1. k - 1 \in Nat
        BY <3>2
      <4>2. e \in Nat \X Nat /\ e[2] = f[k - 1]
        BY <1>5, <4>1
      <4> HIDE DEF e
      <4>3. step[e] = (e[2] * v) % n
        BY <4>2
      <4>4. QED
        BY <4>2, <4>3 DEF e
    <3>3. QED
      BY <3>1, <3>2
  <2>2. QED
    BY <1>5, <2>1
<1>7. c = Body(c)
  <2> HIDE DEF Body
  <2>1. QED
    BY <1>6
<1> HIDE DEF c
<1>8. \A k \in Nat : c[k] = IF k = 0 THEN base ELSE (c[k - 1] * v) % n
  BY <1>7
<1>9. c[0] = base
  BY <1>8
<1>10. \A k \in Nat : c[k + 1] = (c[k] * v) % n
  <2>1. TAKE k \in Nat
  <2>2. k + 1 \in Nat /\ k + 1 # 0 /\ (k + 1) - 1 = k
    OBVIOUS
  <2>3. QED
    BY <1>8, <2>2
<1>11. \A k \in Nat : c[k] \in Nat
  <2> DEFINE S == {k \in Nat : c[k] \in Nat}
  <2>1. 0 \in S
    BY <1>9
  <2>2. ASSUME NEW k \in S PROVE k + 1 \in S
    BY <1>2, <1>10, <2>2
  <2> HIDE DEF S
  <2>3. S = Nat
    <3>1. S \in SUBSET Nat
      BY DEF S
    <3>2. QED
      BY <2>1, <2>2, <3>1, SetInduction
  <2>4. QED
    BY <2>3 DEF S
<1>12. QED
  BY <1>1, <1>9, <1>10, <1>11

(* It makes no difference whether a power is begun with 1 or with 1 % n. *)
LEMMA PowerFromOne ==
  ASSUME NEW v \in Nat, NEW n \in Nat \ {0}, NEW k \in Nat
  PROVE  PowerFrom(1, v, n, k) % n = PowerFrom(1 % n, v, n, k) % n
<1>1. 1 % n \in Nat /\ 1 \in Nat
  OBVIOUS
<1>2. /\ PowerFrom(1, v, n, 0) = 1
      /\ \A j \in Nat : /\ PowerFrom(1, v, n, j) \in Nat
                        /\ PowerFrom(1, v, n, j + 1) = (PowerFrom(1, v, n, j) * v) % n
  <2>1. PICK one \in Nat : one = 1
    OBVIOUS
  <2>2. /\ PowerFrom(one, v, n, 0) = one
        /\ \A j \in Nat : /\ PowerFrom(one, v, n, j) \in Nat
                          /\ PowerFrom(one, v, n, j + 1) = (PowerFrom(one, v, n, j) * v) % n
    BY PowerUnfold, ZenonT(30)
  <2>3. QED
    BY <2>1, <2>2
<1>3. PICK r \in 0 .. n - 1 : r = 1 % n
  OBVIOUS
<1>4. /\ PowerFrom(r, v, n, 0) = r
      /\ \A j \in Nat : /\ PowerFrom(r, v, n, j) \in Nat
                        /\ PowerFrom(r, v, n, j + 1) = (PowerFrom(r, v, n, j) * v) % n
  <2>1. r \in Nat
    OBVIOUS
  <2>2. QED
    BY <2>1, PowerUnfold, ZenonT(30)
<1> DEFINE S == {j \in Nat : PowerFrom(1, v, n, j) % n = PowerFrom(r, v, n, j) % n}
<1>5. 0 \in S
  <2>1. r % n = r
    OBVIOUS
  <2>2. QED
    BY <1>2, <1>3, <1>4, <2>1
<1>6. ASSUME NEW j \in S PROVE j + 1 \in S
  <2>1. PICK a \in Nat : PowerFrom(1, v, n, j) = a
    BY <1>2
  <2>2. PICK b \in Nat : PowerFrom(r, v, n, j) = b
    BY <1>4
  <2>3. a % n = b % n
    BY <1>6, <2>1, <2>2
  <2>4. ((a % n) * v) % n = (a * v) % n /\ ((b % n) * v) % n = (b * v) % n
    <3>1. a \in Int /\ b \in Int /\ v \in Int
      OBVIOUS
    <3>2. QED
      BY <3>1, ReduceFactor
  <2>5. PowerFrom(1, v, n, j + 1) = (a * v) % n /\ PowerFrom(r, v, n, j + 1) = (b * v) % n
    BY <1>2, <1>4, <2>1, <2>2
  <2>6. QED
    BY <2>3, <2>4, <2>5
<1> HIDE DEF S
<1>7. S = Nat
  <2>1. S \in SUBSET Nat
    BY DEF S
  <2>2. QED
    BY <1>5, <1>6, <2>1, SetInduction
<1>8. QED
  BY <1>3, <1>7 DEF S

(* The powers modulo n are below n, and those of zero are zero. *)
LEMMA PowerModExact ==
  ASSUME NEW v \in Nat, NEW n \in Nat \ {0}, NEW k \in Nat
  PROVE  /\ PowerMod(v, k, n) \in 0 .. n - 1
         /\ PowerMod(v, k, n) = PowerFrom(1, v, n, k) % n
         /\ v = 0 /\ k # 0 => PowerMod(v, k, n) = 0
<1>1. PowerMod(v, k, n) = PowerFrom(1 % n, v, n, k)
  BY DEF PowerMod, PowerFrom
<1>2. PICK r \in 0 .. n - 1 : r = 1 % n
  OBVIOUS
<1>3. /\ PowerFrom(r, v, n, 0) = r
      /\ \A j \in Nat : /\ PowerFrom(r, v, n, j) \in Nat
                        /\ PowerFrom(r, v, n, j + 1) = (PowerFrom(r, v, n, j) * v) % n
  <2>1. r \in Nat
    OBVIOUS
  <2>2. QED
    BY <2>1, PowerUnfold, ZenonT(30)
<1>4. /\ PowerFrom(r, v, n, k) \in 0 .. n - 1
      /\ v = 0 /\ k # 0 => PowerFrom(r, v, n, k) = 0
  <2>1. CASE k = 0
    BY <1>3, <2>1
  <2>2. CASE k # 0
    <3>1. PICK j \in Nat : k = j + 1
      <4>1. k - 1 \in Nat /\ k = (k - 1) + 1
        BY <2>2
      <4>2. QED
        BY <4>1
    <3>2. PICK a \in Nat : PowerFrom(r, v, n, j) = a
      BY <1>3
    <3>3. PowerFrom(r, v, n, k) = (a * v) % n
      BY <1>3, <3>1, <3>2
    <3>4. PICK p \in Nat : p = a * v
      OBVIOUS
    <3>5. p % n \in 0 .. n - 1
      OBVIOUS
    <3>6. v = 0 => p = 0
      BY <3>4
    <3>7. 0 % n = 0
      OBVIOUS
    <3>8. QED
      BY <3>3, <3>4, <3>5, <3>6, <3>7
  <2>3. QED
    BY <2>1, <2>2
<1>5. PowerFrom(r, v, n, k) % n = PowerFrom(r, v, n, k)
  <2>1. PICK a \in 0 .. n - 1 : a = PowerFrom(r, v, n, k)
    BY <1>4
  <2>2. a % n = a
    OBVIOUS
  <2>3. QED
    BY <2>1, <2>2
<1>6. QED
  BY <1>1, <1>2, <1>4, <1>5, PowerFromOne

(* The exponentiation of a block is the representation of the power. *)
LEMMA ExponentiationExact ==
  ASSUME key \in Keys, NEW x, NEW v \in Nat, Value(x) = v, NEW k \in Nat
  PROVE  LET y == Exponentiation(x, k)
         IN  Proper(y) /\ Magnitude(y) = PowerMod(v, k, key.n)
<1>1. key.n \in Nat \ {0}
  BY KeysAssumption
<1>2. PICK n \in Nat \ {0} : n = key.n
  BY <1>1
<1>3. Exponentiation(x, k) = Represent(PowerFrom(1, v, n, k) % n)
  BY <1>2 DEF Exponentiation, PowerFrom
<1>4. PICK w \in 0 .. n - 1 : w = PowerMod(v, k, n) /\ w = PowerFrom(1, v, n, k) % n
  BY PowerModExact
<1>5. w \in Int /\ w >= 0
  OBVIOUS
<1>6. Proper(Represent(w)) /\ Value(Represent(w)) = w
  BY <1>5, RepresentExact
<1>7. Magnitude(Represent(w)) = w
  BY <1>5, <1>6, ProperValue
<1>8. QED
  BY <1>2, <1>3, <1>4, <1>6, <1>7

-----------------------------------------------------------------------------
(***************************************************************************)
(* Blocks.                                                                 *)
(***************************************************************************)
(* The sizes of the blocks: a message block is below the modulus, and what *)
(* is below the modulus fits a cipher block.                               *)
LEMMA BlockSizes ==
  ASSUME key \in Keys
  PROVE  /\ MessageBlockBytes \in Nat /\ CipherBlockBytes \in Nat \ {0}
         /\ key.n \in Nat \ {0}
         /\ ByteWeight(MessageBlockBytes) <= key.n
         /\ key.n < ByteWeight(CipherBlockBytes)
<1>1. PICK n \in Nat \ {0} : n = key.n
  BY KeysAssumption
<1>2. Proper(N) /\ Magnitude(N) = n
  <2>1. n \in Int /\ n >= 0
    OBVIOUS
  <2>2. Proper(Represent(n)) /\ Value(Represent(n)) = n
    BY <2>1, RepresentExact
  <2>3. Magnitude(Represent(n)) = n
    BY <2>1, <2>2, ProperValue
  <2>4. QED
    BY <1>1, <2>2, <2>3 DEF N
<1>3. IsByteCount(CipherBlockBytes, n)
  BY <1>2, NumberBytesExact DEF CipherBlockBytes
<1>4. CipherBlockBytes # 0
  <2>1. ByteWeight(0) = 1
    BY ByteWeights
  <2>2. ~(n < 1)
    OBVIOUS
  <2>3. QED
    BY <1>3, <2>1, <2>2 DEF IsByteCount
<1>5. PICK bits \in Nat : bits = NumberBits(N) /\ bits # 0 /\ Pow2[bits - 1] <= n
  <2>1. N.used # 0
    BY <1>2, ProperValue
  <2>2. QED
    BY <1>2, <2>1, NumberBitsExact
<1>6. PICK b \in Nat \ {0} : b = ByteBits
  BY ByteWeights
<1>7. PICK t \in Nat : t = bits - 1
  BY <1>5
<1>8. PICK m \in Nat, r \in Nat : m = t \div b /\ t = b * m + r
  <2>1. t \div b \in Nat
    BY NatQuotient
  <2>2. t \in Int
    OBVIOUS
  <2>3. t % b \in 0 .. b - 1 /\ t = b * (t \div b) + (t % b)
    BY <2>2, DivMod
  <2>4. t % b \in Nat
    BY <2>3
  <2>5. QED
    BY <2>1, <2>3, <2>4
<1>9. ByteWeight(m) <= n
  <2>1. PICK s \in Nat : s = b * m
    OBVIOUS
  <2>2. s \in 0 .. t
    BY <1>8, <2>1
  <2>3. Pow2[s] <= Pow2[t]
    BY <2>2, Pow2Grows
  <2>4. Pow2[s] \in Nat /\ Pow2[t] \in Nat
    BY Pow2Unfold
  <2>5. ByteWeight(m) = Pow2[s]
    BY <1>6, <2>1 DEF ByteWeight
  <2>6. Pow2[t] <= n
    BY <1>5, <1>7
  <2>7. QED
    BY <2>3, <2>4, <2>5, <2>6
<1>10. MessageBlockBytes = m
  BY <1>5, <1>6, <1>7, <1>8 DEF MessageBlockBytes
<1>11. QED
  BY <1>1, <1>3, <1>4, <1>9, <1>10 DEF IsByteCount

(* Block k + 1 begins inside the message or there is no such block. *)
LEMMA BlockCount ==
  ASSUME MessageBlockBytes \in Nat \ {0}, NEW length \in Nat
  PROVE  /\ BlocksOf(length) \in Nat
         /\ \A k \in Nat : k < BlocksOf(length) <=> k * MessageBlockBytes < length
<1>1. PICK m \in Nat \ {0} : m = MessageBlockBytes
  OBVIOUS
<1>2. PICK q \in Nat : q = length \div m
  BY NatQuotient
<1>3. PICK r \in 0 .. m - 1 : r = length % m
  OBVIOUS
<1>4. length = m * q + r
  <2>1. length \in Int
    OBVIOUS
  <2>2. QED
    BY <1>2, <1>3, <2>1, DivMod
<1>5. BlocksOf(length) = q + (IF r = 0 THEN 0 ELSE 1)
  BY <1>1, <1>2, <1>3 DEF BlocksOf
<1>6. ASSUME NEW k \in Nat PROVE k < BlocksOf(length) <=> k * m < length
  <2>1. PICK s \in Nat : s = k * m
    OBVIOUS
  <2>2. PICK w \in Nat : w = m * q
    OBVIOUS
  <2>3. k <= q => s <= w
    <3>1. SUFFICES ASSUME k <= q PROVE k * m <= m * q
      BY <2>1, <2>2
    <3>2. PICK d \in Nat : q = k + d
      <4>1. q - k \in Nat /\ q = k + (q - k)
        BY <3>1
      <4>2. QED
        BY <4>1
    <3>3. m * q = k * m + m * d
      BY <3>2
    <3>4. k * m \in Nat /\ m * d \in Nat
      OBVIOUS
    <3>5. QED
      BY <3>3, <3>4
  <2>4. k < q => s + m <= w
    <3>1. SUFFICES ASSUME k < q PROVE k * m + m <= m * q
      BY <2>1, <2>2
    <3>2. PICK d \in Nat : q = k + 1 + d
      <4>1. q - (k + 1) \in Nat /\ q = k + 1 + (q - (k + 1))
        BY <3>1
      <4>2. QED
        BY <4>1
    <3>3. m * q = k * m + m + m * d
      BY <3>2
    <3>4. k * m \in Nat /\ m * d \in Nat
      OBVIOUS
    <3>5. QED
      BY <3>3, <3>4
  <2>5. q <= k => w <= s
    <3>1. SUFFICES ASSUME q <= k PROVE m * q <= k * m
      BY <2>1, <2>2
    <3>2. PICK d \in Nat : k = q + d
      <4>1. k - q \in Nat /\ k = q + (k - q)
        BY <3>1
      <4>2. QED
        BY <4>1
    <3>3. k * m = m * q + m * d
      BY <3>2
    <3>4. m * q \in Nat /\ m * d \in Nat
      OBVIOUS
    <3>5. QED
      BY <3>3, <3>4
  <2>6. q < k => w + m <= s
    <3>1. SUFFICES ASSUME q < k PROVE m * q + m <= k * m
      BY <2>1, <2>2
    <3>2. PICK d \in Nat : k = q + 1 + d
      <4>1. k - (q + 1) \in Nat /\ k = q + 1 + (k - (q + 1))
        BY <3>1
      <4>2. QED
        BY <4>1
    <3>3. k * m = m * q + m + m * d
      BY <3>2
    <3>4. m * q \in Nat /\ m * d \in Nat
      OBVIOUS
    <3>5. QED
      BY <3>3, <3>4
  <2>7. length = w + r
    BY <1>4, <2>2
  <2>8. k < q \/ k = q \/ q < k
    OBVIOUS
  <2>9. QED
    BY <1>5, <2>1, <2>3, <2>4, <2>5, <2>6, <2>7, <2>8
<1>7. QED
  BY <1>1, <1>5, <1>6

(* A block of the message: it is not empty, and its number is below the    *)
(* modulus.                                                                *)
LEMMA BlockExact ==
  ASSUME key \in Keys, message \in Seq(Byte), MessageBlockBytes > 0,
         NEW k \in 1 .. BlocksOf(Len(message))
  PROVE  /\ Block(k) \in Seq(Byte)
         /\ BytesNumber(Block(k)) \in 0 .. key.n - 1
<1>1. PICK m \in Nat \ {0} : m = MessageBlockBytes
  BY BlockSizes
<1>2. PICK l \in Nat : l = Len(message)
  OBVIOUS
<1>3. PICK j \in Nat : j = k - 1 /\ j < BlocksOf(l)
  <2>1. BlocksOf(l) \in Nat
    BY <1>1, BlockCount
  <2>2. k - 1 \in Nat /\ k - 1 < BlocksOf(l)
    BY <1>2, <2>1
  <2>3. QED
    BY <2>2
<1>4. PICK at \in Nat : at = (k - 1) * m /\ at < l
  <2>1. j * m < l
    <3>1. MessageBlockBytes \in Nat \ {0}
      BY <1>1
    <3>2. j < BlocksOf(l) <=> j * MessageBlockBytes < l
      BY <3>1, BlockCount
    <3>3. QED
      BY <1>1, <1>3, <3>2
  <2>2. j * m \in Nat
    OBVIOUS
  <2>3. QED
    BY <1>3, <2>1, <2>2
<1>5. PICK count \in 1 .. m :
        at + count <= l /\ count = IF at + m <= l THEN m ELSE l - at
  <2>1. CASE at + m <= l
    <3>1. m \in 1 .. m
      OBVIOUS
    <3>2. QED
      BY <2>1, <3>1
  <2>2. CASE ~(at + m <= l)
    <3>1. l - at \in 1 .. m /\ at + (l - at) <= l
      BY <1>4, <2>2
    <3>2. QED
      BY <2>2, <3>1
  <2>3. QED
    BY <2>1, <2>2
<1>6. Block(k) = Slice(message, at, count)
  BY <1>1, <1>2, <1>4, <1>5 DEF Block
<1>7. Block(k) \in Seq(Byte) /\ Len(Block(k)) = count
  <2>1. at + count <= Len(message) /\ count \in Nat
    BY <1>2, <1>5
  <2>2. Slice(message, at, count) \in Seq(Byte) /\ IsSlice(Slice(message, at, count), message, at, count)
    BY <2>1, SliceExact
  <2>3. QED
    BY <1>6, <2>2 DEF IsSlice
<1>8. BytesNumber(Block(k)) \in Nat /\ BytesNumber(Block(k)) < ByteWeight(count)
  BY <1>7, BytesAreDigits
<1>9. ByteWeight(count) <= ByteWeight(m)
  <2>1. count \in Nat /\ count <= m
    BY <1>5
  <2>2. QED
    BY <2>1, ByteWeightsGrow
<1>10. ByteWeight(m) <= key.n /\ key.n \in Nat
  BY <1>1, BlockSizes
<1>11. ByteWeight(m) \in Nat /\ ByteWeight(count) \in Nat
  <2>1. count \in Nat /\ m \in Nat
    BY <1>5
  <2>2. QED
    BY <2>1, ByteWeights
<1>12. QED
  BY <1>7, <1>8, <1>9, <1>10, <1>11

-----------------------------------------------------------------------------
(***************************************************************************)
(* Leading zeros.                                                          *)
(***************************************************************************)
(* What Stripped chooses: the bytes in front of the first that is not zero. *)
IsLead(block, k) ==
  /\ k \in 0 .. Len(block)
  /\ \A j \in 1 .. k : block[j] = 0
  /\ k < Len(block) => block[k + 1] # 0

(* There are so many. *)
LEMMA LeadExists ==
  ASSUME NEW bytes \in Seq(Byte)
  PROVE  \E k : IsLead(bytes, k)
<1> DEFINE m == Len(bytes)
           D == {k \in 0 .. m : \A j \in 1 .. k : bytes[j] = 0}
<1>1. m \in Nat
  OBVIOUS
<1>2. 0 \in D
  BY <1>1
<1>3. PICK k \in D : \A j \in D : j <= k
  <2>1. D \in SUBSET (0 .. (m + 1) - 1) /\ D # {} /\ m + 1 \in Nat
    BY <1>1, <1>2
  <2> HIDE DEF D, m
  <2>2. QED
    BY <2>1, GreatestExists
<1>4. k < m => bytes[k + 1] # 0
  <2>1. SUFFICES ASSUME k < m, bytes[k + 1] = 0 PROVE FALSE
    OBVIOUS
  <2>2. k \in Nat /\ k + 1 \in 0 .. m
    BY <1>1, <2>1
  <2>3. \A j \in 1 .. k + 1 : bytes[j] = 0
    <3>1. TAKE j \in 1 .. k + 1
    <3>2. j \in 1 .. k \/ j = k + 1
      BY <2>2
    <3>3. QED
      BY <2>1, <3>2
  <2>4. k + 1 \in D
    BY <2>2, <2>3
  <2>5. QED
    BY <1>3, <2>2, <2>4
<1>5. QED
  BY <1>3, <1>4 DEF IsLead

(* Bytes that begin with k zeros spell a number that the rest has room for. *)
LEMMA LeadingZeros ==
  ASSUME NEW bytes \in Seq(Byte), NEW lead \in 0 .. Len(bytes),
         \A j \in 1 .. lead : bytes[j] = 0
  PROVE  BytesNumber(bytes) < ByteWeight(Len(bytes) - lead)
<1>1. PICK m \in Nat : m = Len(bytes)
  OBVIOUS
<1>2. PICK v \in Nat : /\ v = BytesNumber(bytes) /\ v < ByteWeight(m)
                       /\ \A k \in 1 .. m : IsByteOf(bytes[k], v, m - k)
  BY <1>1, BytesAreDigits
<1> DEFINE S == {k \in Nat : k <= lead => v < ByteWeight(m - k)}
<1>3. 0 \in S
  <2>1. m - 0 = m
    OBVIOUS
  <2>2. QED
    BY <1>2, <2>1
<1>4. ASSUME NEW k \in S PROVE k + 1 \in S
  <2>1. SUFFICES ASSUME k + 1 <= lead PROVE v < ByteWeight(m - (k + 1))
    BY <1>4
  <2>2. PICK i \in Nat : i = m - (k + 1) /\ i + 1 = m - k
    <3>1. k \in Nat /\ k + 1 <= m
      BY <1>1, <2>1
    <3>2. m - (k + 1) \in Nat /\ (m - (k + 1)) + 1 = m - k
      BY <3>1
    <3>3. QED
      BY <3>2
  <2>3. PICK p \in Nat \ {0}, W \in Nat \ {0} :
          ByteRadix = p /\ ByteWeight(i) = W /\ ByteWeight(i + 1) = W * p
    BY ByteWeights
  <2>4. v < W * p
    <3>1. k <= lead /\ k \in Nat
      BY <2>1
    <3>2. v < ByteWeight(m - k)
      BY <1>4, <3>1
    <3>3. QED
      BY <2>2, <2>3, <3>2
  <2>5. (v \div W) % p = 0
    <3>1. k + 1 \in 1 .. lead /\ k + 1 \in 1 .. m
      BY <1>1, <2>1
    <3>2. bytes[k + 1] = 0 /\ IsByteOf(bytes[k + 1], v, m - (k + 1))
      BY <1>2, <3>1
    <3>3. QED
      BY <2>2, <2>3, <3>2 DEF IsByteOf
  <2>6. PICK d \in Nat, r \in 0 .. W - 1 : d = v \div W /\ v = W * d + r
    <3>1. v \div W \in Nat
      BY NatQuotient
    <3>2. v \in Int
      OBVIOUS
    <3>3. v % W \in 0 .. W - 1 /\ v = W * (v \div W) + (v % W)
      BY <3>2, DivMod
    <3>4. QED
      BY <3>1, <3>3
  <2>7. d < p
    <3>1. SUFFICES ASSUME p <= d PROVE FALSE
      OBVIOUS
    <3>2. PICK e \in Nat : d = p + e
      <4>1. d - p \in Nat /\ d = p + (d - p)
        BY <3>1
      <4>2. QED
        BY <4>1
    <3>3. W * d = W * p + W * e
      BY <3>2
    <3>4. W * p \in Nat /\ W * e \in Nat
      OBVIOUS
    <3>5. QED
      BY <2>4, <2>6, <3>3, <3>4
  <2>8. d = 0
    <3>1. d % p = d
      BY <2>7
    <3>2. QED
      BY <2>5, <2>6, <3>1
  <2>9. v < W
    BY <2>6, <2>8
  <2>10. QED
    BY <2>2, <2>3, <2>9
<1> HIDE DEF S
<1>5. S = Nat
  <2>1. S \in SUBSET Nat
    BY DEF S
  <2>2. QED
    BY <1>3, <1>4, <2>1, SetInduction
<1>6. lead \in Nat /\ lead <= lead
  BY <1>1
<1>7. QED
  BY <1>1, <1>2, <1>5, <1>6 DEF S

(* A number stored in just the bytes it takes is the block it was read from, *)
(* without its leading zero bytes.                                           *)
LEMMA StrippedExact ==
  ASSUME NEW bytes \in Seq(Byte), NEW y, Proper(y),
         Magnitude(y) = BytesNumber(bytes)
  PROVE  Stripped(bytes) = StoreBytes(y, NumberBytes(y))
<1>1. PICK m \in Nat : m = Len(bytes)
  OBVIOUS
<1>2. PICK v \in Nat : /\ v = BytesNumber(bytes)
                       /\ \A k \in 1 .. m : IsByteOf(bytes[k], v, m - k)
  BY <1>1, BytesAreDigits
<1> DEFINE lead == CHOOSE k \in 0 .. Len(bytes) :
                     /\ \A j \in 1 .. k : bytes[j] = 0
                     /\ k < Len(bytes) => bytes[k + 1] # 0
<1>3. lead \in 0 .. m /\ IsLead(bytes, lead)
  <2>1. PICK k : IsLead(bytes, k)
    BY LeadExists
  <2>2. /\ k \in 0 .. Len(bytes)
        /\ \A j \in 1 .. k : bytes[j] = 0
        /\ k < Len(bytes) => bytes[k + 1] # 0
    BY <2>1 DEF IsLead
  <2>3. IsLead(bytes, lead)
    BY <2>2 DEF IsLead
  <2> HIDE DEF lead
  <2>4. QED
    BY <1>1, <2>3 DEF IsLead
<1>4. Stripped(bytes) = SubSeq(bytes, lead + 1, m)
  BY <1>1 DEF Stripped
<1> HIDE DEF lead
<1>5. PICK count \in Nat : count = m - lead /\ lead + count = m /\ lead \in Nat
  <2>1. m - lead \in Nat /\ lead + (m - lead) = m /\ lead \in Nat
    BY <1>3
  <2>2. QED
    BY <2>1
<1>6. IsByteCount(count, v)
  <2>1. v < ByteWeight(count)
    <3>1. /\ lead \in 0 .. Len(bytes) /\ \A j \in 1 .. lead : bytes[j] = 0
      BY <1>3 DEF IsLead
    <3>2. BytesNumber(bytes) < ByteWeight(Len(bytes) - lead)
      BY <3>1, LeadingZeros
    <3>3. QED
      BY <1>1, <1>2, <1>5, <3>2
  <2>2. ASSUME count > 0 PROVE ByteWeight(count - 1) <= v
    <3>1. PICK i \in Nat : i = count - 1 /\ lead + 1 \in 1 .. m /\ m - (lead + 1) = i
      <4>1. count - 1 \in Nat /\ lead + 1 \in 1 .. m /\ m - (lead + 1) = count - 1
        BY <1>5, <2>2
      <4>2. QED
        BY <4>1
    <3>2. bytes[lead + 1] # 0
      <4>1. lead < m
        BY <1>5, <2>2
      <4>2. QED
        BY <1>1, <1>3, <4>1 DEF IsLead
    <3>3. PICK p \in Nat \ {0}, W \in Nat \ {0} : ByteRadix = p /\ ByteWeight(i) = W
      BY ByteWeights
    <3>4. bytes[lead + 1] = (v \div W) % p
      BY <1>2, <3>1, <3>3 DEF IsByteOf
    <3>5. SUFFICES ASSUME v < W PROVE FALSE
      BY <3>1, <3>3
    <3>6. v \div W = 0
      BY <3>5, NatQuotient
    <3>7. 0 % p = 0
      OBVIOUS
    <3>8. QED
      BY <3>2, <3>4, <3>6, <3>7
  <2>3. QED
    BY <2>1, <2>2 DEF IsByteCount
<1>7. NumberBytes(y) = count
  <2>1. IsByteCount(NumberBytes(y), v)
    BY <1>2, NumberBytesExact
  <2>2. QED
    BY <1>6, <2>1, ByteCountUnique
<1>8. /\ StoreBytes(y, count) \in Seq(Byte) /\ Len(StoreBytes(y, count)) = count
      /\ \A k \in 1 .. count : IsByteOf(StoreBytes(y, count)[k], v, count - k)
  BY <1>2, StoreBytesExact
<1> DEFINE rest == Slice(bytes, lead, count)
<1>9. /\ rest \in Seq(Byte) /\ Len(rest) = count
      /\ \A i \in 1 .. count : rest[i] = bytes[lead + i]
  <2>1. lead + count <= Len(bytes) /\ lead \in Nat
    BY <1>1, <1>5
  <2>2. rest \in Seq(Byte) /\ IsSlice(rest, bytes, lead, count)
    BY <2>1, SliceExact
  <2>3. QED
    BY <2>2 DEF IsSlice
<1>10. Stripped(bytes) = rest
  BY <1>4, <1>5 DEF Slice
<1> HIDE DEF rest
<1>11. \A i \in 1 .. count : rest[i] = StoreBytes(y, count)[i]
  <2>1. TAKE i \in 1 .. count
  <2>2. lead + i \in 1 .. m /\ m - (lead + i) = count - i
    BY <1>5
  <2>3. IsByteOf(bytes[lead + i], v, count - i)
    BY <1>2, <2>2
  <2>4. QED
    BY <1>8, <1>9, <2>3 DEF IsByteOf
<1>12. rest = StoreBytes(y, count)
  BY <1>8, <1>9, <1>11, SeqEqual
<1>13. QED
  BY <1>7, <1>10, <1>12

-----------------------------------------------------------------------------
(***************************************************************************)
(* The invariant.  Both loops have handled whole blocks: the first k of    *)
(* the cipher text are exact and the bytes behind them are as the caller   *)
(* left them, zeros, so that rsaDecrypt cannot pass the last block; and    *)
(* what is written of the plain text is the blocks that were read, until a *)
(* store of no bytes makes zeros of them.                                  *)
(***************************************************************************)
\* The buffers fit: rsaEncrypt did not throw.
Fitting ==
  /\ MessageBlockBytes > 0
  /\ BlocksOf(Len(message)) * CipherBlockBytes <= Len(cipher)

\* The first k blocks of the cipher text.
Encrypted(k) ==
  /\ \A j \in 1 .. k :
       BytesNumber(Slice(cipher, (j - 1) * CipherBlockBytes, CipherBlockBytes))
         = PowerMod(BytesNumber(Block(j)), key.e, key.n)
  /\ \A i \in k * CipherBlockBytes + 1 .. Len(cipher) : cipher[i] = 0

Encrypting(k) ==
  /\ k * MessageBlockBytes <= Len(message)
  /\ bytesRead = k * MessageBlockBytes
  /\ bytesWritten = k * CipherBlockBytes
  /\ Encrypted(k)

\* The first k blocks as they come back.
StrippedBlocks(k) == [j \in 1 .. k |-> Stripped(Block(j))]

NothingWrittenBehind ==
  /\ outputBytesWritten <= Len(plain)
  /\ \A k \in outputBytesWritten + 1 .. Len(plain) : plain[k] = Untouched

Decrypting(k) ==
  /\ k <= BlocksOf(Len(message))
  /\ bytesRead = k * CipherBlockBytes
  /\ LET text == FlattenSeq(StrippedBlocks(k))
     IN  SubSeq(plain, 1, outputBytesWritten)
           = IF pc = "runs away" THEN [i \in 1 .. Len(text) |-> 0] ELSE text

Ready(x) == Proper(x) /\ ~x.neg /\ x.size >= 3

Typed ==
  /\ pc \in {"encrypt", "encryptBlock", "decrypt", "decryptBlock", "done",
             "threw", "divided by zero", "runs away"}
  /\ key \in Keys /\ message \in Seq(Byte)
  /\ cipher \in Seq(Byte) /\ plain \in Seq(Byte \cup {Untouched})
  /\ front = IF pc = "runs away" THEN 0 ELSE Untouched
  /\ bytesRead \in Nat /\ bytesWritten \in Nat /\ outputBytesWritten \in Nat
  /\ Ready(inputBlock)

\* The cipher text before, during and after rsaEncrypt.
NothingEncrypted ==
  /\ bytesRead = 0 /\ bytesWritten = 0
  /\ \A i \in 1 .. Len(cipher) : cipher[i] = 0

SomeEncrypted == Fitting /\ \E k \in Nat : Encrypting(k)
AllEncrypted  == Fitting /\ Encrypted(BlocksOf(Len(message)))

\* The plain text from the first block that rsaDecrypt reads to its end.
SomeDecrypted ==
  /\ Len(cipher) % CipherBlockBytes = 0
  /\ \E k \in Nat :
       /\ Decrypting(k)
       /\ pc = "done" => bytesRead = Len(cipher)

Phases ==
  /\ NothingWrittenBehind
  /\ pc \in {"encrypt", "encryptBlock", "decrypt"} => outputBytesWritten = 0
  /\ pc = "encrypt" => NothingEncrypted
  /\ pc = "encryptBlock" => SomeEncrypted
  /\ pc = "decrypt" => AllEncrypted
  /\ pc \in {"decryptBlock", "done", "runs away"} \/ outputBytesWritten > 0 =>
       AllEncrypted /\ SomeDecrypted

IInv == Typed /\ Phases

(* Multiples of a block size, one behind the other. *)
LEMMA Multiples ==
  ASSUME NEW c \in Nat, NEW a \in Nat, NEW b \in Nat
  PROVE  /\ a * c \in Nat /\ b * c \in Nat /\ (a + 1) * c = a * c + c /\ 0 * c = 0
         /\ a <= b => a * c <= b * c
         /\ a < b => a * c + c <= b * c
<1>1. ASSUME a <= b PROVE a * c <= b * c
  <2>1. PICK d \in Nat : b = a + d
    <3>1. b - a \in Nat /\ b = a + (b - a)
      BY <1>1
    <3>2. QED
      BY <3>1
  <2>2. b * c = a * c + d * c
    BY <2>1
  <2>3. a * c \in Nat /\ d * c \in Nat
    OBVIOUS
  <2>4. QED
    BY <2>2, <2>3
<1>2. ASSUME a < b PROVE a * c + c <= b * c
  <2>1. PICK d \in Nat : b = a + 1 + d
    <3>1. b - (a + 1) \in Nat /\ b = a + 1 + (b - (a + 1))
      BY <1>2
    <3>2. QED
      BY <3>1
  <2>2. b * c = a * c + c + d * c
    BY <2>1
  <2>3. a * c \in Nat /\ d * c \in Nat
    OBVIOUS
  <2>4. QED
    BY <2>2, <2>3
<1>3. a * c \in Nat /\ b * c \in Nat /\ (a + 1) * c = a * c + c /\ 0 * c = 0
  OBVIOUS
<1>4. QED
  BY <1>1, <1>2, <1>3

(* The blocks are those of the key and the message. *)
LEMMA BlocksStay ==
  ASSUME key' = key, message' = message
  PROVE  /\ CipherBlockBytes' = CipherBlockBytes
         /\ MessageBlockBytes' = MessageBlockBytes
         /\ BlocksOf(Len(message))' = BlocksOf(Len(message))
         /\ \A j : Block(j)' = Block(j)
         /\ \A k : StrippedBlocks(k)' = StrippedBlocks(k)
<1>1. N' = N
  BY DEF N
<1>2. /\ CipherBlockBytes' = CipherBlockBytes
      /\ MessageBlockBytes' = MessageBlockBytes
  BY <1>1 DEF CipherBlockBytes, MessageBlockBytes
<1>3. BlocksOf(Len(message))' = BlocksOf(Len(message))
  BY <1>2 DEF BlocksOf
<1>4. \A j : Block(j)' = Block(j)
  BY <1>2 DEF Block
<1>5. \A k : StrippedBlocks(k)' = StrippedBlocks(k)
  BY <1>4 DEF StrippedBlocks
<1>6. QED
  BY <1>2, <1>3, <1>4, <1>5

(* A block loaded into the number of the call. *)
LEMMA BlockLoaded ==
  ASSUME NEW x, Ready(x), NEW bytes \in Seq(Byte), NEW z \in LoadBytes(x, bytes, TRUE)
  PROVE  Ready(z) /\ Value(z) = BytesNumber(bytes)
<1>1. Safe(x) /\ x.size >= 3 /\ x.size \in Nat
  BY Fields DEF Ready, Proper, Safe
<1>2. PICK w : /\ LoadBytes(x, bytes, TRUE) = {w}
               /\ Proper(w) /\ ~w.neg /\ w.size >= x.size
               /\ Value(w) = BytesNumber(bytes)
  BY <1>1, LoadClearedExact
<1>3. w = z
  BY <1>2
<1>4. w.size \in Nat
  BY <1>2, Fields DEF Proper, Safe
<1>5. QED
  BY <1>1, <1>2, <1>3, <1>4 DEF Ready

(* The number that both calls begin with. *)
LEMMA DefaultReady == Ready(BigNumDefault)
<1>1. BaseCapacity \in Nat \ {0}
  BY BaseCapacityAssumption
<1>2. BigNumDefault.neg = FALSE /\ BigNumDefault.size >= 3
  BY <1>1, NewSafe, NewRoomy DEF BigNumDefault
<1>3. QED
  BY <1>2, DefaultExact DEF Ready

(* The first part of the invariant and the sizes of the buffers go together: *)
(* a block of cipher text more.                                              *)
LEMMA EncryptToExact ==
  ASSUME Typed, Fitting, key' = key, message' = message,
         NEW k \in Nat, k < BlocksOf(Len(message)), bytesWritten = k * CipherBlockBytes,
         Encrypted(k), NEW count, Slice(message, bytesRead, count) = Block(k + 1),
         EncryptTo(count)
  PROVE  /\ Ready(inputBlock')
         /\ cipher' \in Seq(Byte) /\ Len(cipher') = Len(cipher)
         /\ Encrypted(k + 1)'
<1>1. key \in Keys /\ message \in Seq(Byte) /\ cipher \in Seq(Byte) /\ Ready(inputBlock)
  BY DEF Typed
<1>2. PICK c \in Nat \ {0}, n \in Nat \ {0} : c = CipherBlockBytes /\ n = key.n
  BY <1>1, BlockSizes
<1>3. n < ByteWeight(c) /\ ByteWeight(c) \in Nat \ {0}
  <2>1. c \in Nat
    OBVIOUS
  <2>2. QED
    BY <1>1, <1>2, <2>1, BlockSizes, ByteWeights
<1>4. PICK B \in Nat : B = BlocksOf(Len(message)) /\ k < B /\ B * c <= Len(cipher)
  <2>1. MessageBlockBytes \in Nat \ {0} /\ Len(message) \in Nat
    BY <1>1, BlockSizes DEF Fitting
  <2>2. BlocksOf(Len(message)) \in Nat
    BY <2>1, BlockCount
  <2>3. QED
    BY <1>2, <2>2 DEF Fitting
<1>5. PICK v \in 0 .. n - 1 : v = BytesNumber(Block(k + 1)) /\ Block(k + 1) \in Seq(Byte)
  <2>1. k + 1 \in 1 .. BlocksOf(Len(message))
    BY <1>4
  <2>2. QED
    BY <1>1, <1>2, <2>1, BlockExact DEF Fitting
<1>6. PICK x \in LoadBytes(inputBlock, Block(k + 1), TRUE) :
        /\ inputBlock' = x
        /\ cipher' = Write(cipher, bytesWritten,
                           StoreBytes(Exponentiation(x, key.e), CipherBlockBytes))
  BY DEF EncryptTo
<1>7. Ready(x) /\ Value(x) = v
  BY <1>1, <1>5, <1>6, BlockLoaded
<1>8. PICK y, w : y = Exponentiation(x, key.e) /\ w = PowerMod(v, key.e, n)
  OBVIOUS
<1>9. Proper(y) /\ Magnitude(y) = w /\ w \in 0 .. n - 1
  <2>1. v \in Nat /\ key.e \in Nat
    BY <1>1, KeysAssumption
  <2>2. Proper(y) /\ Magnitude(y) = w
    BY <1>1, <1>2, <1>7, <1>8, <2>1, ExponentiationExact
  <2>3. w \in 0 .. n - 1
    BY <1>8, <2>1, PowerModExact
  <2>4. QED
    BY <2>2, <2>3
<1>10. PICK s : s = StoreBytes(y, c) /\ s \in Seq(Byte) /\ Len(s) = c /\ BytesNumber(s) = w
  <2>1. c \in Nat
    OBVIOUS
  <2>2. StoreBytes(y, c) \in Seq(Byte) /\ Len(StoreBytes(y, c)) = c
    BY <1>9, <2>1, StoreBytesExact
  <2>3. BytesNumber(StoreBytes(y, c)) = w % ByteWeight(c)
    BY <1>9, <2>1, StoredNumber
  <2>4. w % ByteWeight(c) = w
    <3>1. PICK W \in Nat \ {0} : W = ByteWeight(c)
      BY <1>3
    <3>2. w \in 0 .. W - 1
      BY <1>3, <1>9, <3>1
    <3>3. w % W = w
      BY <3>2
    <3>4. QED
      BY <3>1, <3>3
  <2>5. QED
    BY <2>2, <2>3, <2>4
<1>11. PICK at \in Nat : at = k * c /\ at + c <= Len(cipher) /\ (k + 1) * c = at + c
  <2>1. k * c \in Nat /\ k * c + c <= B * c /\ (k + 1) * c = k * c + c /\ B * c \in Nat
    BY <1>4, Multiples
  <2>2. QED
    BY <1>1, <1>4, <2>1
<1>12. cipher' = Write(cipher, at, s)
  BY <1>2, <1>6, <1>8, <1>10, <1>11
<1>13. /\ Write(cipher, at, s) \in Seq(Byte)
       /\ Len(Write(cipher, at, s)) = Len(cipher)
       /\ \A i \in 1 .. Len(cipher) :
            Write(cipher, at, s)[i] =
              IF at < i /\ i <= at + Len(s) THEN s[i - at] ELSE cipher[i]
  BY <1>1, <1>10, <1>11, WriteExact
<1>14. ASSUME NEW j \in 1 .. k + 1
       PROVE  BytesNumber(Slice(cipher', (j - 1) * c, c))
                = PowerMod(BytesNumber(Block(j)), key.e, n)
  <2>1. CASE j = k + 1
    <3>1. (j - 1) * c = at
      BY <1>11, <2>1
    <3>2. Slice(Write(cipher, at, s), at, c) = s
      BY <1>1, <1>10, <1>11, SliceWritten
    <3>3. QED
      BY <1>5, <1>8, <1>10, <1>12, <2>1, <3>1, <3>2
  <2>2. CASE j # k + 1
    <3>1. PICK i \in Nat : i = j - 1 /\ i < k /\ j \in 1 .. k
      <4>1. j - 1 \in Nat /\ j - 1 < k /\ j \in 1 .. k
        BY <2>2
      <4>2. QED
        BY <4>1
    <3>2. PICK from \in Nat : from = i * c /\ from + c <= at
      <4>1. i * c \in Nat /\ i * c + c <= k * c
        BY <3>1, Multiples
      <4>2. QED
        BY <1>11, <4>1
    <3>3. Slice(Write(cipher, at, s), from, c) = Slice(cipher, from, c)
      <4>1. /\ cipher \in Seq(Byte) /\ s \in Seq(Byte)
            /\ at + Len(s) <= Len(cipher) /\ from + c <= at /\ c \in Nat
        BY <1>1, <1>10, <1>11, <3>2
      <4>2. QED
        BY <4>1, SliceKept
    <3>4. BytesNumber(Slice(cipher, (j - 1) * c, c))
            = PowerMod(BytesNumber(Block(j)), key.e, n)
      BY <1>2, <3>1 DEF Encrypted
    <3>5. QED
      BY <1>12, <3>1, <3>2, <3>3, <3>4
  <2>3. QED
    BY <2>1, <2>2
<1>15. ASSUME NEW i \in (k + 1) * c + 1 .. Len(cipher) PROVE cipher'[i] = 0
  <2>1. i \in 1 .. Len(cipher) /\ i > at + c /\ i \in k * c + 1 .. Len(cipher)
    BY <1>1, <1>11
  <2>2. cipher[i] = 0
    BY <1>2, <2>1 DEF Encrypted
  <2>3. QED
    BY <1>10, <1>12, <1>13, <2>1, <2>2
<1>16. Encrypted(k + 1)'
  <2>1. /\ CipherBlockBytes' = c /\ Len(cipher') = Len(cipher)
        /\ key'.e = key.e /\ key'.n = n
        /\ \A j : Block(j)' = Block(j)
    BY <1>2, <1>12, <1>13, BlocksStay
  <2>2. \A j \in 1 .. k + 1 :
          BytesNumber(Slice(cipher, (j - 1) * CipherBlockBytes, CipherBlockBytes))'
            = PowerMod(BytesNumber(Block(j)), key.e, key.n)'
    BY <1>14, <2>1
  <2>3. \A i \in ((k + 1) * CipherBlockBytes + 1)' .. Len(cipher') : cipher'[i] = 0
    BY <1>15, <2>1
  <2>4. QED
    BY <2>2, <2>3 DEF Encrypted
<1>17. QED
  BY <1>6, <1>7, <1>12, <1>13, <1>16

-----------------------------------------------------------------------------
(* A block without its leading zeros is bytes. *)
LEMMA StrippedBytes ==
  ASSUME NEW bytes \in Seq(Byte)
  PROVE  Stripped(bytes) \in Seq(Byte)
<1>1. PICK v \in Nat : v = BytesNumber(bytes)
  BY BytesAreDigits
<1>2. v \in Int /\ v >= 0
  OBVIOUS
<1>3. PICK y : Proper(y) /\ Value(y) = v
  BY <1>2, RepresentExact
<1>4. Magnitude(y) = v
  BY <1>2, <1>3, ProperValue
<1>5. NumberBytes(y) \in Nat
  BY <1>3, NumberBytesExact DEF IsByteCount
<1>6. StoreBytes(y, NumberBytes(y)) \in Seq(Byte)
  BY <1>3, <1>5, StoreBytesExact
<1>7. Stripped(bytes) = StoreBytes(y, NumberBytes(y))
  BY <1>1, <1>3, <1>4, StrippedExact
<1>8. QED
  BY <1>6, <1>7

(* Zeros spell zero. *)
LEMMA ZerosSpell ==
  ASSUME NEW bytes \in Seq(Byte), \A k \in 1 .. Len(bytes) : bytes[k] = 0
  PROVE  BytesNumber(bytes) = 0
<1>1. PICK m \in Nat : m = Len(bytes)
  OBVIOUS
<1>2. BytesNumber(bytes) < ByteWeight(m - m)
  <2>1. m \in 0 .. Len(bytes) /\ \A j \in 1 .. m : bytes[j] = 0
    BY <1>1
  <2>2. BytesNumber(bytes) < ByteWeight(Len(bytes) - m)
    BY <2>1, LeadingZeros
  <2>3. QED
    BY <1>1, <2>2
<1>3. ByteWeight(m - m) = 1
  <2>1. m - m = 0
    OBVIOUS
  <2>2. QED
    BY <2>1, ByteWeights
<1>4. BytesNumber(bytes) \in Nat
  BY BytesAreDigits
<1>5. QED
  BY <1>2, <1>3, <1>4

(* The number a number with no bytes is. *)
LEMMA NoBytes ==
  ASSUME NEW y, Proper(y)
  PROVE  /\ NumberBytes(y) \in Nat
         /\ NumberBytes(y) = 0 <=> Magnitude(y) = 0
<1>1. PICK M \in Nat : M = Magnitude(y)
  BY ProperValue
<1>2. IsByteCount(NumberBytes(y), M)
  BY <1>1, NumberBytesExact
<1>3. ByteWeight(0) = 1
  BY ByteWeights
<1>4. NumberBytes(y) = 0 => M = 0
  BY <1>2, <1>3 DEF IsByteCount
<1>5. ASSUME M = 0 PROVE NumberBytes(y) = 0
  <2>1. IsByteCount(0, M)
    BY <1>3, <1>5 DEF IsByteCount
  <2>2. QED
    BY <1>2, <2>1, ByteCountUnique
<1>6. QED
  BY <1>1, <1>2, <1>4, <1>5 DEF IsByteCount

(***************************************************************************)
(* The heart of the round trip.  A block of the cipher text becomes the    *)
(* block of the message it was made of, without its leading zeros; what    *)
(* lies behind the blocks is a zero, of which there is nothing to store.   *)
(***************************************************************************)
LEMMA BlockDecrypted ==
  ASSUME Typed, Fitting, Encrypted(BlocksOf(Len(message))),
         NEW k \in Nat, k <= BlocksOf(Len(message)), bytesRead = k * CipherBlockBytes,
         bytesRead + CipherBlockBytes <= Len(cipher),
         NEW x \in LoadBytes(inputBlock, Slice(cipher, bytesRead, CipherBlockBytes), TRUE),
         NEW y, y = Exponentiation(x, key.d)
  PROVE  /\ Ready(x) /\ Proper(y)
         /\ k < BlocksOf(Len(message)) =>
              /\ Block(k + 1) \in Seq(Byte)
              /\ StoreBytes(y, NumberBytes(y)) = Stripped(Block(k + 1))
              /\ NumberBytes(y) = 0 => BytesNumber(Block(k + 1)) = 0
         /\ NumberBytes(y) > 0 => k < BlocksOf(Len(message))
<1>1. key \in Keys /\ message \in Seq(Byte) /\ cipher \in Seq(Byte) /\ Ready(inputBlock)
  BY DEF Typed
<1>2. PICK c \in Nat \ {0}, n \in Nat \ {0} : c = CipherBlockBytes /\ n = key.n
  BY <1>1, BlockSizes
<1>3. PICK B \in Nat : B = BlocksOf(Len(message))
  <2>1. MessageBlockBytes \in Nat \ {0} /\ Len(message) \in Nat
    BY <1>1, BlockSizes DEF Fitting
  <2>2. QED
    BY <2>1, BlockCount
<1>4. PICK at \in Nat : at = k * c /\ at = bytesRead /\ at + c <= Len(cipher)
  <2>1. k * c \in Nat
    BY Multiples
  <2>2. QED
    BY <1>2, <2>1
<1>5. PICK s : /\ s = Slice(cipher, at, c) /\ s \in Seq(Byte) /\ Len(s) = c
               /\ \A i \in 1 .. c : s[i] = cipher[at + i]
  <2>1. c \in Nat
    OBVIOUS
  <2>2. Slice(cipher, at, c) \in Seq(Byte) /\ IsSlice(Slice(cipher, at, c), cipher, at, c)
    BY <1>1, <1>4, <2>1, SliceExact
  <2>3. QED
    BY <2>2 DEF IsSlice
<1>6. x \in LoadBytes(inputBlock, s, TRUE)
  BY <1>2, <1>4, <1>5
<1>7. Ready(x) /\ Value(x) = BytesNumber(s)
  BY <1>1, <1>5, <1>6, BlockLoaded
<1>8. PICK w \in Nat : w = BytesNumber(s)
  BY <1>5, BytesAreDigits
<1>9. key.d \in Nat /\ key.d # 0 /\ key.e \in Nat
  BY <1>1, KeysAssumption
<1>10. Proper(y) /\ Magnitude(y) = PowerMod(w, key.d, n)
  BY <1>1, <1>2, <1>7, <1>8, <1>9, ExponentiationExact
<1>11. ASSUME k < B
       PROVE  /\ Block(k + 1) \in Seq(Byte)
              /\ StoreBytes(y, NumberBytes(y)) = Stripped(Block(k + 1))
              /\ NumberBytes(y) = 0 => BytesNumber(Block(k + 1)) = 0
  <2>1. PICK v \in 0 .. n - 1 : v = BytesNumber(Block(k + 1)) /\ Block(k + 1) \in Seq(Byte)
    <3>1. k + 1 \in 1 .. BlocksOf(Len(message))
      BY <1>3, <1>11
    <3>2. QED
      BY <1>1, <1>2, <3>1, BlockExact DEF Fitting
  <2>2. w = PowerMod(v, key.e, n)
    <3>1. k + 1 \in 1 .. BlocksOf(Len(message)) /\ (k + 1) - 1 = k
      BY <1>3, <1>11
    <3>2. BytesNumber(Slice(cipher, ((k + 1) - 1) * c, c))
            = PowerMod(BytesNumber(Block(k + 1)), key.e, n)
      BY <1>2, <3>1 DEF Encrypted
    <3>3. QED
      BY <1>4, <1>5, <1>8, <2>1, <3>1, <3>2
  <2>3. PowerMod(w, key.d, n) = v
    BY <1>1, <1>2, <2>1, <2>2, ExponentsAssumption
  <2>4. StoreBytes(y, NumberBytes(y)) = Stripped(Block(k + 1))
    BY <1>10, <2>1, <2>3, StrippedExact
  <2>5. NumberBytes(y) = 0 => v = 0
    BY <1>10, <2>3, NoBytes
  <2>6. QED
    BY <2>1, <2>4, <2>5
<1>12. ASSUME ~(k < B) PROVE NumberBytes(y) = 0
  <2>1. k = B
    BY <1>3, <1>12
  <2>2. \A i \in 1 .. c : s[i] = 0
    <3>1. TAKE i \in 1 .. c
    <3>2. at + i \in B * c + 1 .. Len(cipher)
      BY <1>1, <1>4, <2>1
    <3>3. cipher[at + i] = 0
      BY <1>2, <1>3, <3>2 DEF Encrypted
    <3>4. QED
      BY <1>5, <3>3
  <2>3. w = 0
    BY <1>5, <1>8, <2>2, ZerosSpell
  <2>4. PowerMod(w, key.d, n) = 0
    BY <1>9, <2>3, PowerModExact
  <2>5. QED
    BY <1>10, <2>4, NoBytes
<1>13. NumberBytes(y) > 0 => k < BlocksOf(Len(message))
  BY <1>3, <1>12
<1>14. QED
  BY <1>3, <1>7, <1>10, <1>11, <1>13

(* The blocks written so far, and one more. *)
LEMMA BlockWritten ==
  ASSUME Typed, Fitting, NothingWrittenBehind,
         NEW k \in Nat, k < BlocksOf(Len(message)),
         SubSeq(plain, 1, outputBytesWritten) = FlattenSeq(StrippedBlocks(k)),
         NEW s, s = Stripped(Block(k + 1)), outputBytesWritten + Len(s) <= Len(plain)
  PROVE  LET w == Write(plain, outputBytesWritten, s)
             o == outputBytesWritten + Len(s)
         IN  /\ w \in Seq(Byte \cup {Untouched}) /\ Len(w) = Len(plain)
             /\ o \in Nat /\ o <= Len(w)
             /\ SubSeq(w, 1, o) = FlattenSeq(StrippedBlocks(k + 1))
             /\ \A i \in o + 1 .. Len(w) : w[i] = Untouched
<1>1. /\ key \in Keys /\ message \in Seq(Byte) /\ plain \in Seq(Byte \cup {Untouched})
      /\ outputBytesWritten \in Nat
  BY DEF Typed
<1>2. PICK B \in Nat : B = BlocksOf(Len(message)) /\ k < B
  <2>1. MessageBlockBytes \in Nat \ {0} /\ Len(message) \in Nat
    BY <1>1, BlockSizes DEF Fitting
  <2>2. QED
    BY <2>1, BlockCount
<1>3. \A j \in 1 .. k + 1 : Stripped(Block(j)) \in Seq(Byte)
  <2>1. TAKE j \in 1 .. k + 1
  <2>2. j \in 1 .. BlocksOf(Len(message))
    BY <1>2
  <2>3. Block(j) \in Seq(Byte)
    BY <1>1, <2>2, BlockExact DEF Fitting
  <2>4. QED
    BY <2>3, StrippedBytes
<1>4. PICK m \in Nat : m = Len(s) /\ s \in Seq(Byte) /\ s \in Seq(Byte \cup {Untouched})
  <2>1. s \in Seq(Byte)
    BY <1>3
  <2>2. s \in Seq(Byte \cup {Untouched})
    BY <2>1, SeqMonotonic
  <2>3. QED
    BY <2>1, <2>2
<1>5. PICK at \in Nat : at = outputBytesWritten /\ at + m <= Len(plain) /\ at + m \in Nat
  BY <1>1, <1>4
<1>6. PICK w : w = Write(plain, at, s)
  OBVIOUS
<1>7. /\ w \in Seq(Byte \cup {Untouched}) /\ Len(w) = Len(plain)
      /\ \A i \in 1 .. Len(plain) :
           w[i] = IF at < i /\ i <= at + Len(s) THEN s[i - at] ELSE plain[i]
  <2>1. /\ plain \in Seq(Byte \cup {Untouched}) /\ s \in Seq(Byte \cup {Untouched})
        /\ at + Len(s) <= Len(plain)
    BY <1>1, <1>4, <1>5
  <2>2. QED
    BY <1>6, <2>1, WriteExact
<1>8. SubSeq(w, 1, at + Len(s)) = SubSeq(plain, 1, at) \o s
  <2>1. /\ plain \in Seq(Byte \cup {Untouched}) /\ s \in Seq(Byte \cup {Untouched})
        /\ at + Len(s) <= Len(plain)
    BY <1>1, <1>4, <1>5
  <2>2. PICK T : T = Byte \cup {Untouched}
    OBVIOUS
  <2>3. plain \in Seq(T) /\ s \in Seq(T) /\ at \in Nat
    BY <2>1, <2>2
  <2>4. SubSeq(Write(plain, at, s), 1, at + Len(s)) = SubSeq(plain, 1, at) \o s
    BY <2>1, <2>3, StartWritten, ZenonT(60)
  <2>5. QED
    BY <1>6, <2>4
<1>9. FlattenSeq(StrippedBlocks(k + 1)) = FlattenSeq(StrippedBlocks(k)) \o s
  <2>1. PICK all : all = StrippedBlocks(k + 1)
    OBVIOUS
  <2>2. all \in [1 .. k + 1 -> Seq(Byte)] /\ all[k + 1] = s
    BY <1>3, <2>1 DEF StrippedBlocks
  <2>3. StrippedBlocks(k) = [j \in 1 .. k |-> all[j]]
    BY <2>1 DEF StrippedBlocks
  <2>4. FlattenSeq(all) = FlattenSeq(StrippedBlocks(k)) \o all[k + 1]
    BY <2>2, <2>3, FlattenAppend
  <2>5. QED
    BY <2>1, <2>2, <2>4
<1>10. SubSeq(plain, 1, at) = FlattenSeq(StrippedBlocks(k))
  BY <1>5
<1>11. SubSeq(w, 1, at + m) = FlattenSeq(StrippedBlocks(k + 1))
  BY <1>4, <1>8, <1>9, <1>10
<1>12. \A i \in at + m + 1 .. Len(w) : w[i] = Untouched
  <2>1. TAKE i \in at + m + 1 .. Len(w)
  <2>2. i \in 1 .. Len(plain) /\ ~(i <= at + m) /\ i \in at + 1 .. Len(plain)
    BY <1>1, <1>7
  <2>3. plain[i] = Untouched
    BY <1>5, <2>2 DEF NothingWrittenBehind
  <2>4. QED
    BY <1>4, <1>7, <2>2, <2>3
<1>13. QED
  BY <1>4, <1>5, <1>6, <1>7, <1>11, <1>12

-----------------------------------------------------------------------------
(* The first state. *)
LEMMA InitInv == Init => IInv
<1>1. SUFFICES ASSUME Init PROVE IInv
  OBVIOUS
<1>2. PICK size \in Nat : cipher = [k \in 1 .. size |-> 0]
  BY <1>1, SizesAssumption DEF Init
<1>3. cipher \in Seq(Byte) /\ \A i \in 1 .. Len(cipher) : cipher[i] = 0
  <2>1. 0 \in Byte
    BY ByteWeights
  <2>2. QED
    BY <1>2, <2>1
<1>4. PICK room \in Nat : plain = [k \in 1 .. room |-> Untouched]
  BY <1>1, SizesAssumption DEF Init
<1>5. /\ plain \in Seq(Byte \cup {Untouched}) /\ Len(plain) = room
      /\ \A k \in 1 .. room : plain[k] = Untouched
  BY <1>4
<1>6. Typed
  BY <1>1, <1>3, <1>5, DefaultReady, MessagesAssumption DEF Init, Typed
<1>7. outputBytesWritten = 0 /\ pc = "encrypt" /\ bytesRead = 0 /\ bytesWritten = 0
  BY <1>1 DEF Init
<1>8. NothingWrittenBehind
  BY <1>5, <1>7 DEF NothingWrittenBehind
<1>9. Phases
  BY <1>3, <1>7, <1>8 DEF Phases, NothingEncrypted
<1>10. QED
  BY <1>6, <1>9 DEF IInv

(* What stays of the first part of the invariant when neither the cipher text *)
(* nor the counts of what was read change.                                    *)
LEMMA TextStays ==
  ASSUME key' = key, message' = message, cipher' = cipher
  PROVE  /\ Fitting => Fitting'
         /\ \A k : Encrypted(k) => Encrypted(k)'
<1>1. /\ CipherBlockBytes' = CipherBlockBytes
      /\ MessageBlockBytes' = MessageBlockBytes
      /\ BlocksOf(Len(message))' = BlocksOf(Len(message))
      /\ \A j : Block(j)' = Block(j)
  BY BlocksStay
<1>2. Fitting => Fitting'
  BY <1>1 DEF Fitting
<1>3. \A k : Encrypted(k) => Encrypted(k)'
  BY <1>1 DEF Encrypted
<1>4. QED
  BY <1>2, <1>3

(* rsaEncrypt begins. *)
LEMMA EncryptStartInv ==
  ASSUME IInv, EncryptStart
  PROVE  IInv'
<1>1. /\ pc = "encrypt" /\ key' = key /\ message' = message /\ cipher' = cipher
      /\ plain' = plain /\ bytesRead' = bytesRead /\ bytesWritten' = bytesWritten
      /\ outputBytesWritten' = outputBytesWritten /\ inputBlock' = inputBlock
      /\ front' = front
      /\ pc' = IF MessageBlockBytes = 0 THEN "divided by zero"
               ELSE IF Len(cipher) < BlocksOf(Len(message)) * CipherBlockBytes
                    THEN "threw" ELSE "encryptBlock"
  BY DEF EncryptStart
<1>2. Typed /\ Phases
  BY DEF IInv
<1>3. Typed'
  BY <1>1, <1>2 DEF Typed
<1>4. NothingWrittenBehind'
  BY <1>1, <1>2 DEF Phases, NothingWrittenBehind
<1>5. /\ outputBytesWritten = 0 /\ bytesRead = 0 /\ bytesWritten = 0
      /\ \A i \in 1 .. Len(cipher) : cipher[i] = 0
  BY <1>1, <1>2 DEF Phases, NothingEncrypted
<1>6. ASSUME pc' = "encryptBlock" PROVE SomeEncrypted'
  <2>1. key \in Keys /\ message \in Seq(Byte) /\ cipher \in Seq(Byte)
    BY <1>2 DEF Typed
  <2>2. MessageBlockBytes \in Nat \ {0} /\ CipherBlockBytes \in Nat
    BY <1>1, <1>6, <2>1, BlockSizes
  <2>3. BlocksOf(Len(message)) \in Nat /\ Len(message) \in Nat /\ Len(cipher) \in Nat
    <3>1. Len(message) \in Nat /\ Len(cipher) \in Nat
      BY <2>1
    <3>2. QED
      BY <2>2, <3>1, BlockCount
  <2>4. BlocksOf(Len(message)) * CipherBlockBytes \in Nat
    BY <2>2, <2>3
  <2>5. Fitting
    BY <1>1, <1>6, <2>2, <2>3, <2>4 DEF Fitting
  <2>6. 0 * MessageBlockBytes = 0 /\ 0 * CipherBlockBytes = 0
    BY <2>2
  <2>7. Encrypted(0)
    BY <1>5, <2>6 DEF Encrypted
  <2>8. Fitting' /\ Encrypted(0)'
    BY <1>1, <2>5, <2>7, TextStays
  <2>9. MessageBlockBytes' = MessageBlockBytes /\ CipherBlockBytes' = CipherBlockBytes
    BY <1>1, BlocksStay
  <2>10. Encrypting(0)'
    <3>1. 0 * MessageBlockBytes' = 0 /\ 0 * CipherBlockBytes' = 0
      BY <2>6, <2>9
    <3>2. 0 * MessageBlockBytes' <= Len(message')
      <4>1. PICK l \in Nat : l = Len(message')
        BY <1>1, <2>3
      <4>2. 0 <= l
        OBVIOUS
      <4>3. QED
        BY <3>1, <4>1, <4>2
    <3>3. bytesRead' = 0 * MessageBlockBytes' /\ bytesWritten' = 0 * CipherBlockBytes'
      BY <1>1, <1>5, <3>1
    <3>4. QED
      BY <2>8, <3>2, <3>3 DEF Encrypting
  <2>11. QED
    BY <2>8, <2>10 DEF SomeEncrypted
<1>7. /\ outputBytesWritten' = 0 /\ ~(outputBytesWritten' > 0)
      /\ pc' \in {"divided by zero", "threw", "encryptBlock"}
  <2>1. outputBytesWritten' = 0
    BY <1>1, <1>5
  <2>2. pc' \in {"divided by zero", "threw", "encryptBlock"}
    BY <1>1
  <2>3. ~(0 > 0)
    OBVIOUS
  <2>4. QED
    BY <2>1, <2>2, <2>3
<1>8. Phases'
  BY <1>4, <1>6, <1>7 DEF Phases
<1>9. QED
  BY <1>3, <1>8 DEF IInv

(* A whole block of the message is encrypted. *)
LEMMA EncryptBlockInv ==
  ASSUME IInv, EncryptBlock
  PROVE  IInv' /\ Len(cipher') = Len(cipher)
<1>1. /\ pc = "encryptBlock" /\ pc' = pc /\ key' = key /\ message' = message
      /\ plain' = plain /\ outputBytesWritten' = outputBytesWritten /\ front' = front
      /\ bytesRead + MessageBlockBytes <= Len(message)
      /\ EncryptTo(MessageBlockBytes)
      /\ bytesRead' = bytesRead + MessageBlockBytes
      /\ bytesWritten' = bytesWritten + CipherBlockBytes
  BY DEF EncryptBlock
<1>2. Typed /\ Phases
  BY DEF IInv
<1>3. Fitting /\ key \in Keys /\ message \in Seq(Byte)
  BY <1>1, <1>2 DEF Typed, Phases, SomeEncrypted
<1>4. PICK k \in Nat : Encrypting(k)
  BY <1>1, <1>2 DEF Phases, SomeEncrypted
<1>5. PICK m \in Nat \ {0}, c \in Nat \ {0} : m = MessageBlockBytes /\ c = CipherBlockBytes
  BY <1>3, BlockSizes DEF Fitting
<1>6. PICK l \in Nat : l = Len(message)
  BY <1>3
<1>7. PICK at \in Nat : at = k * m /\ bytesRead = at /\ at + m <= l /\ (k + 1) * m = at + m
  <2>1. k * m \in Nat /\ (k + 1) * m = k * m + m
    BY Multiples
  <2>2. QED
    BY <1>1, <1>4, <1>5, <1>6, <2>1 DEF Encrypting
<1>8. k < BlocksOf(Len(message))
  <2>1. MessageBlockBytes \in Nat \ {0} /\ Len(message) \in Nat
    BY <1>5, <1>6
  <2>2. k < BlocksOf(Len(message)) <=> k * MessageBlockBytes < Len(message)
    BY <2>1, BlockCount
  <2>3. k * MessageBlockBytes < Len(message)
    BY <1>5, <1>6, <1>7
  <2>4. QED
    BY <2>2, <2>3
<1>9. Slice(message, bytesRead, MessageBlockBytes) = Block(k + 1)
  <2>1. (k + 1) - 1 = k
    OBVIOUS
  <2>2. QED
    BY <1>5, <1>6, <1>7, <2>1 DEF Block
<1>10. /\ Ready(inputBlock') /\ cipher' \in Seq(Byte) /\ Len(cipher') = Len(cipher)
       /\ Encrypted(k + 1)'
  BY <1>1, <1>2, <1>3, <1>4, <1>8, <1>9, EncryptToExact DEF Encrypting
<1>11. PICK to \in Nat : bytesWritten = k * c /\ bytesWritten' = to /\ to = (k + 1) * c
  <2>1. (k + 1) * c = k * c + c /\ (k + 1) * c \in Nat
    BY Multiples
  <2>2. QED
    BY <1>1, <1>4, <1>5, <2>1 DEF Encrypting
<1>12. Typed'
  BY <1>1, <1>2, <1>5, <1>7, <1>10, <1>11 DEF Typed
<1>13. SomeEncrypted'
  <2>1. /\ MessageBlockBytes' = m /\ CipherBlockBytes' = c
        /\ BlocksOf(Len(message))' = BlocksOf(Len(message))
    BY <1>1, <1>5, BlocksStay
  <2>2. Fitting'
    BY <1>3, <1>5, <1>10, <2>1 DEF Fitting
  <2>3. k + 1 \in Nat
    OBVIOUS
  <2>4. (k + 1) * m <= Len(message')
    BY <1>1, <1>6, <1>7
  <2>5. bytesRead' = (k + 1) * m /\ bytesWritten' = (k + 1) * c
    BY <1>1, <1>5, <1>7, <1>11
  <2>6. Encrypting(k + 1)'
    BY <1>10, <2>1, <2>4, <2>5 DEF Encrypting
  <2>7. QED
    BY <2>2, <2>3, <2>6 DEF SomeEncrypted
<1>14. NothingWrittenBehind' /\ outputBytesWritten' = 0
  BY <1>1, <1>2 DEF Phases, NothingWrittenBehind
<1>15. Phases'
  <2>1. ~(0 > 0)
    OBVIOUS
  <2>2. QED
    BY <1>1, <1>13, <1>14, <2>1 DEF Phases
<1>16. QED
  BY <1>10, <1>12, <1>15 DEF IInv

(* The last block is encrypted, when it is a short one, and rsaEncrypt ends. *)
LEMMA EncryptEndInv ==
  ASSUME IInv, EncryptEnd
  PROVE  IInv' /\ Len(cipher') = Len(cipher)
<1>1. /\ pc = "encryptBlock" /\ pc' = "decrypt" /\ key' = key /\ message' = message
      /\ plain' = plain /\ outputBytesWritten' = outputBytesWritten /\ front' = front
      /\ bytesRead' = bytesRead /\ bytesWritten' = bytesWritten
      /\ bytesRead + MessageBlockBytes > Len(message)
      /\ IF bytesRead # Len(message)
         THEN EncryptTo(Len(message) - bytesRead)
         ELSE inputBlock' = inputBlock /\ cipher' = cipher
  BY DEF EncryptEnd
<1>2. Typed /\ Phases
  BY DEF IInv
<1>3. Fitting /\ key \in Keys /\ message \in Seq(Byte)
  BY <1>1, <1>2 DEF Typed, Phases, SomeEncrypted
<1>4. PICK k \in Nat : Encrypting(k)
  BY <1>1, <1>2 DEF Phases, SomeEncrypted
<1>5. PICK m \in Nat \ {0}, c \in Nat \ {0} : m = MessageBlockBytes /\ c = CipherBlockBytes
  BY <1>3, BlockSizes DEF Fitting
<1>6. PICK l \in Nat : l = Len(message)
  BY <1>3
<1>7. PICK at \in Nat : /\ at = k * m /\ bytesRead = at /\ at <= l /\ at + m > l
                        /\ (k + 1) * m = at + m
  <2>1. k * m \in Nat /\ (k + 1) * m = k * m + m
    BY Multiples
  <2>2. QED
    BY <1>1, <1>4, <1>5, <1>6, <2>1 DEF Encrypting
<1>8. PICK B \in Nat : B = BlocksOf(Len(message)) /\ \A j \in Nat : j < B <=> j * m < l
  <2>1. MessageBlockBytes \in Nat \ {0} /\ Len(message) \in Nat
    BY <1>5, <1>6
  <2>2. QED
    BY <1>5, <1>6, <2>1, BlockCount
<1>9. ~(k + 1 < B)
  <2>1. k + 1 \in Nat /\ ~((k + 1) * m < l)
    BY <1>7
  <2>2. QED
    BY <1>8, <2>1
<1>10. /\ Ready(inputBlock') /\ cipher' \in Seq(Byte) /\ Len(cipher') = Len(cipher)
       /\ Encrypted(B)'
  <2>1. CASE at # l
    <3>1. k < B
      BY <1>7, <1>8, <2>1
    <3>2. k + 1 = B
      BY <1>9, <3>1
    <3>3. Slice(message, bytesRead, Len(message) - bytesRead) = Block(k + 1)
      <4>1. (k + 1) - 1 = k
        OBVIOUS
      <4>2. QED
        BY <1>5, <1>6, <1>7, <4>1 DEF Block
    <3>4. EncryptTo(Len(message) - bytesRead)
      BY <1>1, <1>6, <1>7, <2>1
    <3>5. k < BlocksOf(Len(message)) /\ bytesWritten = k * CipherBlockBytes /\ Encrypted(k)
      BY <1>4, <1>8, <3>1 DEF Encrypting
    <3>6. PICK count : count = Len(message) - bytesRead
      OBVIOUS
    <3>7. /\ Ready(inputBlock') /\ cipher' \in Seq(Byte) /\ Len(cipher') = Len(cipher)
          /\ Encrypted(k + 1)'
      BY <1>1, <1>2, <1>3, <3>3, <3>4, <3>5, <3>6, EncryptToExact
    <3>8. QED
      BY <3>2, <3>7
  <2>2. CASE at = l
    <3>1. ~(k < B)
      BY <1>7, <1>8, <2>2
    <3>2. k = B
      <4>1. SUFFICES ASSUME B < k PROVE FALSE
        BY <3>1
      <4>2. B * m + m <= k * m /\ B * m \in Nat
        BY <4>1, Multiples
      <4>3. B * m < l
        BY <1>7, <2>2, <4>2
      <4>4. QED
        BY <1>8, <4>3
    <3>3. inputBlock' = inputBlock /\ cipher' = cipher
      BY <1>1, <1>6, <1>7, <2>2
    <3>4. Encrypted(k)'
      BY <1>1, <1>4, <3>3, TextStays DEF Encrypting
    <3>5. QED
      BY <1>2, <3>2, <3>3, <3>4 DEF Typed
  <2>3. QED
    BY <2>1, <2>2
<1>11. Typed'
  BY <1>1, <1>2, <1>10 DEF Typed
<1>12. AllEncrypted'
  <2>1. /\ MessageBlockBytes' = m /\ CipherBlockBytes' = c
        /\ BlocksOf(Len(message))' = B
    BY <1>1, <1>5, <1>8, BlocksStay
  <2>2. Fitting'
    BY <1>3, <1>5, <1>8, <1>10, <2>1 DEF Fitting
  <2>3. QED
    BY <1>10, <2>1, <2>2 DEF AllEncrypted
<1>13. NothingWrittenBehind' /\ outputBytesWritten' = 0
  BY <1>1, <1>2 DEF Phases, NothingWrittenBehind
<1>14. Phases'
  <2>1. ~(0 > 0)
    OBVIOUS
  <2>2. QED
    BY <1>1, <1>12, <1>13, <2>1 DEF Phases
<1>15. QED
  BY <1>10, <1>11, <1>14 DEF IInv

(* rsaDecrypt begins. *)
LEMMA DecryptStartInv ==
  ASSUME IInv, DecryptStart
  PROVE  IInv'
<1>1. /\ pc = "decrypt" /\ key' = key /\ message' = message /\ cipher' = cipher
      /\ plain' = plain /\ front' = front /\ bytesWritten' = bytesWritten
      /\ IF Len(cipher) % CipherBlockBytes # 0
         THEN /\ pc' = "threw" /\ bytesRead' = bytesRead
              /\ outputBytesWritten' = outputBytesWritten /\ inputBlock' = inputBlock
         ELSE /\ pc' = "decryptBlock" /\ bytesRead' = 0
              /\ outputBytesWritten' = 0 /\ inputBlock' = BigNumDefault
  BY DEF DecryptStart
<1>2. Typed /\ Phases
  BY DEF IInv
<1>3. AllEncrypted /\ outputBytesWritten = 0
  BY <1>1, <1>2 DEF Phases
<1>4. key \in Keys /\ message \in Seq(Byte) /\ plain \in Seq(Byte \cup {Untouched})
  BY <1>2 DEF Typed
<1>5. PICK m \in Nat \ {0}, c \in Nat \ {0} : m = MessageBlockBytes /\ c = CipherBlockBytes
  BY <1>3, <1>4, BlockSizes DEF AllEncrypted, Fitting
<1>6. PICK B \in Nat : B = BlocksOf(Len(message))
  <2>1. MessageBlockBytes \in Nat \ {0} /\ Len(message) \in Nat
    BY <1>4, <1>5
  <2>2. QED
    BY <2>1, BlockCount
<1>7. AllEncrypted'
  <2>2. BlocksOf(Len(message))' = B
    BY <1>1, <1>6, BlocksStay
  <2>3. Fitting' /\ Encrypted(B)'
    BY <1>1, <1>3, <1>6, TextStays DEF AllEncrypted
  <2>4. QED
    BY <2>2, <2>3 DEF AllEncrypted
<1>8. Typed'
  <2>1. Ready(inputBlock') /\ bytesRead' \in Nat
    BY <1>1, <1>2, DefaultReady DEF Typed
  <2>2. QED
    BY <1>1, <1>2, <1>3, <2>1 DEF Typed
<1>9. NothingWrittenBehind'
  BY <1>1, <1>2, <1>3 DEF Phases, NothingWrittenBehind
<1>10. ASSUME pc' = "decryptBlock" PROVE SomeDecrypted'
  <2>1. Len(cipher') % CipherBlockBytes' = 0
    BY <1>1, <1>10, BlocksStay
  <2>2. BlocksOf(Len(message))' = B /\ CipherBlockBytes' = c
    BY <1>1, <1>5, <1>6, BlocksStay
  <2>3. 0 <= B /\ 0 * c = 0
    OBVIOUS
  <2>4. StrippedBlocks(0)' = <<>>
    <3>1. StrippedBlocks(0)' = StrippedBlocks(0)
      BY <1>1, BlocksStay
    <3>2. QED
      BY <3>1 DEF StrippedBlocks
  <2>5. FlattenSeq(<<>>) = <<>>
    <3>1. PICK none : none = <<>> /\ Len(none) = 0
      OBVIOUS
    <3>2. FlattenSeq(none) = none
      BY <3>1, FlattenEmpty
    <3>3. QED
      BY <3>1, <3>2
  <2>6. FlattenSeq(StrippedBlocks(0))' = <<>>
    BY <2>4, <2>5
  <2>7. SubSeq(plain, 1, outputBytesWritten)' = <<>>
    BY <1>1, <1>3, <1>4
  <2>8. Decrypting(0)'
    BY <1>1, <1>10, <2>2, <2>3, <2>6, <2>7 DEF Decrypting
  <2>9. pc' # "done"
    BY <1>10
  <2>10. 0 \in Nat
    OBVIOUS
  <2>11. QED
    BY <2>1, <2>8, <2>9, <2>10 DEF SomeDecrypted
<1>11. outputBytesWritten' = 0 /\ ~(outputBytesWritten' > 0) /\ pc' \in {"threw", "decryptBlock"}
  <2>1. outputBytesWritten' = 0
    BY <1>1, <1>3
  <2>2. pc' \in {"threw", "decryptBlock"}
    BY <1>1
  <2>3. ~(0 > 0)
    OBVIOUS
  <2>4. QED
    BY <2>1, <2>2, <2>3
<1>12. Phases'
  BY <1>7, <1>9, <1>10, <1>11 DEF Phases
<1>13. QED
  BY <1>8, <1>12 DEF IInv

(* The block behind the k that were read, when it is a zero or there is none. *)
LEMMA NextBlock ==
  ASSUME Typed, Fitting, NEW k \in Nat, bytesRead = k * CipherBlockBytes,
         k < BlocksOf(Len(message)) => BytesNumber(Block(k + 1)) = 0
  PROVE  NextBlockIsZero
<1>1. key \in Keys /\ message \in Seq(Byte)
  BY DEF Typed
<1>2. PICK c \in Nat \ {0} : c = CipherBlockBytes
  BY <1>1, BlockSizes
<1>3. BlocksOf(Len(message)) \in Nat
  <2>1. MessageBlockBytes \in Nat \ {0} /\ Len(message) \in Nat
    BY <1>1, BlockSizes DEF Fitting
  <2>2. QED
    BY <2>1, BlockCount
<1>4. bytesRead \div CipherBlockBytes = k
  <2>1. (k * c) \div c = k
    OBVIOUS
  <2>2. QED
    BY <1>2, <2>1
<1>5. BytesValue(Block(k + 1)) = BytesNumber(Block(k + 1))
  BY DEF BytesValue, BytesNumber
<1>6. k + 1 <= BlocksOf(Len(message)) => k < BlocksOf(Len(message))
  BY <1>3
<1>7. QED
  BY <1>4, <1>5, <1>6 DEF NextBlockIsZero

(* A block of the cipher text is decrypted, and its bytes are written when *)
(* there is room for them; when there are none, zeros are written back to  *)
(* the byte in front of the buffer.                                        *)
LEMMA DecryptBlockInv ==
  ASSUME IInv, DecryptBlock
  PROVE  /\ IInv' /\ Len(plain') = Len(plain)
         /\ front' # front => NextBlockIsZero
<1>1. PICK x \in LoadBytes(inputBlock, Slice(cipher, bytesRead, CipherBlockBytes), TRUE) :
        LET y     == Exponentiation(x, key.d)
            count == NumberBytes(y)
        IN  /\ inputBlock' = x
            /\ IF Room(count)
               THEN StoreBlock(y, count)
               ELSE /\ pc' = "threw" /\ plain' = plain /\ front' = front
                    /\ outputBytesWritten' = outputBytesWritten
                    /\ bytesRead' = bytesRead
  BY DEF DecryptBlock
<1>2. /\ pc = "decryptBlock" /\ key' = key /\ message' = message /\ cipher' = cipher
      /\ bytesWritten' = bytesWritten /\ bytesRead + CipherBlockBytes <= Len(cipher)
  BY DEF DecryptBlock
<1>3. PICK y, count : y = Exponentiation(x, key.d) /\ count = NumberBytes(y)
  OBVIOUS
<1>4. Typed /\ NothingWrittenBehind /\ AllEncrypted /\ SomeDecrypted
  BY <1>2 DEF IInv, Phases
<1>5. PICK k \in Nat : Decrypting(k)
  BY <1>4 DEF SomeDecrypted
<1>6. key \in Keys /\ message \in Seq(Byte) /\ cipher \in Seq(Byte) /\ Fitting
  BY <1>4 DEF Typed, AllEncrypted
<1>7. PICK c \in Nat \ {0} : c = CipherBlockBytes
  BY <1>6, BlockSizes
<1>8. PICK B \in Nat : B = BlocksOf(Len(message)) /\ k <= B
  <2>1. MessageBlockBytes \in Nat \ {0} /\ Len(message) \in Nat
    BY <1>6, BlockSizes DEF Fitting
  <2>2. QED
    BY <1>5, <2>1, BlockCount DEF Decrypting
<1>9. /\ Ready(x) /\ Proper(y)
      /\ k < B => /\ Block(k + 1) \in Seq(Byte)
                  /\ StoreBytes(y, NumberBytes(y)) = Stripped(Block(k + 1))
                  /\ NumberBytes(y) = 0 => BytesNumber(Block(k + 1)) = 0
      /\ NumberBytes(y) > 0 => k < B
  <2>1. /\ Typed /\ Fitting /\ Encrypted(BlocksOf(Len(message)))
        /\ k <= BlocksOf(Len(message)) /\ bytesRead = k * CipherBlockBytes
        /\ bytesRead + CipherBlockBytes <= Len(cipher)
    BY <1>2, <1>4, <1>5, <1>6 DEF AllEncrypted, Decrypting
  <2>2. QED
    BY <1>3, <1>8, <2>1, BlockDecrypted
<1>10. count \in Nat
  BY <1>3, <1>9, NoBytes
<1>11. /\ CipherBlockBytes' = c /\ BlocksOf(Len(message))' = B
       /\ \A j : Block(j)' = Block(j)
       /\ \A j : StrippedBlocks(j)' = StrippedBlocks(j)
  BY <1>2, <1>7, <1>8, BlocksStay
<1>12. AllEncrypted'
  <2>1. Fitting' /\ Encrypted(B)'
    BY <1>2, <1>4, <1>8, TextStays DEF AllEncrypted
  <2>2. QED
    BY <1>11, <2>1 DEF AllEncrypted
<1>13. inputBlock' = x /\ Len(cipher') % CipherBlockBytes' = 0
  BY <1>1, <1>2, <1>4, <1>7, <1>11 DEF SomeDecrypted
<1>14. CASE Room(count) /\ count > 0
  <2>1. /\ plain' = Write(plain, outputBytesWritten, StoreBytes(y, count))
        /\ outputBytesWritten' = outputBytesWritten + count
        /\ bytesRead' = bytesRead + c /\ pc' = pc /\ front' = front
    BY <1>1, <1>3, <1>7, <1>14 DEF StoreBlock
  <2>2. k < B
    BY <1>3, <1>9, <1>14
  <2>3. PICK s : /\ s = Stripped(Block(k + 1)) /\ s = StoreBytes(y, count)
                 /\ Len(s) = count
    BY <1>3, <1>9, <1>10, <2>2, StoreBytesExact
  <2>4. outputBytesWritten + Len(s) <= Len(plain) /\ k < BlocksOf(Len(message))
    BY <1>8, <1>14, <2>2, <2>3 DEF Room
  <2>5. PICK w, o : w = Write(plain, outputBytesWritten, s) /\ o = outputBytesWritten + Len(s)
    OBVIOUS
  <2>6. /\ w \in Seq(Byte \cup {Untouched}) /\ Len(w) = Len(plain)
        /\ o \in Nat /\ o <= Len(w)
        /\ SubSeq(w, 1, o) = FlattenSeq(StrippedBlocks(k + 1))
        /\ \A i \in o + 1 .. Len(w) : w[i] = Untouched
    <3>1. SubSeq(plain, 1, outputBytesWritten) = FlattenSeq(StrippedBlocks(k))
      BY <1>2, <1>5 DEF Decrypting
    <3>2. QED
      BY <1>4, <1>6, <2>3, <2>4, <2>5, <3>1, BlockWritten
  <2>7. plain' = w /\ outputBytesWritten' = o
    BY <2>1, <2>3, <2>5
  <2>8. NothingWrittenBehind'
    BY <2>6, <2>7 DEF NothingWrittenBehind
  <2>9. bytesRead' = (k + 1) * c /\ bytesRead' \in Nat
    <3>1. (k + 1) * c = k * c + c /\ k * c \in Nat
      BY Multiples
    <3>2. bytesRead = k * CipherBlockBytes
      BY <1>5 DEF Decrypting
    <3>3. QED
      BY <1>7, <2>1, <3>1, <3>2
  <2>10. k + 1 \in Nat /\ k + 1 <= B
    BY <2>2
  <2>11. pc' = "decryptBlock"
    BY <1>2, <2>1
  <2>12. Decrypting(k + 1)'
    BY <1>11, <2>6, <2>7, <2>9, <2>10, <2>11 DEF Decrypting
  <2>13. SomeDecrypted'
    BY <1>13, <2>10, <2>11, <2>12 DEF SomeDecrypted
  <2>14. Typed'
    BY <1>2, <1>4, <1>9, <1>13, <2>1, <2>6, <2>7, <2>9, <2>11 DEF Typed
  <2>15. Phases'
    BY <1>12, <2>8, <2>11, <2>13 DEF Phases
  <2>16. QED
    BY <2>1, <2>6, <2>7, <2>14, <2>15 DEF IInv
<1>15. CASE Room(count) /\ ~(count > 0)
  <2>1. /\ plain' = [i \in DOMAIN plain |->
                       IF i <= outputBytesWritten THEN 0 ELSE plain[i]]
        /\ front' = 0 /\ pc' = "runs away"
        /\ outputBytesWritten' = outputBytesWritten /\ bytesRead' = bytesRead
    BY <1>1, <1>3, <1>15 DEF StoreBlock
  <2>2. plain \in Seq(Byte \cup {Untouched}) /\ outputBytesWritten \in Nat
    BY <1>4 DEF Typed
  <2>3. PICK o \in Nat, l \in Nat : o = outputBytesWritten /\ l = Len(plain) /\ o <= l
    <3>1. outputBytesWritten <= Len(plain)
      BY <1>4 DEF NothingWrittenBehind
    <3>2. Len(plain) \in Nat
      BY <2>2
    <3>3. QED
      BY <2>2, <3>1, <3>2
  <2>4. /\ plain' \in Seq(Byte \cup {Untouched}) /\ Len(plain') = l
        /\ \A i \in 1 .. l : plain'[i] = IF i <= o THEN 0 ELSE plain[i]
    <3>1. 0 \in Byte
      BY ByteWeights
    <3>2. DOMAIN plain = 1 .. l
      BY <2>2, <2>3
    <3>3. plain' = [i \in 1 .. l |-> IF i <= o THEN 0 ELSE plain[i]]
      BY <2>1, <2>3, <3>2
    <3>4. \A i \in 1 .. l : plain[i] \in Byte \cup {Untouched}
      BY <2>2, <2>3
    <3>5. \A i \in 1 .. l : (IF i <= o THEN 0 ELSE plain[i]) \in Byte \cup {Untouched}
      BY <3>1, <3>4
    <3>6. QED
      BY <3>3, <3>5
  <2>5. NothingWrittenBehind'
    <3>1. \A i \in o + 1 .. l : plain[i] = Untouched
      BY <1>4, <2>3 DEF NothingWrittenBehind
    <3>2. \A i \in o + 1 .. l : i \in 1 .. l /\ ~(i <= o)
      BY <2>3
    <3>3. \A i \in o + 1 .. l : plain'[i] = Untouched
      BY <2>4, <3>1, <3>2
    <3>4. outputBytesWritten' = o /\ Len(plain') = l /\ o <= l
      BY <2>1, <2>3, <2>4
    <3>5. QED
      BY <3>3, <3>4 DEF NothingWrittenBehind
  <2>6. Decrypting(k)'
    <3>1. PICK text : text = FlattenSeq(StrippedBlocks(k))
      OBVIOUS
    <3>2. SubSeq(plain, 1, o) = text
      BY <1>2, <1>5, <2>3, <3>1 DEF Decrypting
    <3>3. Len(text) = o
      BY <2>2, <2>3, <3>2
    <3>4. SubSeq(plain', 1, o) = [i \in 1 .. o |-> 0]
      <4>1. SubSeq(plain', 1, o) = [i \in 1 .. o |-> plain'[i]]
        BY <2>3, <2>4
      <4>2. \A i \in 1 .. o : plain'[i] = 0
        BY <2>3, <2>4
      <4>3. QED
        BY <4>1, <4>2
    <3>5. /\ pc' = "runs away" /\ outputBytesWritten' = o
          /\ bytesRead' = k * CipherBlockBytes' /\ k <= BlocksOf(Len(message))'
          /\ FlattenSeq(StrippedBlocks(k))' = text
      BY <1>5, <1>7, <1>8, <1>11, <2>1, <2>3, <3>1 DEF Decrypting
    <3>6. QED
      BY <3>3, <3>4, <3>5 DEF Decrypting
  <2>7. SomeDecrypted'
    BY <1>13, <2>1, <2>6 DEF SomeDecrypted
  <2>8. Typed'
    BY <1>2, <1>4, <1>9, <1>13, <2>1, <2>4 DEF Typed
  <2>9. Phases'
    BY <1>12, <2>1, <2>5, <2>7 DEF Phases
  <2>10. NextBlockIsZero
    <3>1. NumberBytes(y) = 0
      BY <1>3, <1>10, <1>15
    <3>2. k < BlocksOf(Len(message)) => BytesNumber(Block(k + 1)) = 0
      BY <1>8, <1>9, <3>1
    <3>3. bytesRead = k * CipherBlockBytes
      BY <1>5 DEF Decrypting
    <3>4. QED
      BY <1>4, <1>6, <3>2, <3>3, NextBlock
  <2>11. QED
    BY <2>3, <2>4, <2>8, <2>9, <2>10 DEF IInv
<1>16. CASE ~Room(count)
  <2>1. /\ pc' = "threw" /\ plain' = plain /\ front' = front
        /\ outputBytesWritten' = outputBytesWritten /\ bytesRead' = bytesRead
    BY <1>1, <1>3, <1>16
  <2>2. NothingWrittenBehind'
    BY <1>4, <2>1 DEF NothingWrittenBehind
  <2>3. Decrypting(k)'
    BY <1>2, <1>5, <1>7, <1>8, <1>11, <2>1 DEF Decrypting
  <2>4. SomeDecrypted'
    BY <1>13, <2>1, <2>3 DEF SomeDecrypted
  <2>5. Typed'
    BY <1>2, <1>4, <1>9, <1>13, <2>1 DEF Typed
  <2>6. Phases'
    BY <1>12, <2>1, <2>2, <2>4 DEF Phases
  <2>7. QED
    BY <2>1, <2>5, <2>6 DEF IInv
<1>17. QED
  BY <1>14, <1>15, <1>16

(* rsaDecrypt ends: behind the last whole block there is nothing. *)
LEMMA DecryptEndInv ==
  ASSUME IInv, DecryptEnd
  PROVE  IInv'
<1>1. /\ pc = "decryptBlock" /\ pc' = "done" /\ key' = key /\ message' = message
      /\ cipher' = cipher /\ plain' = plain /\ bytesRead' = bytesRead
      /\ bytesWritten' = bytesWritten /\ outputBytesWritten' = outputBytesWritten
      /\ front' = front /\ inputBlock' = inputBlock /\ bytesRead + CipherBlockBytes > Len(cipher)
  BY DEF DecryptEnd
<1>2. Typed /\ Phases
  BY DEF IInv
<1>3. AllEncrypted /\ SomeDecrypted
  BY <1>1, <1>2 DEF Phases
<1>4. PICK k \in Nat : Decrypting(k)
  BY <1>3 DEF SomeDecrypted
<1>5. key \in Keys /\ message \in Seq(Byte) /\ cipher \in Seq(Byte) /\ Fitting
  BY <1>2, <1>3 DEF Typed, AllEncrypted
<1>6. PICK c \in Nat \ {0} : c = CipherBlockBytes
  BY <1>5, BlockSizes
<1>7. PICK B \in Nat : B = BlocksOf(Len(message)) /\ k <= B /\ B * c <= Len(cipher)
  <2>1. MessageBlockBytes \in Nat \ {0} /\ Len(message) \in Nat
    BY <1>5, BlockSizes DEF Fitting
  <2>2. BlocksOf(Len(message)) \in Nat
    BY <2>1, BlockCount
  <2>3. QED
    BY <1>4, <1>5, <1>6, <2>2 DEF Decrypting, Fitting
<1>8. PICK l \in Nat : l = Len(cipher) /\ l % c = 0
  <2>1. Len(cipher) \in Nat
    BY <1>5
  <2>2. Len(cipher) % CipherBlockBytes = 0
    BY <1>3 DEF SomeDecrypted
  <2>3. Len(cipher) % c = 0
    BY <1>6, <2>2
  <2>4. QED
    BY <2>1, <2>3
<1>9. PICK q \in Nat : l = q * c
  <2>1. PICK p \in Nat : p = l \div c
    BY NatQuotient
  <2>2. l = p * c + (l % c)
    <3>1. l \in Int
      OBVIOUS
    <3>2. l = c * p + (l % c)
      BY <2>1, <3>1, DivMod
    <3>3. QED
      BY <3>2
  <2>3. p * c \in Nat
    OBVIOUS
  <2>4. l = p * c
    BY <1>8, <2>2, <2>3
  <2>5. QED
    BY <2>4
<1>10. bytesRead = l
  <2>1. bytesRead = k * c /\ k * c \in Nat /\ k * c + c > l
    BY <1>1, <1>4, <1>6, <1>8 DEF Decrypting
  <2>2. ~(k < q)
    <3>1. k < q => k * c + c <= q * c
      BY Multiples
    <3>2. q * c \in Nat
      OBVIOUS
    <3>3. QED
      BY <1>9, <2>1, <3>1, <3>2
  <2>3. k * c <= B * c /\ B * c \in Nat
    BY <1>7, Multiples
  <2>4. k * c <= l
    BY <1>7, <1>8, <2>1, <2>3
  <2>5. q * c <= k * c
    BY <2>2, Multiples
  <2>6. QED
    BY <1>9, <2>1, <2>4, <2>5
<1>11. /\ CipherBlockBytes' = c /\ BlocksOf(Len(message))' = B
       /\ \A j : StrippedBlocks(j)' = StrippedBlocks(j)
  BY <1>1, <1>6, <1>7, BlocksStay
<1>12. AllEncrypted'
  <2>1. Fitting' /\ Encrypted(B)'
    BY <1>1, <1>3, <1>7, TextStays DEF AllEncrypted
  <2>2. QED
    BY <1>11, <2>1 DEF AllEncrypted
<1>13. SomeDecrypted'
  <2>1. Decrypting(k)'
    BY <1>1, <1>4, <1>6, <1>7, <1>11 DEF Decrypting
  <2>2. Len(cipher') % CipherBlockBytes' = 0
    BY <1>1, <1>8, <1>11
  <2>3. bytesRead' = Len(cipher')
    BY <1>1, <1>8, <1>10
  <2>4. QED
    BY <2>1, <2>2, <2>3 DEF SomeDecrypted
<1>14. Typed'
  BY <1>1, <1>2 DEF Typed
<1>15. NothingWrittenBehind'
  BY <1>1, <1>2 DEF Phases, NothingWrittenBehind
<1>16. Phases'
  BY <1>1, <1>12, <1>13, <1>15 DEF Phases
<1>17. QED
  BY <1>14, <1>16 DEF IInv

-----------------------------------------------------------------------------
(* Every step of the two calls keeps the invariant and the sizes, and writes *)
(* in front of a buffer only at a block with no bytes.                       *)
LEMMA StepInv ==
  ASSUME IInv, Step
  PROVE  /\ IInv' /\ Len(cipher') = Len(cipher) /\ Len(plain') = Len(plain)
         /\ front' # front => NextBlockIsZero
<1>1. CASE EncryptStart
  BY <1>1, EncryptStartInv DEF EncryptStart
<1>2. CASE EncryptBlock
  BY <1>2, EncryptBlockInv DEF EncryptBlock
<1>3. CASE EncryptEnd
  BY <1>3, EncryptEndInv DEF EncryptEnd
<1>4. CASE DecryptStart
  BY <1>4, DecryptStartInv DEF DecryptStart
<1>5. CASE DecryptBlock
  BY <1>5, DecryptBlockInv DEF DecryptBlock
<1>6. CASE DecryptEnd
  BY <1>6, DecryptEndInv DEF DecryptEnd
<1>7. QED
  BY <1>1, <1>2, <1>3, <1>4, <1>5, <1>6 DEF Step

(* A step that changes nothing keeps it, too. *)
LEMMA StutterInv ==
  ASSUME IInv, UNCHANGED vars
  PROVE  IInv'
<1>1. /\ pc' = pc /\ key' = key /\ message' = message /\ cipher' = cipher
      /\ plain' = plain /\ bytesRead' = bytesRead /\ bytesWritten' = bytesWritten
      /\ outputBytesWritten' = outputBytesWritten /\ inputBlock' = inputBlock
      /\ front' = front
  BY DEF vars
<1>2. /\ CipherBlockBytes' = CipherBlockBytes
      /\ MessageBlockBytes' = MessageBlockBytes
      /\ BlocksOf(Len(message))' = BlocksOf(Len(message))
      /\ \A j : Block(j)' = Block(j)
      /\ \A k : StrippedBlocks(k)' = StrippedBlocks(k)
  BY <1>1, BlocksStay
<1>3. Typed'
  BY <1>1 DEF IInv, Typed
<1>4. \A k : Encrypted(k)' <=> Encrypted(k)
  BY <1>1, <1>2 DEF Encrypted
<1>5. Fitting' <=> Fitting
  BY <1>1, <1>2 DEF Fitting
<1>6. \A k : Encrypting(k)' <=> Encrypting(k)
  BY <1>1, <1>2, <1>4 DEF Encrypting
<1>7. \A k : Decrypting(k)' <=> Decrypting(k)
  BY <1>1, <1>2 DEF Decrypting
<1>8. SomeEncrypted => SomeEncrypted'
  BY <1>5, <1>6 DEF SomeEncrypted
<1>9. AllEncrypted => AllEncrypted'
  BY <1>2, <1>4, <1>5 DEF AllEncrypted
<1>10. SomeDecrypted => SomeDecrypted'
  <2>1. SUFFICES ASSUME SomeDecrypted PROVE SomeDecrypted'
    OBVIOUS
  <2>2. PICK k \in Nat :
          /\ Decrypting(k)
          /\ pc = "done" => bytesRead = Len(cipher)
    BY <2>1 DEF SomeDecrypted
  <2>3. Decrypting(k)' /\ Len(cipher') % CipherBlockBytes' = 0
    BY <1>1, <1>2, <1>7, <2>1, <2>2 DEF SomeDecrypted
  <2>4. QED
    BY <1>1, <1>2, <2>2, <2>3 DEF SomeDecrypted
<1>11. NothingEncrypted => NothingEncrypted'
  BY <1>1 DEF NothingEncrypted
<1>12. NothingWrittenBehind => NothingWrittenBehind'
  BY <1>1 DEF NothingWrittenBehind
<1>13. Phases'
  BY <1>1, <1>8, <1>9, <1>10, <1>11, <1>12 DEF IInv, Phases
<1>14. QED
  BY <1>3, <1>13 DEF IInv

(* The invariant holds of every state. *)
LEMMA Invariant == Spec => []IInv
<1>1. IInv /\ [Next]_vars => IInv'
  BY StepInv, StutterInv DEF Next, Stopped
<1>2. QED
  BY InitInv, <1>1, PTL DEF Spec

(* The buffers hold bytes, the counts are natural numbers and the number *)
(* each call loads its blocks into stays in form.                        *)
THEOREM TypeCorrect == Spec => []TypeOK
<1>1. ASSUME IInv PROVE TypeOK
  <2>1. Typed
    BY <1>1 DEF IInv
  <2>2. IsNumber(inputBlock) /\ InForm(inputBlock)
    BY <2>1 DEF Typed, Ready, Proper, Safe, InForm
  <2>3. front \in Byte \cup {Untouched}
    <3>1. front \in {0, Untouched}
      BY <2>1 DEF Typed
    <3>2. 0 \in Byte
      BY ByteWeights
    <3>3. QED
      BY <3>1, <3>2
  <2>4. QED
    BY <2>1, <2>2, <2>3 DEF Typed, TypeOK
<1>2. QED
  BY <1>1, Invariant, PTL

(* Neither rsaEncrypt nor rsaDecrypt writes behind its output buffer, whatever *)
(* the sizes of the message and of the buffers; and rsaDecrypt, whose store of *)
(* no bytes runs down through the memory in front of its buffer, gets there    *)
(* only from a block that is a zero, or from one that was never encrypted.     *)
THEOREM WritesKept == Spec => WritesStayInBuffers
<1>1. IInv /\ [Next]_vars =>
        [/\ Len(cipher') = Len(cipher) /\ Len(plain') = Len(plain)
         /\ front' # front => NextBlockIsZero]_vars
  BY StepInv DEF Next, Stopped
<1>2. QED
  BY <1>1, Invariant, PTL DEF Spec, WritesStayInBuffers

(* What rsaEncrypt leaves in its buffer is the power of each block of the *)
(* message, for every key, the short last block included.                 *)
THEOREM CipherTextExact == Spec => []CipherExact
<1>1. ASSUME IInv PROVE CipherExact
  <2>1. SUFFICES ASSUME pc \in {"decrypt", "decryptBlock", "done", "runs away"}
                 PROVE  \A k \in 1 .. BlocksOf(Len(message)) :
                          BytesValue(Slice(cipher, (k - 1) * CipherBlockBytes, CipherBlockBytes))
                            = PowerMod(BytesValue(Block(k)), key.e, key.n)
    BY DEF CipherExact
  <2>2. Encrypted(BlocksOf(Len(message)))
    BY <1>1, <2>1 DEF IInv, Phases, AllEncrypted
  <2>3. \A bytes : BytesValue(bytes) = BytesNumber(bytes)
    BY DEF BytesValue, BytesNumber
  <2>4. QED
    BY <2>2, <2>3 DEF Encrypted
<1>2. QED
  BY <1>1, Invariant, PTL

(* However rsaDecrypt returns or throws, its buffer holds the blocks it has   *)
(* read, each without its leading zero bytes, and nothing else is written.    *)
(* Only a call that runs away writes in front of the buffer, and then the     *)
(* text it had counted is zeros.                                              *)
THEOREM PlainTextExact == Spec => []PlainExact
<1>1. ASSUME IInv PROVE PlainExact
  <2>1. /\ front = IF pc = "runs away" THEN 0 ELSE Untouched
        /\ \A i \in outputBytesWritten + 1 .. Len(plain) : plain[i] = Untouched
    BY <1>1 DEF IInv, Typed, Phases, NothingWrittenBehind
  <2>2. ASSUME pc \in {"decryptBlock", "done", "runs away"}
                 \/ (pc = "threw" /\ outputBytesWritten > 0)
        PROVE  LET text == FlattenSeq([j \in 1 .. bytesRead \div CipherBlockBytes |->
                                         Stripped(Block(j))])
               IN  /\ SubSeq(plain, 1, outputBytesWritten)
                        = IF pc = "runs away" THEN [i \in 1 .. Len(text) |-> 0] ELSE text
                   /\ pc = "done" => bytesRead = Len(cipher)
    <3>1. Typed /\ SomeDecrypted
      BY <1>1, <2>2 DEF IInv, Phases
    <3>2. PICK k \in Nat : Decrypting(k) /\ (pc = "done" => bytesRead = Len(cipher))
      BY <3>1 DEF SomeDecrypted
    <3>3. PICK c \in Nat \ {0} : c = CipherBlockBytes
      BY <3>1, BlockSizes DEF Typed
    <3>4. bytesRead \div CipherBlockBytes = k
      <4>1. k * c = bytesRead
        BY <3>2, <3>3 DEF Decrypting
      <4>2. (k * c) \div c = k
        OBVIOUS
      <4>3. QED
        BY <3>3, <4>1, <4>2
    <3>5. QED
      BY <3>2, <3>4 DEF Decrypting, StrippedBlocks
  <2>3. QED
    BY <2>1, <2>2 DEF PlainExact
<1>2. QED
  BY <1>1, Invariant, PTL

=============================================================================
