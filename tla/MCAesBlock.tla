----------------------------- MODULE MCAesBlock -----------------------------
(***************************************************************************)
(* Instances of AesBlock for TLC.                                          *)
(***************************************************************************)
EXTENDS AesBlock, AesVectors

\* The key of TestAes, that of the commented-out TestSample, and zeros,
\* under which the bytes of a block are those that enter the S-box.
MCKeys == {[k \in 0 .. 31 |-> TestKey[k + 1]], [k \in 0 .. 31 |-> k], Zeros(32)}

\* Sixteen blocks of sixteen consecutive bytes: under the key of zeros each
\* entry of SBox is read.  The last one is the counter of TestAes; the next
\* counter; and the block of TestSample.
Consecutive == {[k \in 0 .. 15 |-> 16 * j + k] : j \in 0 .. 15}
SecondBlock == [k \in 0 .. 15 |-> IF k = 14 THEN 255 ELSE IF k = 15 THEN 0 ELSE 240 + k]
Sample      == [k \in 0 .. 15 |-> 17 * k]

MCBlocks == Consecutive \cup {SecondBlock, Sample}
=============================================================================
