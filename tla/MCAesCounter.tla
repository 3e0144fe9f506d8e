---------------------------- MODULE MCAesCounter ----------------------------
(***************************************************************************)
(* An instance of AesCounter for TLC: blocks of three bytes of one bit.    *)
(***************************************************************************)
EXTENDS AesCounter

\* A block cipher that treats the bytes of a block differently, and takes no
\* two counters to one block.
MCCipher(c) == <<c[3], 1 - c[1], (c[1] + c[2]) % 2>>

\* Eight messages of seven bytes.
MCMessages == {[k \in 1 .. 7 |-> (n * (k + 2) + (k - 1) \div 2) % 2] : n \in 0 .. 1}
                \cup {[k \in 1 .. 7 |-> IF k = n THEN 1 ELSE 0] : n \in 1 .. 6}

\* The output of each call before, over and behind the input, at each distance.
MCLayouts ==
  {[in |-> 9, out |-> out, back |-> back, length |-> length] :
     out \in 0 .. 18, back \in {0, 5, 9, 13, 18}, length \in 0 .. 7}

\* The counter wraps around at the second block, at the third, or not at all.
MCCounters == {<<1, 1, 1>>, <<1, 1, 0>>, <<0, 1, 1>>}
=============================================================================
