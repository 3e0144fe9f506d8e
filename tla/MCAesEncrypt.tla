---------------------------- MODULE MCAesEncrypt ----------------------------
(***************************************************************************)
(* An instance of AesEncrypt for TLC: the two calls of TestAes, at every   *)
(* length up to that of its texts.                                         *)
(***************************************************************************)
EXTENDS AesEncrypt, AesVectors

\* The counters of the two blocks: the second carries into the next byte.
MCUsed == {TestCounter, [TestCounter EXCEPT ![15] = 255, ![16] = 0]}

\* Apart as in the test; and the output of the second call in the place of
\* the message.
MCLayouts ==
  {[in |-> 0, out |-> 32, back |-> back, length |-> length] :
     back \in {0, 64}, length \in 0 .. 32}

\* TestAes, at every length: after the first call the output begins with the
\* cipher text the test expects, and after the second the message is back.
KnownTexts ==
  /\ second =>
       \A k \in 1 .. layout.length : memory[layout.out + k - 1] = CipherText[k]
  /\ second /\ bytesEncrypted = layout.length =>
       \A k \in 1 .. layout.length : memory[layout.back + k - 1] = PlainText[k]
=============================================================================
