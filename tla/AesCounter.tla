----------------------------- MODULE AesCounter -----------------------------
(***************************************************************************)
(* aesEncrypt (Aes.cpp) called twice, as TestAes does: on a message, and   *)
(* on the result of that.  The block cipher is the constant Cipher         *)
(* (AesBlock is its machine); what is modelled is the counter, the loop    *)
(* over the blocks and every write to memory, in one memory, so that the   *)
(* buffers may overlap.  One action per block.                             *)
(***************************************************************************)
EXTENDS ByteXor, Sequences

CONSTANTS BlockBytes,    \* NumberStateBytes
          Cipher(_),     \* aesEncryptBlock under the key of the calls
          MemoryBytes,   \* bound: the size of the memory
          Layouts,       \* where the callers' buffers lie, and the length
          Messages,      \* what may be encrypted: its first bytes, up to the length
          Counters       \* the initial counters

Block   == [1 .. BlockBytes -> Byte]
Address == 0 .. MemoryBytes - 1

ASSUME BlockBytesAssumption == BlockBytes \in Nat \ {0}
ASSUME CipherAssumption == \A c \in Block : Cipher(c) \in Block
ASSUME CountersAssumption == Counters \subseteq Block
ASSUME MemoryAssumption == MemoryBytes \in Nat
ASSUME MessagesAssumption == Messages \subseteq Seq(Byte)

\* A message of a length, rounded up to whole blocks.
WholeBlocks(length) == ((length + BlockBytes - 1) \div BlockBytes) * BlockBytes

\* The message is encrypted from "in" to "out", and from there to "back".
ASSUME LayoutsAssumption ==
  \A lay \in Layouts :
    /\ lay \in [in : Nat, out : Nat, back : Nat, length : Nat]
    /\ \A at \in {lay.in, lay.out, lay.back} :
         at + WholeBlocks(lay.length) <= MemoryBytes
    /\ \A message \in Messages : lay.length <= Len(message)

VARIABLES layout,          \* the buffers
          firstCounter,    \* the counter both calls are given
          second,          \* the second call is being executed
          memory,          \* the bytes of all the buffers
          before,          \* history: the memory when the first call began
          currentCounter,  \* local copy of the counter, as it counts up
          bytesEncrypted

vars == <<layout, firstCounter, second, memory, before, currentCounter,
          bytesEncrypted>>

\* The byte that fills the memory around the message.
Filler == 1

Init ==
  /\ layout \in Layouts /\ firstCounter \in Counters
  /\ \E message \in Messages :
       memory = [at \in Address |->
                   IF layout.in <= at /\ at < layout.in + layout.length
                   THEN message[at - layout.in + 1] ELSE Filler]
  /\ second = FALSE
  /\ before = memory
  /\ currentCounter = firstCounter
  /\ bytesEncrypted = 0

\* The buffers of the call being executed.
Input  == IF second THEN layout.out ELSE layout.in
Output == IF second THEN layout.back ELSE layout.out

-----------------------------------------------------------------------------
(***************************************************************************)
(* incrementCounter: the carry goes from the last byte to the first, and   *)
(* is dropped there.                                                       *)
(***************************************************************************)
ByteRadix == Pow2[ByteBits]

\* Mutant: the carry is always out of the byte next to the last.
IncrementCarryLost(counter) ==
  [k \in 1 .. BlockBytes |->
     IF k = BlockBytes THEN (counter[k] + 1) % ByteRadix
     ELSE IF k = BlockBytes - 1
          THEN (counter[k] + (counter[k + 1] + 1) \div ByteRadix) % ByteRadix
     ELSE counter[k]]

\* Mutant: the sum is not cut to a byte.
IncrementNotMasked(counter) ==
  [k \in 1 .. BlockBytes |->
     IF k = BlockBytes THEN counter[k] + 1 ELSE counter[k]]

IncrementCounter(counter) ==
  LET carry[k \in 0 .. BlockBytes] ==    \* out of byte k + 1
        IF k = BlockBytes THEN 1
        ELSE (counter[k + 1] + carry[k + 1]) \div ByteRadix
  IN  [k \in 1 .. BlockBytes |-> (counter[k] + carry[k]) % ByteRadix]

(***************************************************************************)
(* One block: the whole block of key stream is written to the output, and  *)
(* then the first count bytes of it are combined with the input, in order. *)
(***************************************************************************)
EncryptTo(at, from, count) ==
  LET stream == Cipher(currentCounter)
      m[k \in 0 .. count] ==
        IF k = 0
        THEN [a \in Address |-> IF at <= a /\ a < at + BlockBytes
                                THEN stream[a - at + 1] ELSE memory[a]]
        ELSE LET done == m[k - 1]
             IN  [done EXCEPT ![at + k - 1] = Xor(@, done[from + k - 1])]
  IN  memory' = m[count]

EncryptNext(count) ==
  EncryptTo(Output + bytesEncrypted, Input + bytesEncrypted, count)

EncryptBlock ==
  /\ bytesEncrypted + BlockBytes <= layout.length
  /\ EncryptNext(BlockBytes)
  /\ currentCounter' = IncrementCounter(currentCounter)
  /\ bytesEncrypted' = bytesEncrypted + BlockBytes
  /\ UNCHANGED <<layout, firstCounter, second, before>>

\* Mutants of the last block: also when no byte is left, and with the input's
\* first bytes.
EncryptPartAlways ==
  /\ bytesEncrypted + BlockBytes > layout.length
  /\ EncryptNext(layout.length - bytesEncrypted)
  /\ bytesEncrypted' = layout.length
  /\ UNCHANGED <<layout, firstCounter, second, before, currentCounter>>

EncryptPartFromStart ==
  /\ bytesEncrypted < layout.length
  /\ bytesEncrypted + BlockBytes > layout.length
  /\ EncryptTo(Output + bytesEncrypted, Input, layout.length - bytesEncrypted)
  /\ bytesEncrypted' = layout.length
  /\ UNCHANGED <<layout, firstCounter, second, before, currentCounter>>

EncryptPart ==
  /\ bytesEncrypted < layout.length
  /\ bytesEncrypted + BlockBytes > layout.length
  /\ EncryptNext(layout.length - bytesEncrypted)
  /\ bytesEncrypted' = layout.length
  /\ UNCHANGED <<layout, firstCounter, second, before, currentCounter>>

\* Mutant: the counter is not copied but counted up in the caller's array.
CallAgainCounterKept ==
  /\ bytesEncrypted = layout.length /\ ~second
  /\ second' = TRUE
  /\ bytesEncrypted' = 0
  /\ UNCHANGED <<layout, firstCounter, memory, before, currentCounter>>

\* The first call has returned; its output is the input of the second.
CallAgain ==
  /\ bytesEncrypted = layout.length /\ ~second
  /\ second' = TRUE
  /\ currentCounter' = firstCounter
  /\ bytesEncrypted' = 0
  /\ UNCHANGED <<layout, firstCounter, memory, before>>

Step == EncryptBlock \/ EncryptPart \/ CallAgain

Stopped == bytesEncrypted = layout.length /\ second /\ UNCHANGED vars

Next == Step \/ Stopped

Spec == Init /\ [][Next]_vars

-----------------------------------------------------------------------------
(***************************************************************************)
(* Correctness.                                                            *)
(***************************************************************************)
TypeOK ==
  /\ layout \in Layouts
  /\ {firstCounter, currentCounter} \subseteq Block
  /\ {memory, before} \subseteq [Address -> Byte]
  /\ second \in BOOLEAN
  /\ bytesEncrypted \in 0 .. layout.length

Number(counter) ==
  LET v[k \in 0 .. BlockBytes] ==
        IF k = 0 THEN 0 ELSE v[k - 1] * ByteRadix + counter[k]
  IN  v[BlockBytes]

\* The counter of the block that is next is the first one plus the number of
\* the block, through every carry and around the end: no two blocks of fewer
\* than 2^128 are given the same key stream.
CounterCounts ==
  Number(currentCounter)
    = (Number(firstCounter) + (bytesEncrypted \div BlockBytes))
        % Pow2[ByteBits * BlockBytes]

\* Key stream byte k of the call.
Counter(block) ==
  LET c[j \in 0 .. block] == IF j = 0 THEN firstCounter ELSE IncrementCounter(c[j - 1])
  IN  c[block]
Stream(k) == Cipher(Counter(k \div BlockBytes))[(k % BlockBytes) + 1]

\* The layouts in which no byte of input is overwritten before it is read: the
\* output begins a whole block before the input, or behind its last byte.
Apart(input, output) ==
  \/ output + BlockBytes <= input
  \/ input + layout.length <= output

\* The bytes encrypted so far are input xor key stream, also where the output
\* lies over input that has been read.  With one buffer for input and output
\* each byte is combined with itself: the message is gone, every byte is zero.
OutputExact ==
  /\ ~second /\ Apart(layout.in, layout.out) =>
       \A k \in 0 .. bytesEncrypted - 1 :
         memory[layout.out + k] = Xor(before[layout.in + k], Stream(k))
  /\ Input = Output => \A k \in 0 .. bytesEncrypted - 1 : memory[Output + k] = 0

\* TestAes: encrypting the cipher text again under the same counter gives the
\* message back, a last block that is not whole included.
RoundTrip ==
  second /\ Apart(layout.in, layout.out) /\ Apart(layout.out, layout.back) =>
    \A k \in 0 .. bytesEncrypted - 1 :
      memory[layout.back + k] = before[layout.in + k]

\* Nothing is written but the outputs, up to a whole block: fewer than
\* BlockBytes bytes behind their ends, and none for a message of whole blocks.
InOutput(at, output, length) == output <= at /\ at < output + WholeBlocks(length)
WritesWholeBlocks ==
  \A at \in Address :
    \/ InOutput(at, layout.out, IF second THEN layout.length ELSE bytesEncrypted)
    \/ second /\ InOutput(at, layout.back, bytesEncrypted)
    \/ memory[at] = before[at]
=============================================================================
