----------------------------- MODULE RsaBlocks -----------------------------
(***************************************************************************)
(* A message encrypted by rsaEncrypt and the result decrypted by           *)
(* rsaDecrypt (RsaMath.cpp), one action per block, over the byte buffers   *)
(* of their caller.  The exponentiation of a block is one operation on     *)
(* integers here; Montgomery is its machine.                               *)
(***************************************************************************)
EXTENDS BigNumArith, SequencesExt

CONSTANTS Keys,        \* the keys: modulus n, public and private exponents e, d
          Messages,    \* the byte sequences encrypted
          CipherSizes, \* the sizes of rsaEncrypt's output buffer
          PlainSizes   \* the sizes of rsaDecrypt's

(***************************************************************************)
(* The vector of an inputBlock has as many words as the exponentiation     *)
(* reads digits, one for each digit of n (Montgomery, ResultExact).        *)
(***************************************************************************)
ASSUME KeysAssumption ==
  \A key \in Keys : /\ {key.n, key.e, key.d} \subseteq Nat \ {0}
                    /\ Represent(key.n).used <= BigNumDefault.size

\* The power v^exponent modulo n.
PowerMod(v, exponent, n) ==
  LET p[k \in Nat] == IF k = 0 THEN 1 % n ELSE (p[k - 1] * v) % n
  IN  p[exponent]

\* The keys are RSA keys: of their two exponents each undoes the other.
ASSUME ExponentsAssumption ==
  \A key \in Keys : \A v \in 0 .. key.n - 1 :
    PowerMod(PowerMod(v, key.e, key.n), key.d, key.n) = v

ASSUME MessagesAssumption == Messages \subseteq Seq(Byte)
ASSUME SizesAssumption == CipherSizes \cup PlainSizes \subseteq Nat

VARIABLES pc,
          key, message,        \* what is encrypted
          cipher, plain,       \* the output buffers of the two calls
          front,               \* the byte in front of rsaDecrypt's output buffer
          bytesRead,           \* of the call being executed
          bytesWritten,        \* by rsaEncrypt
          outputBytesWritten,  \* by rsaDecrypt
          inputBlock           \* the number the call loads each block into

vars == <<pc, key, message, cipher, plain, front, bytesRead, bytesWritten,
          outputBytesWritten, inputBlock>>

\* A byte of rsaDecrypt's output, or in front of it, that nobody has written.
Untouched == -1

Init ==
  /\ pc = "encrypt"
  /\ key \in Keys /\ message \in Messages
  /\ cipher \in {[k \in 1 .. size |-> 0] : size \in CipherSizes}
  /\ plain \in {[k \in 1 .. size |-> Untouched] : size \in PlainSizes}
  /\ front = Untouched
  /\ bytesRead = 0 /\ bytesWritten = 0 /\ outputBytesWritten = 0
  /\ inputBlock = BigNumDefault

-----------------------------------------------------------------------------
N == Represent(key.n)

\* Bytes of a message block, and of a block of cipher text.
MessageBlockBytes == (NumberBits(N) - 1) \div ByteBits
CipherBlockBytes  == NumberBytes(N)

\* Mutant: a message of whole blocks is given one more.
BlocksOfOneMore(length) == (length \div MessageBlockBytes) + 1

\* Any size that is not a multiple of the block size takes one block more.
BlocksOf(length) ==
  (length \div MessageBlockBytes)
    + (IF length % MessageBlockBytes = 0 THEN 0 ELSE 1)

Slice(buffer, at, count) == SubSeq(buffer, at + 1, at + count)

\* A write of bytes at an offset; memory behind the buffer is written, too.
Write(buffer, at, bytes) ==
  [k \in 1 .. Larger(Len(buffer), at + Len(bytes)) |->
     IF at < k /\ k <= at + Len(bytes) THEN bytes[k - at] ELSE buffer[k]]

\* montgomery_exponentiation.
Exponentiation(x, exponent) ==
  LET p[k \in Nat] == IF k = 0 THEN 1 ELSE (p[k - 1] * Value(x)) % key.n
  IN  Represent(p[exponent] % key.n)

-----------------------------------------------------------------------------
(***************************************************************************)
(* rsaEncrypt.                                                             *)
(***************************************************************************)
\* A modulus of one byte or less leaves no room for a byte of message, and the
\* number of blocks is a division by zero.
EncryptStart ==
  /\ pc = "encrypt"
  /\ pc' = IF MessageBlockBytes = 0 THEN "divided by zero"
           ELSE IF Len(cipher) < BlocksOf(Len(message)) * CipherBlockBytes
                THEN "threw" ELSE "encryptBlock"
  /\ UNCHANGED <<key, message, cipher, plain, front, bytesRead,
                 bytesWritten, outputBytesWritten, inputBlock>>

\* Mutant: the cipher block is stored where the message block was read.
EncryptToReadOffset(count) ==
  \E x \in LoadBytes(inputBlock, Slice(message, bytesRead, count), TRUE) :
    /\ inputBlock' = x
    /\ cipher' = Write(cipher, bytesRead,
                       StoreBytes(Exponentiation(x, key.e), CipherBlockBytes))

EncryptTo(count) ==
  \E x \in LoadBytes(inputBlock, Slice(message, bytesRead, count), TRUE) :
    /\ inputBlock' = x
    /\ cipher' = Write(cipher, bytesWritten,
                       StoreBytes(Exponentiation(x, key.e), CipherBlockBytes))

EncryptBlock ==
  /\ pc = "encryptBlock"
  /\ bytesRead + MessageBlockBytes <= Len(message)
  /\ EncryptTo(MessageBlockBytes)
  /\ bytesRead' = bytesRead + MessageBlockBytes
  /\ bytesWritten' = bytesWritten + CipherBlockBytes
  /\ UNCHANGED <<pc, key, message, plain, front, outputBytesWritten>>

\* The last block, when it is not a whole one, and the return.
EncryptEnd ==
  /\ pc = "encryptBlock"
  /\ bytesRead + MessageBlockBytes > Len(message)
  /\ IF bytesRead # Len(message)
     THEN EncryptTo(Len(message) - bytesRead)
     ELSE UNCHANGED <<inputBlock, cipher>>
  /\ pc' = "decrypt"
  /\ UNCHANGED <<key, message, plain, front, bytesRead, bytesWritten,
                 outputBytesWritten>>

-----------------------------------------------------------------------------
(***************************************************************************)
(* rsaDecrypt of the whole buffer, as the tests call it.                   *)
(***************************************************************************)
DecryptStart ==
  /\ pc = "decrypt"
  /\ IF Len(cipher) % CipherBlockBytes # 0
     THEN /\ pc' = "threw"
          /\ UNCHANGED <<bytesRead, outputBytesWritten, inputBlock>>
     ELSE /\ pc' = "decryptBlock"
          /\ bytesRead' = 0 /\ outputBytesWritten' = 0
          /\ inputBlock' = BigNumDefault
  /\ UNCHANGED <<key, message, cipher, plain, front, bytesWritten>>

\* Mutant: the bytes about to be written are not counted.
RoomBefore(count) == outputBytesWritten <= Len(plain)

Room(count) == outputBytesWritten + count <= Len(plain)

\* storeBytes of the bytes of a number at the end of the text.  The loop that
\* stores no bytes does not end: its count is unsigned, and zero less the group of
\* one wraps around.  It writes zeros backwards, over the text already there and
\* on in front of the buffer, where this step leaves it.
StoreBlock(y, count) ==
  IF count > 0
  THEN /\ plain' = Write(plain, outputBytesWritten, StoreBytes(y, count))
       /\ outputBytesWritten' = outputBytesWritten + count
       /\ bytesRead' = bytesRead + CipherBlockBytes
       /\ UNCHANGED <<pc, front>>
  ELSE /\ plain' = [k \in DOMAIN plain |->
                      IF k <= outputBytesWritten THEN 0 ELSE plain[k]]
       /\ front' = 0
       /\ pc' = "runs away"
       /\ UNCHANGED <<outputBytesWritten, bytesRead>>

\* A block takes as many bytes as its number has.
DecryptBlock ==
  /\ pc = "decryptBlock"
  /\ bytesRead + CipherBlockBytes <= Len(cipher)
  /\ \E x \in LoadBytes(inputBlock, Slice(cipher, bytesRead, CipherBlockBytes),
                        TRUE) :
       LET y     == Exponentiation(x, key.d)
           count == NumberBytes(y)
       IN  /\ inputBlock' = x
           /\ IF Room(count)
              THEN StoreBlock(y, count)
              ELSE /\ pc' = "threw"
                   /\ UNCHANGED <<plain, front, outputBytesWritten, bytesRead>>
  /\ UNCHANGED <<key, message, cipher, bytesWritten>>

DecryptEnd ==
  /\ pc = "decryptBlock"
  /\ bytesRead + CipherBlockBytes > Len(cipher)
  /\ pc' = "done"
  /\ UNCHANGED <<key, message, cipher, plain, front, bytesRead,
                 bytesWritten, outputBytesWritten, inputBlock>>

Step == EncryptStart \/ EncryptBlock \/ EncryptEnd
          \/ DecryptStart \/ DecryptBlock \/ DecryptEnd

Ended == pc \in {"done", "threw", "divided by zero", "runs away"}

Stopped == Ended /\ UNCHANGED vars

Next == Step \/ Stopped

(***************************************************************************)
(* Both calls are made by a running thread: it takes a step whenever it    *)
(* can.  Every Step is an Advance, and Advance is enabled exactly when     *)
(* Step is; stated of it, weak fairness costs TLC no arithmetic.           *)
(***************************************************************************)
Advance ==
  /\ ~Ended
  /\ pc' \in {"encryptBlock", "decrypt", "decryptBlock", "done", "threw",
              "divided by zero", "runs away"}
  /\ bytesRead' \in 0 .. Len(message) + Len(cipher)

Spec == Init /\ [][Next]_vars /\ WF_<<pc, bytesRead>>(Advance)

-----------------------------------------------------------------------------
(***************************************************************************)
(* Correctness.                                                            *)
(***************************************************************************)
TypeOK ==
  /\ pc \in {"encrypt", "encryptBlock", "decrypt", "decryptBlock", "done",
             "threw", "divided by zero", "runs away"}
  /\ cipher \in Seq(Byte)
  /\ plain \in Seq(Byte \cup {Untouched}) /\ front \in Byte \cup {Untouched}
  /\ {bytesRead, bytesWritten, outputBytesWritten} \subseteq Nat
  /\ IsNumber(inputBlock) /\ InForm(inputBlock)

\* The number a sequence of bytes denotes, the first the most significant.
BytesValue(bytes) ==
  LET v[k \in 0 .. Len(bytes)] ==
        IF k = 0 THEN 0 ELSE v[k - 1] * Pow2[ByteBits] + bytes[k]
  IN  v[Len(bytes)]

\* The blocks the message is split into.
Block(k) ==
  LET at == (k - 1) * MessageBlockBytes
  IN  Slice(message, at, IF at + MessageBlockBytes <= Len(message)
                         THEN MessageBlockBytes ELSE Len(message) - at)

\* After rsaEncrypt block k of the cipher text is the power of block k of the
\* message, a short last block included, each in its own whole cipher block.
CipherExact ==
  pc \in {"decrypt", "decryptBlock", "done", "runs away"} =>
    \A k \in 1 .. BlocksOf(Len(message)) :
      BytesValue(Slice(cipher, (k - 1) * CipherBlockBytes, CipherBlockBytes))
        = PowerMod(BytesValue(Block(k)), key.e, key.n)

\* A block as it comes back: without its leading zero bytes.
Stripped(block) ==
  LET lead == CHOOSE k \in 0 .. Len(block) :
                /\ \A j \in 1 .. k : block[j] = 0
                /\ k < Len(block) => block[k + 1] # 0
  IN  SubSeq(block, lead + 1, Len(block))

\* The next block rsaDecrypt stores is a zero, or was never encrypted.
NextBlockIsZero ==
  LET next == (bytesRead \div CipherBlockBytes) + 1
  IN  next <= BlocksOf(Len(message)) => BytesValue(Block(next)) = 0

\* Neither call writes behind its output buffer.  rsaDecrypt writes in front of
\* its buffer, but only when the block it stores is a zero or was never encrypted.
WritesStayInBuffers ==
  [][/\ Len(cipher') = Len(cipher) /\ Len(plain') = Len(plain)
     /\ front' # front => NextBlockIsZero]_vars

\* However rsaDecrypt returns or throws, in the middle of the blocks too, the bytes
\* it counts as written are those of the blocks it has read, each without its
\* leading zero bytes, and it wrote no other byte.  A call that runs away has made
\* zeros of the bytes it counted, and of the byte in front of them.
PlainExact ==
  LET blocks  == [k \in 1 .. bytesRead \div CipherBlockBytes |-> Stripped(Block(k))]
      written == SubSeq(plain, 1, outputBytesWritten)
  IN  /\ pc \in {"decryptBlock", "done"} \/ (pc = "threw" /\ outputBytesWritten > 0) =>
           written = FlattenSeq(blocks)
      /\ pc = "runs away" =>
           written = [k \in 1 .. Len(FlattenSeq(blocks)) |-> 0]
      /\ front = IF pc = "runs away" THEN 0 ELSE Untouched
      /\ \A k \in outputBytesWritten + 1 .. Len(plain) : plain[k] = Untouched
      /\ pc = "done" => bytesRead = Len(cipher)

\* What a message needs to make the round trip: a modulus of more than a byte,
\* a cipher buffer of just the blocks, room for the bytes, and no zero block.
Fits ==
  /\ MessageBlockBytes > 0
  /\ \E blocks \in 0 .. Len(message) :
       /\ Len(cipher) = blocks * CipherBlockBytes
       /\ Len(message) <= blocks * MessageBlockBytes
       /\ Len(message) > (blocks - 1) * MessageBlockBytes
       /\ \A k \in 1 .. blocks : BytesValue(Block(k)) # 0
  /\ Len(plain) >= Len(message)

\* The buffer checks refuse no message that fits, and both calls return.
FittingMessageReturns == Fits ~> pc = "done"

-----------------------------------------------------------------------------
(***************************************************************************)
(* What the round-trip tests assert of their messages, asserted of all.    *)
(***************************************************************************)
\* "Assert::AreEqual( std::string( plaintext ), std::string( decryptedText ) )"
RoundTrip ==
  pc = "done" /\ Len(cipher) = BlocksOf(Len(message)) * CipherBlockBytes
    => SubSeq(plain, 1, outputBytesWritten) = message

\* "Assert::AreEqual( sizeof( plaintext ), outputBytesWritten )": the decryption
\* comes to an end.
DecryptEnds == pc = "decrypt" ~> pc \in {"done", "threw"}
=============================================================================
