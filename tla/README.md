# Verification of BigNum

`mvromer/BigNum` is a C++ big-integer library (`BigNum/`), the RSA arithmetic
built on it (`BigNum/RsaMath.cpp`) and a separate AES-256 counter-mode cipher
(`AesCrypto/`).  This directory holds TLA+ models of the library, TLC
configurations that check them, and TLAPS proofs about them.  Everything in the
models is translated from the C++ source; `PROJECT.json` gives, for every
definition, the lines it stands for.

1. [The system](#the-system)
2. [The models and the code](#the-models-and-the-code)
3. [The runs](#the-runs)
4. [What disagrees with the code](#what-disagrees-with-the-code)
5. [The proofs](#the-proofs)
6. [Not modelled, and the plan](#not-modelled-and-the-plan)

## The system

The program is sequential: no threads, no messages, no persistence.  What makes
it hard is state that survives from call to call (a sign, a count of digits in
use, a vector with words above that count) and arithmetic whose rare cases (a
carry that runs through every digit, an estimate that is off by one, a leading
digit that is exactly full) a unit test meets once in 2^31 attempts.

| Component | State | Operations | Depends on |
|---|---|---|---|
| BigNum objects and arithmetic (`BigNum.h`, `BigNum.cpp`) | `m_negative`, `m_numDigitsUsed`, `m_digits` (a vector of 32-bit words, 31 bits of value each) | constructors, `grow`, `clamp`, `zero`, `abs`, `negate`, shifts by bits and by digits, `multiplyByTwo`, `divideByTwo`, `mod2b`, both assignments, `+= -= *=` (number and digit), `loadBytes`, `storeBytes`, `compare`, `numberBits`, `numberBytes`, the biterator | - |
| Division and `mod` (`BigNum.cpp` 330-343, 713-842) | the running remainder, the shifted divisor, the quotient, two loop indices | `divide`, `operator/=`, `mod` | objects; every step is a call of `+= -= *=digit`, digit shift, comparison or shift |
| Constructors from bytes, copying free functions | none of their own | `BigNum( bytes )`, `abs( x )`, `x + y`, ... | objects |
| Montgomery arithmetic (`RsaMath.cpp` 1-150) | accumulator `a`, the extended-Euclid registers u, v, A..D | `compute_montgomery_inverse`, `montgomery_multiply`, `montgomery_exponentiation` | objects, `mod`, the biterator, `getDigit` |
| RSA blocks (`RsaMath.cpp` 152-217) | positions in the input and output buffers, the block being loaded | `rsaEncrypt`, `rsaDecrypt` | Montgomery exponentiation, `loadBytes`, `storeBytes` |
| AES-256 in counter mode (`Aes.cpp`) | round keys, counter, position, the caller's buffers | `aesEncrypt`, on `GenerateRoundKeys` and `aesEncryptBlock` | - |
| Unit tests, Visual Studio projects | - | - | - |

Components interact only by calls, but objects interact by *sharing*: an
operation may name one object twice (`x += x`), and a result object brings its
old vector along (`operator=` keeps the capacity of its left side and clears
only the digits that were in use).  So each operation relies on the form in
which all the earlier ones left its operands:

* the digits in use lie inside the vector, and each is below 2^DigitBits;
* the leading digit in use is not zero (lengths are compared before digits);
* a zero is not negative (signs are compared before digits);
* the words above the digits in use are zero (`unsignedAddEquals`,
  `leftDigitShift`, `loadBytes` and `montgomery_multiply` read or count them).

What makes each component correct:

* *objects*: the form above is kept by every call, and every call computes what
  it would on integers; comparison, bit iteration, byte export agree with the
  integer;
* *division*: quotient * divisor + remainder is the dividend throughout, the
  remainder ends below the divisor, a quotient-digit estimate is never off by
  more than the code corrects, every call returns;
* *Montgomery*: a product is x * y * R^-1 mod m, below m, for an x that is not
  reduced too; the exponentiation is the modular power; the inverse loop ends
  and what it returns is the inverse;
* *RSA*: each block of the message becomes one block of cipher text in its
  place; when decryption returns or throws it has written the bytes that went in, as
  many as it counts; nothing is written behind a buffer, and in front of one
  only in storing a zero block;
* *AES*: the block cipher is that of FIPS 197; decryption is encryption; no
  counter, and so no block of key stream, is used twice; a partial last block
  touches at most its own block of the output.

`PROJECT.json` lists under "hazards" the places where each of these could go
wrong, each at its line, with the property that watches it.

## The models and the code

```
Powers <- BigNumRep <- BigNumArith <- BigNum            <- MCBigNum
   ^                        ^            | refines
   |                        |            v
   +------------------------|----- IntegerRegisters
   |                        +- BigNumDivide             <- MCBigNumDivide
   |                        +- MontgomeryInverse        <- MCMontgomeryInverse
   |                        +- Montgomery               <- MCMontgomery
   |                        |      | refines
   +------------------------|----- SquareAndMultiply
   |                        +- RsaBlocks                <- MCRsaBlocks
   |
   +- ByteXor <- AesBlock     <- MCAesBlock     AesBlock refines BlockCipher, whose
         ^                                      Cipher is that of AesStandard
         +------ AesCounter   <- MCAesCounter
         +------ AesEncrypt   <- MCAesEncrypt   AesCounter with the Cipher of AesStandard

NatFacts <- BigNumArithProofs <- BigNumProofs
   ^                ^----------- BigNumDivideProofs
   |                ^----------- MontgomeryInverseProofs
   |                ^----------- MontgomeryProofs
   |                ^----------- RsaBlocksProofs
   +------- AesProofs            (of AesCounter and of AesBlock)
```

**`BigNumRep`** and **`BigNumArith`** hold the bodies of the member functions
as operators from representations to representations.  An object is a record

| field | code |
|---|---|
| `neg` | `m_negative` |
| `used` | `m_numDigitsUsed` |
| `size` | `m_digits.size()` |
| `dig` | `m_digits`, a function on `0 .. size - 1` |

A loop of the code whose iterations are independent is a function expression
over the loop index; a loop that carries something (`AddCarry`, `SubBorrow`,
`MulCarry`, `RowCarry`, `MulRows`, `LoadUnclamped`) is a recursive function of
the index, whose value at `i` is the loop's state after `i` turns.  The width of
a digit, the growth unit of the vector and the width of a byte are constants;
the relation the code has between them - one spare bit in each word, bytes
narrower than digits - is kept.  So a mask that the code forgets shows as a
digit of `DigitRadix` or more.  The word type has one bit more than a digit, so
`unsignedSubtractEquals` is modelled with the wrap of its word (`SubBorrow`).

**`BigNum`** is the machine: objects `num[n]`, and one action `Do...` per public
member function that changes an object, applied to any object with any
arguments, in any order, with operands that may be the same object.  Each action
is the whole member function, its trailing `clamp` or `zero` included.
`DoConstruct` is the constructor from bytes and `DoCopy` the compiler's copy
constructor; the free functions (`abs( x )`, `x + y`, ...) are a copy followed by
the action of the member function they call, so a sequence of calls contains
them all.  `call`
records the last call; no action reads it.  Two bounds belong to the model and
not to the code: `MaxUsed`, a guard (in `Set`) on the digits an object uses, and
`Corners`, which of three calls the model lets callers make.  They are `*=` of a
zero and a number of the other sign, a shift of zero by a whole digit or more,
and an append (`loadBytes` without `preZero`) that takes the object out of its
vector; each leaves a form the rest of the code does not expect (see the
findings), so the exactness properties are stated without them and the type
invariant and `Contained` with them.

An append whose shift carries into the last word of the vector counts one word
more than there are.  The final `clamp` then reads the word behind the vector,
memory that is not the vector's: zero, and the object is back inside, or not
zero, and it stays outside.  `LoadBytes` gives both outcomes.  With `"Append"` in
`Corners` the sequence of calls continues from either: an object out of its vector
is overwritten, copied, and given to the calls that `grow` it before they look
at a digit (another load, `<<=`, `leftDigitShift`, `multiplyByTwo`,
`*= digit`).  The other calls would read or write behind the vector, which the code
leaves undefined, and the model does not make them; that includes the ones
whose arguments would have them return without reading.

**`IntegerRegisters`** is the abstract specification: named integers and the
same calls.  It knows nothing of digits except where the interface itself counts
in digits.  `BigNum` implements it under the mapping `val[n] = Value(num[n])`,
with `call` shared, so a step of the machine must be *the* abstract step of the
same name and arguments.

**`BigNumDivide`** is one call of `operator/=` or `mod`, for every dividend and
divisor of an instance.

| action | code |
|---|---|
| `Throw` | divisor zero, 719-720 |
| `DividendSmaller` | 722-727 |
| `Setup` | normalisation and allocation, 729-760 |
| `SubtractLeading`, `LeadingFound` | the `while` that computes the leading quotient digit, 761-766 |
| `SkipDigit`, `Estimate` | head of the digit loop and first estimate, 770-798 |
| `Correct` | one turn of the `do ... while` that lowers the estimate, 803-817 |
| `SubtractMultiple` | subtract, add back, 819-831 |
| `Finish` | clamp, signs, undo the shift, 834-841 |
| `Return` | the tail of `/=` or `mod`, 330-343 |

`zeroDigit` is a history variable: it records that an estimate was made while
digit `iDigit` of the running remainder was zero, the case line 780 gets wrong.
It is written by `Estimate` and read by no action.

**`MontgomeryInverse`** is one call of `compute_montgomery_inverse`.

| action | code |
|---|---|
| `HalveU` | one turn of `while( u.isEven() )`, 36-48 |
| `HalveV` | one turn of `while( v.isEven() )`, 50-62 |
| `Subtract` | the smaller taken from the larger and the loop test, 64-76 |
| `CheckAndNegate` | the comparison with 1, the exception, `C.negate()`, 80-88 |
| `Reduce` | one turn of the leading-digit loop of `mod( b )`, and the return, 88 |

`Halved` is the treatment of a pair of coefficients, which both loops share.
`mod( b )` is modelled here as far as it can run: the divisor is a one and a zero
digit, so a `C` of at most two digits never reaches the loop over the quotient's
other digits.  `VReachesOneFirst` shows that `C` has one digit.

**`Montgomery`** is one call of `montgomery_exponentiation` with all the
multiplications it makes.

| action | code |
|---|---|
| `Turn` | one turn of the loop of `montgomery_multiply`, 106-122 |
| `XBarReady` | the return of the first multiplication, 135-136 |
| `SquareReady` | return of the squaring, `nextBit`, 139-142 |
| `TimesReady` | return of the multiplication by `xBar`, 143 |
| `LastReady` | return of the multiplication by one, 146-149 |

`call` says which multiplication is being executed, and so what its operands are
(`First`, `Second`); every `...Ready` action does the conditional subtraction of
line 124 (`Product`) and sets up the next call.  Digit i of the first operand is
read for every digit of the modulus; behind its vector the model reads any word.
The initial state is what the callers pass: R mod m, R^2 mod m and the inverse.
They compute R^2 mod m with `mod`, which goes through `divide`: when that call
meets a zero digit (`DivideExact`), the program starts from another number than
the model.

**`SquareAndMultiply`** is the abstract specification of the exponentiation: a
power modulo m, by squaring for every bit and multiplying for every bit set.
`Montgomery` implements it: the abstract power is the Montgomery form taken back
to an integer, the bits left are where the biterator is.

**`RsaBlocks`** is a message encrypted by `rsaEncrypt` and the buffer decrypted by
`rsaDecrypt`, as the round-trip tests do it, for buffers of any size.

| action | code |
|---|---|
| `EncryptStart` | block sizes, number of blocks, first exception, 156-169 |
| `EncryptBlock` | one turn of the loop, 171-178 |
| `EncryptEnd` | the last, short block, 180-187 |
| `DecryptStart` | second exception, `outputBytesWritten = 0`, 194-202 |
| `DecryptBlock` | one turn of the loop with the third exception, 203-216; `StoreBlock` is its `storeBytes`, 214-215 |
| `DecryptEnd` | the return, 204-217 |

The block object is loaded again and again, as in the code, with the representation
of `BigNumArith`; buffers are sequences of bytes, and `Write` makes a buffer longer
when a write passes its end, so that such a write would be seen.  The
exponentiation is the modular power: `Montgomery` checks that it is, for moduli of
no more digits than a default vector has words, which `KeysAssumption` asks.  That
a key is an RSA key, of whose two exponents each undoes the other, is
`ExponentsAssumption`; TLC evaluates it for every number below every modulus of the
instance.
Three endings are not the code's own: an exception (`threw`), the division by a
block size of zero (`divided by zero`), and `storeBytes` of no bytes (`runs away`).
The bound of that loop is `0 - 1` in an unsigned type, so it goes on writing the bytes
of a zero at `bytes[-1]`, `bytes[-2]` and so on: over the text already stored, down to
the start of the buffer and then in front of it.  `StoreBlock` writes these zeros;
`front` is the byte in front of the buffer, and the model stops there, the memory
beyond being nobody's.

**`AesBlock`** is `GenerateRoundKeys` and then any number of calls of
`aesEncryptBlock`, on the code's own tables.

| action | code |
|---|---|
| `CopyKeyWord` | one turn of the first loop, 185-192 |
| `GenerateWord` | one turn of the second, 194-210 |
| `StartBlock` | the copy and the first round key, 213-217 |
| `Round` | one turn of the loop over rounds, 219-227 |
| `LastRound` | 229-233 |

The code views bytes as words of the machine's byte order; since words are only
copied and combined by `^`, a word of the model is its four bytes in memory order.
**`AesStandard`** is AES as FIPS 197 defines it, over polynomials (sets of
exponents) with products, reciprocals and matrices, and nothing taken from the
code: no table, no `xtime`, no byte order.  `SBoxAssumption` compares the two where
nothing but evaluation can: the 256 entries of `SBox` are the reciprocals of the
bytes under the affine map.  **`BlockCipher`** is what a caller
relies on: a block is begun, and then it is encrypted, at once.  `AesBlock`
implements `BlockCipher` with the cipher of `AesStandard`.

**`AesCounter`** is `aesEncrypt` called twice, as `TestAes` does: on a message and
on what came out.  `EncryptBlock` is a turn of the loop over whole blocks,
`EncryptPart` the rest of the message, `CallAgain` the return and the second call.
All buffers lie in one memory, so they may overlap: the model writes the whole
block of key stream to the output before it reads the input, byte by byte, as the
code does.  The block cipher is a constant.

**`AesEncrypt`** composes the two: counter mode on blocks of sixteen bytes with
the cipher that `AesBlock` was shown to implement.

The models were compared with the compiled code on some 3 800 random sequences
of member-function calls at digit widths of 2, 3 and 10 bits, and on all 27 048
dividend-divisor pairs of one division instance at 3 bits: representation for
representation, the wrong results of `divide` included.  The code compiled with
digits of three bits returns the power in all 847 calls that are the initial
states of `exponentiation`, and, with its 31 bits, a number for the even moduli
2, 6, 10 and 4096 and no exception.

## The runs

`tlc -config X.cfg M` for each row; all bounds are in the `.cfg` and in the `MC`
module.

| run | instance | checks |
|---|---|---|
| `arithmetic` | 2-bit digits, objects of up to 3 and 1 digits, no corners; 31 752 states | `Canonical`, `ImplementsIntegers`, `CapacityKept` |
| `observers` | 3-bit digits, 2-bit bytes, up to 2 and 1 digits; 30 480 states | `CompareExact`, `BitsExact`, `StoreLoadExact` |
| `corners` | 2-bit digits, up to 3 and 1 digits, all three corners, buffers of one and two 1-bit bytes; 143 460 states | `TypeOK`, `Contained` |
| `divide` | 4-bit digits, dividends of up to 4 digits, divisors of up to 3, all signs, `/=` and `mod`; 559 866 states | `TypeOK`, `LoopIdentity`, `RemainderBelowDivisor`, `EstimateAtMostOneTooLarge`, `DivideExactUnlessZeroDigit`, `ModReduces`, `Returns` |
| `inverse` | 4-bit digits, 81 moduli of one to three digits, odd and even; 1 450 states | `TypeOK`, `Bezout`, `VReachesOneFirst`, `InverseExact`, `NonzeroReturns` |
| `exponentiation` | 3-bit digits, odd moduli of one to three digits, bases up to and above them, exponents up to 13; 18 403 states | `TypeOK`, `LoopCongruence`, `ProductsReduced`, `ResultExact`, `ImplementsSquareAndMultiply`, `Returns` |
| `rsa` | 3-bit digits, 2-bit bytes, blocks of 1, 2 and 3 bytes, messages of 0 to 5 bytes, buffers too small, exact and too large; 92 211 states | `TypeOK`, `CipherExact`, `PlainExact`, `WritesStayInBuffers`, `FittingMessageReturns` |
| `counter` | blocks of three 1-bit bytes, messages of 0 to 7 bytes, outputs at every distance from the input, counters that wrap; 68 400 states | `TypeOK`, `CounterCounts`, `OutputExact`, `RoundTrip`, `WritesWholeBlocks` |
| `aes_block` | the real sizes; three keys, eighteen blocks; 993 states | `BlockTypeOK`, `RoundKeysExact`, `ImplementsAes` |
| `aes_encrypt` | the real sizes; the texts of `TestAes` at every length; 324 states | `KnownTexts` |

What they show:

* `arithmetic`: after any sequence of calls both objects are in the one form the
  others rely on, and each call computes what integers compute.  A state
  includes the capacity and the words above the digits in use, so a call is
  tried on every *history* of its operands: freshly built, grown, shrunk from a
  longer number, overwritten.
* `observers`: the const members agree with the integer on all those states.
  It has its own instance because bytes must not divide digits evenly for a
  byte to straddle two digits (2 bits in 3, as 8 in 31).
* `corners`: with every call permitted, `Canonical` fails, but no digit overflows;
  an object leaves its vector in an append (or as the copy of one that has), by one
  word behind a vector that is full, and in no other call, a load that clears the
  object first included; and the words above the digits in use of every object
  inside its vector are clear, also after it was outside and came back.
* `divide`: the loop identity holds whatever the estimate; the remainder bound,
  the estimate bound and the exact result hold for every call that never
  estimates from a zero digit; every call returns, also after a wrong estimate.

* `inverse`: the coefficients stay those of u and v, the result is the inverse
  of every odd modulus.  For every modulus but zero the loops end, v is 1 before
  anything is subtracted, and the exception is never thrown.
* `exponentiation`: each turn of a multiplication keeps its congruence (no digit
  that is not zero is shifted out), the one conditional subtraction is enough,
  and the whole call is square-and-multiply in Montgomery form.
* `rsa`: whatever the sizes, cipher blocks lie where they should and hold the
  powers of the message blocks; `rsaDecrypt` wrote exactly the bytes it counts
  when it returns or throws, and these are the message's bytes without the leading
  zeros of each block; when it runs away the bytes it had counted, and the byte in
  front of the buffer, are zeros; nothing is written behind a buffer; no buffer
  check refuses what fits.
* `counter`: counters never repeat before all have been used; the output is the
  exclusive or with the key stream where no input is overwritten before it is
  read, and zero where input and output are one buffer; at most `BlockBytes - 1`
  bytes behind the end of the output are written.
* `aes_block`: tables, key schedule and rounds compute AES.  `aes_encrypt`:
  the composition gives the cipher text of the test and the message back, at
  lengths the test does not try, also when it is decrypted over the message.

*Why the bounds are enough.*  Every loop of the code is uniform in its index: it
has a first digit, a middle and a last one, and a boundary between the shorter
and the longer operand.  Three digits against one meet all of them.  Two-bit
digits have a zero, a full and two middle values; a carry can stop or run on at
each digit.  A growth unit of one makes vectors that are exactly full, the case
in which the code must grow and the case in which it forgets to: a vector has at
least three words, so the objects of `arithmetic` and `corners` fill theirs.  In
`divide` digits have four bits, the fewest at which the normalising shift and a
nonzero remainder occur together; the divisors have fewer bits than `DigitMask`, as every divisor
does at 31 bits (the normalising shift takes the bit length modulo 2^31).
The bound on digits only removes steps that end inside the vector (`Set`): an
object that leaves its vector is seen whatever the bound.  What the bound does hide
are calls that bring an object back with more digits than it allows, as a `<<=` by many
bits does; `zero`, `= digit`, a clearing load and `*= 0` bring it back within it.

For the Montgomery modules three digits again give a first, a middle and a last
turn; the moduli include the least and the greatest of each length, the exponents
those with a full and with an empty digit.  In `rsa` the bytes straddle digits, the
moduli give blocks of one, two and three bytes, and messages of three bytes are
all there, so zero blocks, leading zeros and short last blocks occur at every
place.  In `counter` three bytes are enough for a carry that starts, passes and
leaves the counter, and three blocks for a first, a middle and a partial one.
`aes_block` is at full size; under the key of zeros its sixteen blocks of
consecutive bytes read every entry of `SBox`.  Its blocks and keys are a sample:
nothing branches on data but `xtime`, a function of one byte.

*States and `VIEW`.*  In the `MCBigNum` runs TLC identifies states by `num`
alone.  No action reads `call`, and the properties that mention it
(`ImplementsIntegers`, `CapacityKept`) are about steps, all of which TLC still
checks.

*Fairness.*  The machine of objects has none: nothing obliges a caller to call.
A call that has been made is executed by a running thread, so the modules that
are one call assume that a step is taken again and again while the call is
running.

* `MontgomeryInverse` states it as `WF_vars(Step)`.
* `BigNumDivide` writes the weak fairness of `Step` out
  (`[]<>~Running \/ []<><<Step>>_vars`), because TLC evaluates `ENABLED` of steps
  on digit vectors very slowly.  The two are the same if a running call can always
  take a step that changes something; the deadlock check of the run shows that it
  can take a step, since `Stopped` is enabled only when the call is over, and
  every step changes `pc`, `i` or a quotient digit.
* `Montgomery` and `RsaBlocks` state weak fairness of `Advance`, which says what
  every step does to the program counter and nothing of numbers.  Every `Step` is
  an `Advance`, and `Advance` is enabled exactly when the call is running, which is
  when a `Step` is enabled (the deadlock check again); `Spec` allows no other
  change of the program counter, so taking an `Advance` step is taking a `Step`.
* The AES loops count up to a bound and have no liveness property.

Each property has a mutant of the code, the bug it is there to catch, next to
the definition it changes ("Mutant:" in the comments): carries that stop early,
old digits not cleared on assignment, a mask left out, the carry word not
reserved, an add-back that forgets the quotient digit, a remainder not shifted
back, and so on.

## What disagrees with the code

Two of the runs end in a violation: each states what a comment or a test of the
repository says and finds the state in which the code does otherwise.

| run | statement | what happens |
|---|---|---|
| `divide_wrong` | "Quotient is computed in q, and remainder is in x" | line 780 compares with `y[iDigit]`, which is always 0 there, where the algorithm has `y[t]`; when a digit of the running remainder is zero the estimate starts at the largest digit and is not brought down.  At 31 bits, (R^2 + R) / R gives 2R - 2 |
| `exponentiation_long` | the test's assertion that the result is the power; "Based on Algorithm 14.36" | `getDigit( iDigit )` of a base with fewer digits than the modulus reads behind its vector once the modulus has more digits than the vector words: 12 words, 372 bits, for a default-constructed base |

Further configurations, each with one statement, find more such states; they are
kept here and are not among the runs (`tlc -config X.cfg M` ends in the violation).

| configuration | module | statement | what happens |
|---|---|---|---|
| `DivideNormalise.cfg` | `MCBigNumDivide` | `DivisorNormalised`: the divisor's leading bit is shifted to the top of its digit (741-743) | `numberBits() & DigitMask` is the bit length, not the bit length modulo `DigitBits`; the result stays right, the correction loop is long |
| `NegativeZero.cfg` | `MCBigNum` | `ZeroNeverNegative`: zero is nonnegative (`negate`, 210) | `(-5) * 0` is a negative zero |
| `JunkZero.cfg` | `MCBigNum` | `SubtrahendNotLarger`: the left side of a subtraction is the larger (652) | zero shifted by a digit "uses" digits and compares greater: `(0 << 62) - 3` wraps |
| `SubtractClamp.cfg` | `MCBigNum` | `SubtractClampIdle`: the final clamp of the subtraction is never needed (669-671) | `3 - 3` needs it (the clamp is there; the comment is wrong) |
| `Append.cfg` | `MCBigNum` | `AppendConcatenates`: bytes loaded without `preZero` follow those present (`TestLoadBytesPreZero`) | when the shift by a byte carries into the last word of the vector, the count passes the vector (`Contained` states that this is the only call that does) |
| `Mod2bBoundary.cfg` | `MCBigNum` | `BoundaryDigitInVector`: mod2b masks the digit partly inside the modulus (361) | with a modulus of exactly all digits of a full vector it masks the word behind it |
| `InverseEven.cfg` | `MCMontgomeryInverse` | `OnlyCoprimeReturns`: "If v is not 1, then we somehow picked a bad RSA modulus" (78-79) | v is always 1; an even modulus gets a number that is no inverse (`inverse` shows that the exception is dead) |
| `InverseZero.cfg` | `MCMontgomeryInverse` | `CallEnds`: the same for zero | zero is even and stays zero when halved: the first loop does not end |
| `RsaLeadingZero.cfg` | `MCRsaBlocks` | `RoundTrip`: "`Assert::AreEqual( std::string( plaintext ), ...`" (tests, 402) | a block comes back without its leading zero bytes, and the blocks behind it move up (`PlainExact` states exactly this) |
| `RsaZeroBlock.cfg` | `MCRsaBlocks` | `DecryptEnds`: the written count can be compared (tests, 401) | a block of zeros decrypts to zero; `storeBytes` of 0 bytes computes `0 - 1` in `size_t` and does not end; it makes zeros of the text already stored, and of the memory in front of the buffer |

## The proofs

TLAPS checks every statement below for every value of the constants: every digit
width, growth unit, capacity, number of objects, message, operand, modulus and
exponent, where the runs have a small instance.  `PROJECT.json` lists each theorem
with the property it states.

| module | theorems | hypotheses |
|---|---|---|
| `BigNumProofs` | `TypeCorrect`, `AlwaysContained`, `CapacityAlwaysKept` | none: all three corners are permitted |
| | `AlwaysCanonical`, `CompareAlwaysExact`, `BitsAlwaysExact`, `StoreLoadAlwaysExact`, `Implementation` | `Corners = {}` |
| `BigNumDivideProofs` | `TypeCorrect`, `LoopIdentityHolds`, `RemainderStaysBelow`, `EstimateIsClose`, `DivisionExact`, `ModReducesHolds` | none |
| `MontgomeryInverseProofs` | `TypeCorrect`, `BezoutAlways`, `VAlwaysReachesOneFirst`, `InverseAlwaysExact` | none: even moduli and zero are permitted |
| `MontgomeryProofs` | `TypeCorrect`, `LoopAlwaysCongruent`, `ProductsAlwaysReduced`, `PowerAlwaysExact`, `Implementation` | `BasesHoldModuli` |
| `RsaBlocksProofs` | `TypeCorrect`, `WritesKept`, `CipherTextExact`, `PlainTextExact` | none |
| `AesProofs` | of `AesCounter`: `TypeCorrect`, `CounterAlwaysCounts`, `OutputAlwaysExact`, `RoundTripAlways`, `WritesOnlyWholeBlocks` | none |
| | of `AesBlock`: `BlockTypeCorrect`, `RoundKeysAlwaysExact`, `BlockImplementation` | none |
| `BigNumArithProofs`, `NatFacts` | the lemmas on member functions and their values, on naturals | none |

*Assumptions on constants*: those of the modules that declare them, which TLC
evaluates in every run: digits, bytes and capacities are positive, a byte is
narrower than a digit (`DigitBitsAssumption`, `BaseCapacityAssumption`,
`ByteBitsAssumption`, `CapacityAssumption`), and the arguments of calls have the
types of the parameters.  Three say more:

* `KeysAssumption` of `RsaBlocks`: positive modulus and exponents, and a modulus that
  fits the vector of the block object (the others are `exponentiation_long`);
* `ExponentsAssumption`: decrypting a number below the modulus undoes encrypting it.
  It is what makes a key an RSA key, and nothing in the code checks it.  The proof uses it
  for the blocks that come back (`BlockDecrypted`), so through the common invariant all
  four theorems rest on it;
* `OctetAssumption` and `SBoxAssumption` of `AesBlock`: a byte has eight bits, and the
  table `SBox` is the substitution of the standard.  The second is a statement about 256
  constants, without variables or other constants, so `aes_block` settles it.  The
  lemmas on `AesCounter` use neither.

The two hypotheses are not assumptions: they are the boundary of what holds.

* `Corners = {}` excludes the two calls on zeros and the append of the findings, after
  which `Canonical` is false (`NegativeZero.cfg`, `JunkZero.cfg`, `Append.cfg`).  The
  runs `arithmetic` and `observers` satisfy it.
* `BasesHoldModuli` says that the vector of each base has a word for each digit of
  the modulus when the base is the shorter.  Without it `getDigit` reads behind
  the vector and `ResultExact` is false: that is the run `exponentiation_long`.
  The instance of `exponentiation` satisfies it.

### Objects: what is kept

The inductive invariant of `TypeOK` and `Contained` is `SafeObjects`: every object
has three words or more and is either `Safe`, that is

```
IsNumber(x) /\ UsedInVector(x) /\ ClearAboveUsed(x) /\ x.size > 0
```

or `Filled`: its digits in use are the whole vector and the word behind it, and the
last word of the vector is not zero.  `TypeOK` alone is not inductive: a carry added
into word `used` is a digit only if that word was clear, and a shift reads digits
that exist only if `used` is inside the vector.  The vector must have a word for
`operator=( digit_t )`, which writes word 0 of whatever there is, and three so that
a load that clears the object first has room: `grow` leaves three.  Nothing about
leading digits or signs is needed, which is why these theorems cover the corner
calls.

`BigNumArithProofs` has one lemma per member function: it takes `Safe` objects to
a `Safe` object with at least the capacity of the old one.  The calls that grow first
take an object that is one word out of its vector to a `Safe` one, too
(`GrownFirst`): the word they add is a zero.  `LoadBytesCounted` is the append: each
shift grows the vector for the carry, so `used` passes it by one word at the most, in
the count of the last byte, and only when the shift has filled the last word
(`LoadByteFull`).  Each rests on what its loop carries:

* addition: the carry is 0 or 1, so a digit plus a digit plus the carry is below
  2 * DigitRadix and the new top digit is 0 or 1;
* subtraction: the borrow is 0 or 1 whichever operand is the larger;
* multiplication by a digit: (R-1)^2 + (R-1) + (R-1) = R^2 - 1, so the carry is
  again a digit; this is also the row step of `baselineMultiply`, where the
  third term is the digit of the product so far;
* shifts: the low part of a digit and the carry into it occupy disjoint bits,
  (R / 2^n - 1) * 2^n + 2^n - 1 = R - 1;
* `loadBytes`: the shift leaves the low `ByteBits` bits clear for the byte.

The carry loops are recursive functions, which in TLA+ are a `CHOOSE`;
`NatFacts` proves that such a function exists on the naturals and on `0 .. n`
and satisfies its equation, from which bounds on carries follow by induction
over the set of indices at which they hold.

### Objects: what is computed

For `Canonical` an object must be `Proper`: `Safe`, with a leading digit that is not
zero and no negative zero.  This is inductive only together with the values: the
result of a subtraction has no borrow left because its left side was found to be the
larger, and `compare` finds that because both were `Proper`.

What is computed is therefore said of each member function as what it does to
`Magnitude`, the sum of an object's digits times their weights.  One lemma serves
all loops with a carry (`ChainExact`): if each turn leaves a digit and a carry
with `z[i] + R * c[i+1] = u[i] + c[i]`, then the digits passed, plus the last
carry at its weight, are the sum of the inputs passed, plus the first carry.
Addition, subtraction, multiplication by a digit, the rows of `baselineMultiply`
and both bit shifts are instances of it.  `CompareIsOrder` is the other half: two
`Proper` objects compare as their values, by the highest digit in which they differ.

`Implementation` follows action by action: each call takes `Proper` objects to
`Proper` objects and is the step of `IntegerRegisters` with the same name.
`BitsAlwaysExact` follows the biterator down: its place, as a number of bits left,
begins at `numberBits()` and falls by one per call of `nextBit` until it is zero
(`NextBitExact`), and what the mask picks there is that bit of the magnitude
(`BitAtExact`), not only of its digit.

`StoreLoadAlwaysExact` is about the bytes, which straddle the digits.  `storeBytes`
takes byte after byte from the low end of a copy that it shifts;
`StoreBytesExact` shows byte k of count to be
`(Magnitude(x) \div 2^(ByteBits * (count - k))) % 2^ByteBits`, also beyond the
number's own bytes, where it is zero.  `StoredNumber` puts them together: a buffer of
count bytes denotes the magnitude modulo `2^(ByteBits * count)`.  Swizzling twice is the
identity, so a swizzled load undoes a swizzled store; that the store reverses its groups
is seen in the lowest byte, which it puts at the head of the last one (`SwizzledLast`).
A load has a *set* of outcomes, because a count past the vector reads
what is not the vector's; a load that clears a vector of three words or more
(`RoomyObjects`: every call leaves three) has one, and it is exact (`LoadClearedExact`).

### Division

The invariant is

```
Objects /\ Kinds /\ Begun /\ Normalised /\ Position /\ Unset
  /\ Identity /\ Below /\ Estimates /\ Results
```

`Identity` is `LoopIdentity` in a form that can be carried through a turn: the
quotient *without the digit being estimated* (`Computed`) times the divisor, plus
the running remainder.  `Unset` says that the digits not yet computed are zero, so that
writing one adds it times its weight (`SetDigit`).  `Below` bounds the running
remainder, and `Estimates` the digit being corrected; both are claimed while
`~zeroDigit`.  `TypeOK` and `LoopIdentity` are claimed always: they hold however wrong
an estimate is, since adding back and correcting change both sides of the identity.

The estimate is the heart of it.  The true digit is the quotient of the running
remainder and the divisor at its place.  The code divides the two leading digits by
the leading digit of the divisor (at least the true digit: `FirstEstimateEnough`)
and lowers the estimate while a test on two digits of the divisor and three of the
remainder fails.  The test passes for the true digit (`QuotientPassesTest`) and for no
digit that exceeds it by more than one (`TestBoundsEstimate`), whether or not the
divisor is normalised: its two numbers are the quotients, rounded down, of divisor and
remainder by one and the same weight, and the one of the divisor has more than one digit.
So the estimate that stands is right or one too large, one subtraction
makes the remainder negative by less than the divisor, and one addition makes
it right (`OneAddedBack`).  Normalisation costs length of the correction loop, never
correctness, which is why `DivideNormalise.cfg` is harmless.

At the end the remainder is below the divisor, both are multiples of the same power of
two, and shifting back gives the quotient and remainder of truncated division
(`Denormalised`, `QuotRem`); the signs and the addition of the modulus in `mod` are the
last step.

### Montgomery

`MontgomeryInverse`: the invariant joins `Bezout` with `VIsPower` (v is a power of two
until it is 1), `CInDigit`, and the stage of the call (`Place`, `Negated`).  A halving
keeps `A * n + B * R = u` for an odd n: u and R are even, so A is; when B is odd the code
adds R to A and takes n from B, which leaves the combination as it is and makes both
even (`HalvesCombine`).  The same holds of C, D and v, so `C * n = 1 (mod R)` when v is 1,
and C, negated, is reduced into a digit.  v is 1 before u and v are compared because it
starts at R, a power of two, and stays 1, because u is never smaller.

`Montgomery`: the invariant is

```
NonnegativeObjects /\ ArgumentsFit /\ Position
  /\ LoopCongruence /\ ProductsReduced /\ PowersExact
```

`TurnEndsInZero`: the digit `u_i` makes the sum a multiple of the radix, so
`rightDigitShift( 1 )` drops a zero.  `TurnBound`: the accumulator stays below the sum
of the modulus and the second operand, so one subtraction is enough.
`TurnCongruence`: the accumulator times the weight of the digits read is congruent to
what was read times the second operand.  That the radix to the power of the length has an
inverse modulo an odd number (`InverseOfR`) takes the congruence to the product; reading
the exponent bit by bit takes the products to the power.  The refinement of
`SquareAndMultiply` is step by step: `Turn` and `XBarReady` stutter, `SquareReady` is
`Square`, `TimesReady` is `Times`, `LastReady` is `Return`.

### AES in counter mode

The invariant is

```
TypeOK /\ AtBlock /\ CounterOfBlock /\ WritesWholeBlocks
  /\ OutputExact /\ CipherIntact /\ RoundTrip
```

`CounterOfBlock` says that the counter at each block is the first one plus the number of blocks done,
which needs the carry of `incrementCounter` as a sum (a byte that wraps hands on one).
`OutputExact` speaks of every byte written so far; that later blocks do not disturb
earlier ones is where the layouts of the buffers come in, and `CipherIntact` is what the
second call needs of the first: that the bytes it reads are still those written.
`RoundTrip` then is `Xor(Xor(a, k), k) = a`, proved bit by bit.  The block cipher is
any function from blocks to blocks.

### RSA blocks

The invariant is `Typed /\ Phases`.  `Typed` is `TypeOK` with a stronger statement of
the block object, which is loaded for every block and never built anew: it is `Proper`,
not negative and has the words of a default vector (`Ready`), so that the exponentiation
reads no digit behind it and the load has one outcome.  `Phases` says what both buffers
hold at each stage of the two calls:

* while `rsaEncrypt` runs (`SomeEncrypted`), some k blocks are done: `bytesRead` and
  `bytesWritten` are k blocks of their kind, the first k cipher blocks are the powers of
  the first k message blocks, and there are zeros behind them;
* from its return on (`AllEncrypted`) k is the number of all blocks, the short one included;
* while `rsaDecrypt` runs (`SomeDecrypted`), the bytes it counts are the blocks
  read so far, each without its leading zeros, one behind the other, and behind them
  nothing is written (`NothingWrittenBehind`).

`CipherExact` and `PlainExact` speak only of the end of a call; neither
is inductive, since a block written at a wrong offset shows only then.  The step is
`EncryptToExact` for a block of the first call and `BlockDecrypted` for one of
the second: the number of the cipher block is the power of the message block's
(`ExponentiationExact`, `StoredNumber`), a number below the modulus has a power that
fits its bytes (`BlockSizes`), the other exponent gives the message block back
(`ExponentsAssumption`), and `storeBytes` of `numberBytes()` bytes writes it from its
first byte that is not zero on (`StrippedExact`).  A block of zeros has none: the call runs
away there, and that no other block makes it write in front of its buffer (`WritesKept`) is
`NextBlock`.  That the last block is the short one and none is lost or counted twice is
arithmetic of quotients (`BlockCount`).

### AES block cipher

A byte of the code is a set of exponents of the standard (`Poly`), and a buffer of
sixteen bytes its state matrix.  Three lemmas translate the arithmetic: `PolyXor`
(exclusive or is the sum of polynomials), `XtimeExact` (the shift and the conditional
`0x1b` are the product with x, because the terms of a product cancel in pairs,
`OddOfThree`), `RconExact` (the constants are the powers of x).  `SubBytesExact`,
`ShiftRowsExact`, `MixColumnsOfBytes` and `AddRoundKeyOfBytes` are the four layers: the
sums that `mixColumns` writes out for each row are the product with the matrix of the
standard, the byte moves of `shiftRows` are its rotation of rows.  `RoundOfBytes` joins them.

The invariant is

```
BlockTypeOK /\ RoundKeysExact /\ InCall
```

`RoundKeysExact` by itself is inductive with the types: each word made is the word of
the standard's expansion (`GeneratedExact`), from the words before it.  `InCall` adds
that no block is begun before the schedule is complete, that between two rounds
`output` is the state of the standard after the same rounds, and that after a call it is the
encrypted block.  With it `BlockImplementation` is step by step:
`StartBlock` is `Begin`, `LastRound` is `Encrypt`, the key schedule and the rounds
between stutter.  The theorem is for every key and block, of which `aes_block` has a sample.

### What stays with TLC

* *Liveness* (`Returns`, `NonzeroReturns`, `FittingMessageReturns`), and `ENABLED` in
  the fairness conditions: outside what TLAPS handles here.
* `KnownTexts`, the test's texts under the composed `AesEncrypt`, and the entries of `SBox`:
  statements about fixed bytes, which evaluation settles.

Induction over data in the form of the library's theorems, which take an operator as a
parameter, is not available; `NatFacts` states induction over a *set* instead.  No
module declares a `RECURSIVE` operator.

## Not modelled, and the plan

Not modelled, with the reason:

* the early returns of `loadBytes` and `storeBytes` for a null pointer
  (`BigNum.cpp` 121-122, 149-150) and their exceptions for a count that is no multiple of
  the group (124-125, 152-153): neither path has changed anything.
* what a call does behind the vector of an object that has left it, and what the
  store that runs away writes beyond the byte in front of its buffer: memory that
  belongs to nobody.
* operands with no word at all (`BigNum( 0 )`), loads of no bytes, arguments of
  `*=` above `DigitMask`: undefined or unused in the repository; listed as
  hazards.
* `divide` when an operand is also the result: `operator/=` and `mod` pass fresh
  objects.
* the set-up of R and R^2 by the callers as calls of `leftDigitShift`, `*=` and
  `mod`: `Montgomery` starts from their values, `BigNumDivide` says when `mod`
  returns them.
* the block object of `rsaEncrypt` whose exponentiation reads behind its vector:
  `RsaBlocks` asks for moduli that fit the vector, `exponentiation_long` has the
  others.
* an output buffer of `aesEncrypt` that is not aligned to words: undefined
  behaviour that the targets of the project files permit.
* decryption with the inverse tables: `InvSBox` is there, nothing uses it; that it
  is the inverse of `SBox` is an assumption TLC evaluates (`InvSBoxInverts`).
* formatting, tests, project files.

Every component with behaviour is modelled.  Every safety property of the passing
runs except `KnownTexts`, the three refinements (`ImplementsIntegers`,
`ImplementsSquareAndMultiply`, `ImplementsAes`) among them, is proved for every value of
the constants.  What is left:

* the liveness properties, which are model-checked;
* the six hazards without a property: the two calls on zeros that `NegativeZero.cfg`
  and `JunkZero.cfg` follow to a wrong result, calls that nothing in the repository
  makes, a mask behind the vector that `Mod2bBoundary.cfg` finds, and a modulus of one
  byte, for which `RsaBlocks` ends in `divided by zero` and no text of the repository says what
  should happen;
* the set-up of R and R^2 by the callers, which would tie `Montgomery` to the
  zero-digit case of `BigNumDivide` in one machine.
