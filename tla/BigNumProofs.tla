---------------------------- MODULE BigNumProofs ----------------------------
(***************************************************************************)
(* For every digit width, capacity, set of objects and arguments: no       *)
(* sequence of calls, corner calls included, leaves a digit with its spare *)
(* bit set or junk in the words above those in use, and an object leaves   *)
(* its vector by an append and by nothing else; and without the corner     *)
(* calls the objects are canonical, compare orders them as integers, and   *)
(* every call computes the integer operation.                              *)
(***************************************************************************)
EXTENDS BigNum, BigNumArithProofs

-----------------------------------------------------------------------------
(***************************************************************************)
(* The inductive invariant: an object is safe, or an append has filled its *)
(* vector and counts one word more.  Every vector has three words, so a    *)
(* load that clears its object first stays in the vector.                  *)
(***************************************************************************)
Filled(x) == IsNumber(x) /\ Overrun(x)

SafeObjects ==
  /\ num = [n \in Names |-> num[n]]
  /\ \A n \in Names : num[n].size >= 3 /\ (Safe(num[n]) \/ Filled(num[n]))

(* The constructor makes safe objects. *)
LEMMA InitSafe == Init => SafeObjects
BY NewSafe, NewRoomy, CapacityAssumption DEF Init, SafeObjects

(* What holds of one object. *)
LEMMA ObjectSafe ==
  ASSUME SafeObjects, NEW n \in Names
  PROVE  /\ IsNumber(num[n]) /\ num[n].size \in Nat /\ num[n].size >= 3
         /\ Counted(num[n])
         /\ UsedInVector(num[n]) => Safe(num[n])
         /\ ~UsedInVector(num[n]) => Filled(num[n])
<1> DEFINE x == num[n]
<1>1. x.size >= 3 /\ (Safe(x) \/ Filled(x))
  BY DEF SafeObjects
<1> HIDE DEF x
<1>2. CASE Safe(x)
  <2>1. Counted(x) /\ IsNumber(x) /\ UsedInVector(x) /\ x.size \in Nat
    BY <1>2, SafeCounted, Fields DEF Safe
  <2>2. QED
    BY <1>1, <1>2, <2>1 DEF x
<1>3. CASE Filled(x)
  <2>1. IsNumber(x) /\ x.used = x.size + 1 /\ x.size \in Nat
    BY <1>3, Fields DEF Filled, Overrun
  <2>2. ~UsedInVector(x) /\ ClearAboveUsed(x)
    BY <2>1 DEF UsedInVector, ClearAboveUsed
  <2>3. Counted(x)
    BY <1>1, <2>1, <2>2 DEF Counted
  <2>4. QED
    BY <1>1, <1>3, <2>1, <2>2, <2>3 DEF x
<1>4. QED
  BY <1>1, <1>2, <1>3

(* What a call does to the capacity of the objects, as CapacityKept has it. *)
KeepsCapacity ==
  \A n \in Names : num'[n].size >= num[n].size \/ call'[1] \in NewVector

(* What a call does to the objects in their vectors, as Contained has it. *)
Contains ==
  \A n \in Names : IF UsedInVector(num'[n])
                   THEN ClearAboveUsed(num'[n])
                   ELSE Overrun(num'[n]) /\ MayLeave(n)

(* A call keeps every object safe if what it makes of its own is safe, or  *)
(* has left its vector in a call that may make it leave.                   *)
LEMMA SetKept ==
  ASSUME SafeObjects, NEW n \in Names, NEW x, x.size >= 3,
         Safe(x) \/ (Filled(x) /\ MayLeave(n)), Set(n, x),
         x.size >= num[n].size \/ call'[1] \in NewVector
  PROVE  SafeObjects' /\ KeepsCapacity /\ Contains
<1>1. \A m \in Names : num'[m] = IF m = n THEN x ELSE num[m]
  BY DEF SafeObjects, Set
<1>2. \A m \in Names : num[m].size \in Nat
  BY ObjectSafe
<1>3. SafeObjects'
  BY DEF SafeObjects, Set
<1>4. KeepsCapacity
  BY <1>1, <1>2 DEF KeepsCapacity
<1>5. ASSUME NEW m \in Names
      PROVE  IF UsedInVector(num'[m])
             THEN ClearAboveUsed(num'[m])
             ELSE Overrun(num'[m]) /\ MayLeave(m)
  <2>1. CASE m = n
    <3>1. num'[m] = x
      BY <1>1, <2>1
    <3>2. CASE Safe(x)
      BY <3>1, <3>2 DEF Safe
    <3>3. CASE Filled(x) /\ MayLeave(n)
      <4>1. x.used = x.size + 1 /\ x.size \in Nat
        BY <3>3, Fields DEF Filled, Overrun
      <4>2. ~UsedInVector(x)
        BY <4>1 DEF UsedInVector
      <4>3. QED
        BY <2>1, <3>1, <3>3, <4>2 DEF Filled
    <3>4. QED
      BY <3>2, <3>3
  <2>2. CASE m # n
    <3>1. num'[m] = num[m]
      BY <1>1, <2>2
    <3>2. CASE UsedInVector(num[m])
      BY <3>1, <3>2, ObjectSafe DEF Safe
    <3>3. CASE ~UsedInVector(num[m])
      BY <3>1, <3>3, ObjectSafe DEF Filled, MayLeave
    <3>4. QED
      BY <3>2, <3>3
  <2>3. QED
    BY <2>1, <2>2
<1>6. QED
  BY <1>3, <1>4, <1>5 DEF Contains

(* The case of a safe result that keeps the capacity. *)
LEMMA SetSafe ==
  ASSUME SafeObjects, NEW n \in Names, NEW x, Safe(x), Set(n, x),
         x.size >= num[n].size
  PROVE  SafeObjects' /\ KeepsCapacity /\ Contains
<1>1. x.size >= 3
  BY ObjectSafe, Fields DEF Safe
<1>2. QED
  BY <1>1, SetKept

(* Calls that need no digit to be in the vector. *)
LEMMA AnyFormSafe ==
  ASSUME SafeObjects, NEW n \in Names,
         \/ DoAbs(n) \/ DoNegate(n) \/ DoZero(n) \/ DoMultiplyByTwo(n)
         \/ \E k \in Counts : DoGrow(n, k) \/ DoLeftDigitShift(n, k) \/ DoShiftLeft(n, k)
         \/ \E d \in 0 .. WordRadix - 1 : DoAssignDigit(n, d)
         \/ \E d \in Digit : DoMultiplyDigit(n, d)
         \/ \E m \in Names : DoCopy(n, m)
  PROVE  SafeObjects' /\ KeepsCapacity /\ Contains
<1> DEFINE x == num[n]
<1>1. /\ IsNumber(x) /\ x.size \in Nat /\ x.size >= 3 /\ Counted(x)
      /\ UsedInVector(x) => Safe(x)
      /\ ~UsedInVector(x) => Filled(x)
  BY ObjectSafe
<1>2. CASE DoAbs(n)
  <2>1. CASE Safe(x)
    <3>1. Safe(Abs(x)) /\ Abs(x).size >= x.size
      BY <1>1, <2>1, AbsSafe
    <3>2. QED
      BY <1>2, <3>1, SetSafe DEF DoAbs
  <2>2. CASE ~UsedInVector(x)
    <3>1. Filled(Abs(x)) /\ Abs(x).size = x.size
      BY <1>1, <2>2 DEF Filled, Overrun, IsNumber, Abs
    <3>2. QED
      BY <1>1, <1>2, <2>2, <3>1, SetKept DEF DoAbs, MayLeave
  <2>3. QED
    BY <1>1, <2>1, <2>2
<1>3. CASE DoNegate(n)
  <2>1. CASE Safe(x)
    <3>1. Safe(Negate(x)) /\ Negate(x).size >= x.size
      BY <1>1, <2>1, NegateSafe
    <3>2. QED
      BY <1>3, <3>1, SetSafe DEF DoNegate
  <2>2. CASE ~UsedInVector(x)
    <3>1. Filled(Negate(x)) /\ Negate(x).size = x.size
      BY <1>1, <2>2 DEF Filled, Overrun, IsNumber, Negate, IsZero
    <3>2. QED
      BY <1>1, <1>3, <2>2, <3>1, SetKept DEF DoNegate, MayLeave
  <2>3. QED
    BY <1>1, <2>1, <2>2
<1>4. CASE DoZero(n)
  <2>1. Safe(Zero(x)) /\ Zero(x).size >= x.size
    BY <1>1, ZeroSafe
  <2>2. QED
    BY <1>4, <2>1, SetSafe DEF DoZero
<1>5. CASE DoMultiplyByTwo(n)
  <2>1. Safe(MultiplyByTwo(x)) /\ MultiplyByTwo(x).size >= x.size
    BY <1>1, RadixPositive, GrownFirst
  <2>2. QED
    BY <1>5, <2>1, SetSafe DEF DoMultiplyByTwo
<1>6. ASSUME NEW k \in Counts,
             DoGrow(n, k) \/ DoLeftDigitShift(n, k) \/ DoShiftLeft(n, k)
      PROVE  SafeObjects' /\ KeepsCapacity /\ Contains
  <2>1. k \in Nat
    BY CountsAssumption
  <2>2. ASSUME Set(n, x) PROVE SafeObjects' /\ KeepsCapacity /\ Contains
    BY <1>1, <2>2, SetKept DEF MayLeave
  <2>3. CASE DoGrow(n, k)
    <3>1. CASE Safe(x) \/ x.size < k
      <4>1. Safe(Grow(x, k)) /\ Grow(x, k).size >= x.size
        <5>1. UsedInVector(x) \/ x.used <= k
          <6>1. x.used \in Nat /\ x.used <= x.size + 1
            BY <1>1, Fields DEF Counted
          <6>2. QED
            BY <1>1, <2>1, <3>1, <6>1 DEF Safe
        <5>2. QED
          BY <1>1, <2>1, <5>1, GrowSafe DEF Counted
      <4>2. QED
        BY <2>3, <4>1, SetSafe DEF DoGrow
    <3>2. CASE x.size >= k
      <4>1. Grow(x, k) = x
        BY <3>2 DEF Grow
      <4>2. QED
        BY <2>2, <2>3, <4>1 DEF DoGrow
    <3>3. QED
      BY <1>1, <2>1, <3>1, <3>2
  <2>4. CASE DoLeftDigitShift(n, k)
    <3>1. CASE k = 0
      <4>1. LeftDigitShift(x, k) = x
        BY <3>1 DEF LeftDigitShift
      <4>2. QED
        BY <2>2, <2>4, <4>1 DEF DoLeftDigitShift
    <3>2. CASE k # 0
      <4>1. /\ Safe(LeftDigitShift(x, k))
            /\ LeftDigitShift(x, k).size >= x.size
        BY <1>1, <2>1, <3>2, RadixPositive, GrownFirst
      <4>2. QED
        BY <2>4, <4>1, SetSafe DEF DoLeftDigitShift
    <3>3. QED
      BY <3>1, <3>2
  <2>5. CASE DoShiftLeft(n, k)
    <3>1. Safe(Shl(x, k)) /\ Shl(x, k).size >= x.size
      BY <1>1, <2>1, RadixPositive, GrownFirst
    <3>2. QED
      BY <2>5, <3>1, SetSafe DEF DoShiftLeft
  <2>6. QED
    BY <1>6, <2>3, <2>4, <2>5
<1>7. ASSUME NEW d \in 0 .. WordRadix - 1, DoAssignDigit(n, d)
      PROVE  SafeObjects' /\ KeepsCapacity /\ Contains
  <2>1. d \in Nat
    BY RadixPositive DEF WordRadix
  <2>2. Safe(Zero(x)) /\ Zero(x).size = x.size /\ Zero(Zero(x)) = Zero(x)
    BY <1>1, ZeroSafe, ZeroTwice
  <2>3. AssignDigit(x, d) = AssignDigit(Zero(x), d)
    BY <2>2, ClearedAlike
  <2>4. Safe(AssignDigit(x, d)) /\ AssignDigit(x, d).size >= x.size
    <3>1. /\ Safe(AssignDigit(Zero(x), d))
          /\ AssignDigit(Zero(x), d).size = Zero(x).size
      BY <2>1, <2>2, AssignDigitSafe
    <3>2. QED
      BY <1>1, <2>2, <2>3, <3>1
  <2>5. QED
    BY <1>7, <2>4, SetSafe DEF DoAssignDigit
<1>8. ASSUME NEW d \in Digit, DoMultiplyDigit(n, d)
      PROVE  SafeObjects' /\ KeepsCapacity /\ Contains
  <2>1. Safe(MulDigit(x, d)) /\ MulDigit(x, d).size >= x.size
    <3>1. 0 \in Nat
      OBVIOUS
    <3>2. QED
      BY <1>1, <3>1, GrownFirst
  <2>2. QED
    BY <1>8, <2>1, SetSafe DEF DoMultiplyDigit
<1>9. ASSUME NEW m \in Names, DoCopy(n, m)
      PROVE  SafeObjects' /\ KeepsCapacity /\ Contains
  <2>1. /\ Set(n, num[m]) /\ call' = <<"copy", n, m>>
        /\ call'[1] \in NewVector
    BY <1>9 DEF DoCopy, NewVector
  <2>2. num[m].size >= 3 /\ (Safe(num[m]) \/ (Filled(num[m]) /\ ~UsedInVector(num[m])))
    BY ObjectSafe
  <2>3. Safe(num[m]) \/ (Filled(num[m]) /\ MayLeave(n))
    BY <2>1, <2>2 DEF MayLeave
  <2>4. QED
    BY <2>1, <2>2, <2>3, SetKept
<1>10. QED
  BY <1>2, <1>3, <1>4, <1>5, <1>6, <1>7, <1>8, <1>9

(* Calls that read or write the digits in use where they are. *)
LEMMA InVectorSafe ==
  ASSUME SafeObjects, NEW n \in Names, UsedInVector(num[n]),
         \/ DoClamp(n) \/ DoDivideByTwo(n)
         \/ \E k \in Counts : DoMod2b(n, k) \/ DoRightDigitShift(n, k) \/ DoShiftRight(n, k)
         \/ \E m \in Names :
              /\ UsedInVector(num[m])
              /\ DoAssign(n, m) \/ DoAdd(n, m) \/ DoSubtract(n, m) \/ DoMultiply(n, m)
  PROVE  SafeObjects' /\ KeepsCapacity /\ Contains
<1> DEFINE x == num[n]
<1>1. Safe(x) /\ x.size \in Nat
  BY ObjectSafe
<1>2. CASE DoClamp(n)
  <2>1. Safe(Clamp(x)) /\ Clamp(x).size >= x.size
    BY <1>1, ClampSafe
  <2>2. QED
    BY <1>2, <2>1, SetSafe DEF DoClamp
<1>3. CASE DoDivideByTwo(n)
  <2>1. Safe(DivideByTwo(x)) /\ DivideByTwo(x).size >= x.size
    BY <1>1, DivideByTwoSafe
  <2>2. QED
    BY <1>3, <2>1, SetSafe DEF DoDivideByTwo
<1>4. ASSUME NEW k \in Counts,
             DoMod2b(n, k) \/ DoRightDigitShift(n, k) \/ DoShiftRight(n, k)
      PROVE  SafeObjects' /\ KeepsCapacity /\ Contains
  <2>1. k \in Nat
    BY CountsAssumption
  <2>2. CASE DoMod2b(n, k)
    <3>1. Safe(Mod2b(x, k)) /\ Mod2b(x, k).size >= x.size
      BY <1>1, <2>1, Mod2bSafe
    <3>2. QED
      BY <2>2, <3>1, SetSafe DEF DoMod2b
  <2>3. CASE DoRightDigitShift(n, k)
    <3>1. Safe(RightDigitShift(x, k)) /\ RightDigitShift(x, k).size >= x.size
      BY <1>1, <2>1, RightDigitShiftSafe
    <3>2. QED
      BY <2>3, <3>1, SetSafe DEF DoRightDigitShift
  <2>4. CASE DoShiftRight(n, k)
    <3>1. Safe(Shr(x, k)) /\ Shr(x, k).size >= x.size
      BY <1>1, <2>1, ShrSafe
    <3>2. QED
      BY <2>4, <3>1, SetSafe DEF DoShiftRight
  <2>5. QED
    BY <1>4, <2>2, <2>3, <2>4
<1>5. ASSUME NEW m \in Names, UsedInVector(num[m]),
             DoAssign(n, m) \/ DoAdd(n, m) \/ DoSubtract(n, m) \/ DoMultiply(n, m)
      PROVE  SafeObjects' /\ KeepsCapacity /\ Contains
  <2>1. Safe(num[m])
    BY <1>5, ObjectSafe
  <2>2. CASE DoAssign(n, m)
    <3> DEFINE z == IF m = n THEN x ELSE Assign(x, num[m])
    <3>1. Safe(z) /\ z.size >= x.size
      BY <1>1, <2>1, AssignSafe
    <3>2. QED
      BY <2>2, <3>1, SetSafe DEF DoAssign
  <2>3. CASE DoAdd(n, m)
    <3>1. Safe(AddEq(x, num[m])) /\ AddEq(x, num[m]).size >= x.size
      BY <1>1, <2>1, AddEqSafe
    <3>2. QED
      BY <2>3, <3>1, SetSafe DEF DoAdd
  <2>4. CASE DoSubtract(n, m)
    <3>1. Safe(SubEq(x, num[m])) /\ SubEq(x, num[m]).size >= x.size
      BY <1>1, <2>1, SubEqSafe
    <3>2. QED
      BY <2>4, <3>1, SetSafe DEF DoSubtract
  <2>5. CASE DoMultiply(n, m)
    <3>1. Safe(Mul(x, num[m])) /\ Mul(x, num[m]).size >= 3
      BY <1>1, <2>1, MulSafe, MulRoomy
    <3>2. QED
      BY <2>5, <3>1, SetKept DEF DoMultiply, NewVector
  <2>6. QED
    BY <1>5, <2>2, <2>3, <2>4, <2>5
<1>6. QED
  BY <1>2, <1>3, <1>4, <1>5

(* Loads of bytes: only one that appends leaves the vector. *)
LEMMA LoadsSafe ==
  ASSUME SafeObjects, NEW n \in Names, NEW bytes \in Buffers,
         \/ \E preZero \in BOOLEAN : DoLoad(n, bytes, preZero)
         \/ DoConstruct(n, bytes)
  PROVE  SafeObjects' /\ KeepsCapacity /\ Contains
<1> DEFINE x == num[n]
<1>1. /\ IsNumber(x) /\ x.size \in Nat /\ x.size >= 3 /\ Counted(x)
      /\ bytes \in Seq(Byte) /\ bytes # <<>>
  BY ObjectSafe, BuffersAssumption
<1>2. CASE DoLoad(n, bytes, FALSE)
  <2>1. PICK z \in LoadBytes(x, bytes, FALSE) : Set(n, z)
    BY <1>2 DEF DoLoad
  <2>2. /\ z.size >= x.size
        /\ UsedInVector(z) => Safe(z)
        /\ ~UsedInVector(z) => Filled(z)
    BY <1>1, LoadBytesCounted DEF Filled, Overrun
  <2>3. z.size >= 3
    BY <1>1, <2>2, Fields DEF Safe, Filled
  <2>4. MayLeave(n)
    <3>1. call' = <<"loadBytes", n, bytes, FALSE>>
      BY <1>2 DEF DoLoad
    <3>2. QED
      BY <3>1 DEF MayLeave, Appends
  <2>5. QED
    BY <2>1, <2>2, <2>3, <2>4, SetKept
<1>3. CASE DoLoad(n, bytes, TRUE)
  <2>1. PICK z \in LoadBytes(x, bytes, TRUE) : Set(n, z)
    BY <1>3 DEF DoLoad
  <2>2. Safe(Zero(x)) /\ Zero(x).size = x.size /\ Zero(Zero(x)) = Zero(x)
    BY <1>1, ZeroSafe, ZeroTwice
  <2>3. LoadBytes(x, bytes, TRUE) = LoadBytes(Zero(x), bytes, TRUE)
    BY <2>2, ClearedAlike
  <2>4. Safe(z) /\ z.size >= x.size
    <3>1. PICK v : /\ LoadBytes(Zero(x), bytes, TRUE) = {v}
                   /\ Proper(v) /\ v.size >= Zero(x).size
      BY <1>1, <2>2, LoadClearedExact
    <3>2. z = v
      BY <2>1, <2>3, <3>1
    <3>3. QED
      BY <2>2, <3>1, <3>2 DEF Proper
  <2>5. QED
    BY <2>1, <2>4, SetSafe
<1>4. CASE DoConstruct(n, bytes)
  <2>1. Safe(BigNumDefault) /\ BigNumDefault.size >= 3
    BY BaseCapacityAssumption, NewSafe, NewRoomy DEF BigNumDefault
  <2>2. PICK z \in LoadBytes(BigNumDefault, bytes, TRUE) : Set(n, z)
    BY <1>4 DEF DoConstruct
  <2>3. Safe(z) /\ z.size >= BigNumDefault.size
    BY <1>1, <2>1, <2>2, LoadClearedExact DEF Proper
  <2>4. z.size >= 3
    BY <2>1, <2>3, Fields DEF Safe
  <2>5. QED
    BY <1>4, <2>2, <2>3, <2>4, SetKept DEF DoConstruct, NewVector
<1>5. QED
  BY <1>2, <1>3, <1>4

(* Every call keeps the objects safe. *)
LEMMA NextSafe ==
  ASSUME SafeObjects, Next
  PROVE  SafeObjects' /\ KeepsCapacity /\ Contains
<1>1. PICK n \in Names :
        \/ DoAbs(n) \/ DoNegate(n) \/ DoZero(n) \/ DoMultiplyByTwo(n)
        \/ \E k \in Counts : DoGrow(n, k) \/ DoLeftDigitShift(n, k) \/ DoShiftLeft(n, k)
        \/ \E d \in 0 .. WordRadix - 1 : DoAssignDigit(n, d)
        \/ \E d \in Digit : DoMultiplyDigit(n, d)
        \/ \E bytes \in Buffers, preZero \in BOOLEAN : DoLoad(n, bytes, preZero)
        \/ \E bytes \in Buffers : DoConstruct(n, bytes)
        \/ \E m \in Names : DoCopy(n, m)
        \/ /\ UsedInVector(num[n])
           /\ \/ DoClamp(n) \/ DoDivideByTwo(n)
              \/ \E k \in Counts :
                   DoMod2b(n, k) \/ DoRightDigitShift(n, k) \/ DoShiftRight(n, k)
              \/ \E m \in Names :
                   /\ UsedInVector(num[m])
                   /\ DoAssign(n, m) \/ DoAdd(n, m) \/ DoSubtract(n, m)
                        \/ DoMultiply(n, m)
  BY DEF Next
<1>2. CASE \/ DoAbs(n) \/ DoNegate(n) \/ DoZero(n) \/ DoMultiplyByTwo(n)
           \/ \E k \in Counts : DoGrow(n, k) \/ DoLeftDigitShift(n, k) \/ DoShiftLeft(n, k)
           \/ \E d \in 0 .. WordRadix - 1 : DoAssignDigit(n, d)
           \/ \E d \in Digit : DoMultiplyDigit(n, d)
           \/ \E m \in Names : DoCopy(n, m)
  BY <1>2, AnyFormSafe
<1>3. CASE \/ \E bytes \in Buffers, preZero \in BOOLEAN : DoLoad(n, bytes, preZero)
           \/ \E bytes \in Buffers : DoConstruct(n, bytes)
  BY <1>3, LoadsSafe
<1>4. CASE /\ UsedInVector(num[n])
           /\ \/ DoClamp(n) \/ DoDivideByTwo(n)
              \/ \E k \in Counts :
                   DoMod2b(n, k) \/ DoRightDigitShift(n, k) \/ DoShiftRight(n, k)
              \/ \E m \in Names :
                   /\ UsedInVector(num[m])
                   /\ DoAssign(n, m) \/ DoAdd(n, m) \/ DoSubtract(n, m)
                        \/ DoMultiply(n, m)
  BY <1>4, InVectorSafe
<1>5. QED
  BY <1>1, <1>2, <1>3, <1>4

-----------------------------------------------------------------------------
(* Safe objects, always. *)
LEMMA AlwaysSafe == Spec => []SafeObjects
<1>1. SafeObjects /\ [Next]_vars => SafeObjects'
  <2>1. SafeObjects /\ UNCHANGED vars => SafeObjects'
    BY DEF SafeObjects, vars
  <2>2. QED
    BY <2>1, NextSafe
<1>2. QED
  BY <1>1, InitSafe, PTL DEF Spec

(***************************************************************************)
(* No carry, borrow, shift, product or loaded byte is ever left in a       *)
(* digit's spare bit (the DigitMask of every loop of BigNum.cpp), whatever *)
(* the calls, the objects and the width of a digit.                        *)
(***************************************************************************)
THEOREM TypeCorrect == Spec => []TypeOK
<1>1. SafeObjects => TypeOK
  BY DEF SafeObjects, TypeOK, Safe, Filled
<1>2. QED
  BY <1>1, AlwaysSafe, PTL

(***************************************************************************)
(* An object leaves its vector in a call that appends bytes to it, and in  *)
(* no other (but a copy is where the original is), by one word behind a    *)
(* vector that the carry has filled; while it is in its vector, no word    *)
(* above its digits in use is other than clear.  So it is, even after the  *)
(* calls that leave zeros in forms the code does not expect, and after     *)
(* those that bring an object back into its vector.                        *)
(***************************************************************************)
THEOREM AlwaysContained == Spec => Contained
<1>1. SafeObjects /\ [Next]_vars => [Contains]_vars
  BY NextSafe
<1>2. QED
  BY <1>1, AlwaysSafe, PTL DEF Spec, Contained, Contains

(***************************************************************************)
(* Every call but *= and construction leaves every object at least the     *)
(* capacity it had, the one it changes and the others: a capacity reserved *)
(* by grow stays.                                                          *)
(***************************************************************************)
THEOREM CapacityAlwaysKept == Spec => CapacityKept
<1>1. SafeObjects /\ [Next]_vars => [KeepsCapacity]_vars
  BY NextSafe
<1>2. QED
  BY <1>1, AlwaysSafe, PTL DEF Spec, CapacityKept, KeepsCapacity

-----------------------------------------------------------------------------
(***************************************************************************)
(* The calls as integer operations, for callers that make none of the      *)
(* corner calls (Corners = {}).  Canonical alone is not inductive: an      *)
(* operation is exact because the digits of its operands are digits, and   *)
(* canonical because it is exact.                                          *)
(***************************************************************************)
ProperObjects ==
  /\ num = [n \in Names |-> num[n]]
  /\ \A n \in Names : Proper(num[n])

(* The powers of two of the two specifications are the same function. *)
LEMMA SamePowers == Integers!Pow2 = Pow2
BY DEF Integers!Pow2, Pow2

(* An object with no digit in use is zero. *)
LEMMA NewExact ==
  ASSUME NEW c \in Nat \ {0}
  PROVE  Proper(New(c)) /\ Value(New(c)) = 0
<1>1. Safe(New(c)) /\ New(c).used = 0 /\ New(c).neg = FALSE
  BY NewSafe
<1>2. Magnitude(New(c)) = 0
  BY <1>1, ZeroMagnitude
<1>3. QED
  BY <1>1, <1>2 DEF Proper, LeadingNonzero, ZeroNonnegative, Value

(* The constructor makes zeros. *)
LEMMA InitExact == Init => ProperObjects /\ Integers!Init
<1>1. SUFFICES ASSUME Init PROVE ProperObjects /\ Integers!Init
  OBVIOUS
<1>2. num = [n \in Names |-> New(Capacity)] /\ call = <<"construct">>
  BY <1>1 DEF Init
<1>3. Proper(New(Capacity)) /\ Value(New(Capacity)) = 0
  BY NewExact, CapacityAssumption
<1>4. ProperObjects
  BY <1>2, <1>3 DEF ProperObjects
<1>5. [n \in Names |-> Value(num[n])] = [n \in Names |-> 0]
  BY <1>2, <1>3
<1>6. QED
  BY <1>2, <1>4, <1>5 DEF Integers!Init

(* A call that makes x of object n sets the integer of n to that of x. *)
LEMMA SetExact ==
  ASSUME ProperObjects, NEW n \in Names, NEW x, Proper(x), Set(n, x)
  PROVE  /\ ProperObjects'
         /\ Integers!Set(n, Value(x))
<1>1. \A m \in Names : num'[m] = IF m = n THEN x ELSE num[m]
  BY DEF ProperObjects, Set
<1>2. ProperObjects'
  BY DEF ProperObjects, Set
<1>3. [m \in Names |-> Value(num'[m])]
        = [[m \in Names |-> Value(num[m])] EXCEPT ![n] = Value(x)]
  BY <1>1
<1>4. QED
  BY <1>2, <1>3 DEF Integers!Set

(* One that leaves the integer alone changes none. *)
LEMMA SetSame ==
  ASSUME ProperObjects, NEW n \in Names, NEW x, Proper(x), Set(n, x),
         Value(x) = Value(num[n])
  PROVE  /\ ProperObjects'
         /\ UNCHANGED [m \in Names |-> Value(num[m])]
<1>1. \A m \in Names : num'[m] = IF m = n THEN x ELSE num[m]
  BY DEF ProperObjects, Set
<1>2. ProperObjects'
  BY SetExact
<1>3. [m \in Names |-> Value(num'[m])] = [m \in Names |-> Value(num[m])]
  BY <1>1
<1>4. QED
  BY <1>2, <1>3

(* Magnitudes, and magnitudes with a sign, in terms of the integer. *)
LEMMA IntegerForms ==
  ASSUME NEW x, Proper(x)
  PROVE  /\ Integers!Magnitude(Value(x)) = Magnitude(x)
         /\ \A m \in Nat : Integers!Sign(Value(x)) * m = Signed(x, m)
<1>1. /\ Value(x) \in Int /\ Magnitude(x) \in Nat /\ x.neg \in BOOLEAN
      /\ x.neg <=> Value(x) < 0
      /\ Value(x) = IF x.neg THEN -Magnitude(x) ELSE Magnitude(x)
  BY ProperValue DEF Value
<1>2. CASE x.neg
  <2>1. Value(x) < 0 /\ Value(x) = -Magnitude(x)
    BY <1>1, <1>2
  <2>2. Integers!Sign(Value(x)) = -1
    BY <2>1 DEF Integers!Sign
  <2>3. PICK a \in Nat : Magnitude(x) = a
    BY <1>1
  <2>4. (-1) * (-a) = a /\ \A m \in Nat : (-1) * m = -m
    OBVIOUS
  <2>5. Integers!Magnitude(Value(x)) = a
    BY <2>1, <2>2, <2>3, <2>4, Zenon DEF Integers!Magnitude
  <2>6. \A m \in Nat : Integers!Sign(Value(x)) * m = Signed(x, m)
    BY <1>2, <2>2, <2>4, Zenon DEF Signed
  <2>7. QED
    BY <2>3, <2>5, <2>6
<1>3. CASE ~x.neg
  <2>1. ~(Value(x) < 0) /\ Value(x) = Magnitude(x)
    BY <1>1, <1>3
  <2>2. Integers!Sign(Value(x)) = 1
    BY <2>1 DEF Integers!Sign
  <2>3. \A m \in Nat : 1 * m = m
    OBVIOUS
  <2>4. Integers!Magnitude(Value(x)) = Magnitude(x)
    BY <1>1, <2>1, <2>2, <2>3 DEF Integers!Magnitude
  <2>5. \A m \in Nat : Integers!Sign(Value(x)) * m = Signed(x, m)
    BY <1>3, <2>2, <2>3 DEF Signed
  <2>6. QED
    BY <2>4, <2>5
<1>4. QED
  BY <1>2, <1>3

(* The quotient and the remainder of magnitudes, with the sign of the object. *)
LEMMA TruncatedForms ==
  ASSUME NEW x, Proper(x), NEW d \in Nat \ {0}
  PROVE  /\ Integers!Quotient(Value(x), d) = Signed(x, Magnitude(x) \div d)
         /\ Integers!Remainder(Value(x), d) = Signed(x, Magnitude(x) % d)
<1>1. PICK a \in Nat : Magnitude(x) = a
  BY ProperValue
<1>2. a \div d \in Nat /\ a % d \in Nat
  OBVIOUS
<1>3. /\ Integers!Magnitude(Value(x)) = a
      /\ \A m \in Nat : Integers!Sign(Value(x)) * m = Signed(x, m)
  BY <1>1, IntegerForms
<1>4. Integers!Quotient(Value(x), d) = Signed(x, a \div d)
  BY <1>2, <1>3, Zenon DEF Integers!Quotient
<1>5. Integers!Remainder(Value(x), d) = Signed(x, a % d)
  BY <1>2, <1>3, Zenon DEF Integers!Remainder
<1>6. QED
  BY <1>1, <1>4, <1>5

(* The calls without arguments. *)
LEMMA PlainCallsExact ==
  ASSUME ProperObjects, NEW n \in Names,
         \/ DoAbs(n) \/ DoNegate(n) \/ DoZero(n) \/ DoClamp(n)
         \/ DoMultiplyByTwo(n) \/ DoDivideByTwo(n)
  PROVE  /\ ProperObjects'
         /\ \/ Integers!Abs(n) \/ Integers!Negate(n) \/ Integers!Clear(n)
            \/ Integers!Tidy(n)
            \/ Integers!MultiplyByTwo(n) \/ Integers!DivideByTwo(n)
<1> DEFINE x == num[n]
           old == [m \in Names |-> Value(num[m])]
<1>1. Proper(x) /\ Safe(x) /\ Value(x) \in Int /\ Magnitude(x) \in Nat
  BY ProperValue DEF ProperObjects, Proper
<1>2. old[n] = Value(x)
  OBVIOUS
<1>3. CASE DoAbs(n)
  <2>1. Proper(Abs(x)) /\ Value(Abs(x)) = Magnitude(x)
    BY <1>1, AbsExact
  <2>2. Set(n, Abs(x)) /\ call' = <<"abs", n>>
    BY <1>3 DEF DoAbs
  <2>3. ProperObjects' /\ Integers!Set(n, Value(Abs(x)))
    BY <2>1, <2>2, SetExact
  <2>4. Integers!Magnitude(Value(x)) = Magnitude(x)
    BY <1>1, IntegerForms
  <2>5. Integers!Abs(n)
    BY <1>2, <2>1, <2>2, <2>3, <2>4 DEF Integers!Abs
  <2>6. QED
    BY <2>3, <2>5
<1>4. CASE DoNegate(n)
  <2>1. Proper(Negate(x)) /\ Value(Negate(x)) = -Value(x)
    BY <1>1, NegateExact
  <2>2. Set(n, Negate(x)) /\ call' = <<"negate", n>>
    BY <1>4 DEF DoNegate
  <2>3. ProperObjects' /\ Integers!Set(n, Value(Negate(x)))
    BY <2>1, <2>2, SetExact
  <2>4. Integers!Negate(n)
    BY <1>2, <2>1, <2>2, <2>3 DEF Integers!Negate
  <2>5. QED
    BY <2>3, <2>4
<1>5. CASE DoZero(n)
  <2>1. Proper(Zero(x)) /\ Value(Zero(x)) = 0
    BY <1>1, ZeroExact
  <2>2. Set(n, Zero(x)) /\ call' = <<"zero", n>>
    BY <1>5 DEF DoZero
  <2>3. ProperObjects' /\ Integers!Set(n, Value(Zero(x)))
    BY <2>1, <2>2, SetExact
  <2>4. Integers!Clear(n)
    BY <2>1, <2>2, <2>3 DEF Integers!Clear
  <2>5. QED
    BY <2>3, <2>4
<1>6. CASE DoClamp(n)
  <2>1. Proper(Clamp(x)) /\ Value(Clamp(x)) = Value(x)
    BY <1>1, ClampExact
  <2>2. Set(n, Clamp(x)) /\ call' = <<"clamp", n>>
    BY <1>6 DEF DoClamp
  <2>3. ProperObjects' /\ UNCHANGED old
    BY <2>1, <2>2, SetSame
  <2>4. Integers!Tidy(n)
    BY <2>2, <2>3 DEF Integers!Tidy
  <2>5. QED
    BY <2>3, <2>4
<1>7. CASE DoMultiplyByTwo(n)
  <2>1. Proper(MultiplyByTwo(x)) /\ Value(MultiplyByTwo(x)) = 2 * Value(x)
    <3>1. Value(x) * 2 = 2 * Value(x)
      BY <1>1
    <3>2. QED
      BY <1>1, <3>1, MultiplyByTwoExact
  <2>2. Set(n, MultiplyByTwo(x)) /\ call' = <<"multiplyByTwo", n>>
    BY <1>7 DEF DoMultiplyByTwo
  <2>3. ProperObjects' /\ Integers!Set(n, Value(MultiplyByTwo(x)))
    BY <2>1, <2>2, SetExact
  <2>4. Integers!MultiplyByTwo(n)
    BY <1>2, <2>1, <2>2, <2>3 DEF Integers!MultiplyByTwo
  <2>5. QED
    BY <2>3, <2>4
<1>8. CASE DoDivideByTwo(n)
  <2>1. /\ Proper(DivideByTwo(x))
        /\ Value(DivideByTwo(x)) = Integers!Quotient(Value(x), 2)
    <3>1. 2 \in Nat \ {0}
      OBVIOUS
    <3>2. QED
      BY <1>1, <3>1, DivideByTwoExact, TruncatedForms
  <2>2. Set(n, DivideByTwo(x)) /\ call' = <<"divideByTwo", n>>
    BY <1>8 DEF DoDivideByTwo
  <2>3. ProperObjects' /\ Integers!Set(n, Value(DivideByTwo(x)))
    BY <2>1, <2>2, SetExact
  <2>4. Integers!DivideByTwo(n)
    BY <1>2, <2>1, <2>2, <2>3 DEF Integers!DivideByTwo
  <2>5. QED
    BY <2>3, <2>4
<1>9. QED
  BY <1>3, <1>4, <1>5, <1>6, <1>7, <1>8

(* The calls with a count of bits or digits. *)
LEMMA CountCallsExact ==
  ASSUME ProperObjects, Corners = {}, NEW n \in Names, NEW k \in Counts,
         \/ DoGrow(n, k) \/ DoMod2b(n, k)
         \/ DoLeftDigitShift(n, k) \/ DoRightDigitShift(n, k)
         \/ DoShiftLeft(n, k) \/ DoShiftRight(n, k)
  PROVE  /\ ProperObjects'
         /\ \/ Integers!Reserve(n, k)
            \/ Integers!LeftDigitShift(n, k) \/ Integers!RightDigitShift(n, k)
            \/ Integers!ShiftLeft(n, k) \/ Integers!ShiftRight(n, k)
            \/ Integers!Mod2b(n, k)
<1> DEFINE x == num[n]
           old == [m \in Names |-> Value(num[m])]
<1>1. /\ Proper(x) /\ Safe(x) /\ Value(x) \in Int /\ Magnitude(x) \in Nat
      /\ k \in Nat
  BY ProperValue, CountsAssumption DEF ProperObjects, Proper
<1>2. old[n] = Value(x)
  OBVIOUS
<1>3. /\ Pow2[k] \in Nat \ {0} /\ Weight(k) \in Nat \ {0}
      /\ Weight(k) = Pow2[k * DigitBits]
  <2>1. k * DigitBits = DigitBits * k
    BY <1>1, DigitBitsAssumption
  <2>2. QED
    BY <1>1, <2>1, Pow2Unfold, Weights DEF Weight
<1>4. CASE DoGrow(n, k)
  <2>1. Proper(Grow(x, k)) /\ Value(Grow(x, k)) = Value(x)
    BY <1>1, GrowExact
  <2>2. Set(n, Grow(x, k)) /\ call' = <<"grow", n, k>>
    BY <1>4 DEF DoGrow
  <2>3. ProperObjects' /\ UNCHANGED old
    BY <2>1, <2>2, SetSame
  <2>4. Integers!Reserve(n, k)
    BY <2>2, <2>3 DEF Integers!Reserve
  <2>5. QED
    BY <2>3, <2>4
<1>5. CASE DoMod2b(n, k)
  <2>1. /\ Proper(Mod2b(x, k))
        /\ Value(Mod2b(x, k)) = Integers!Remainder(Value(x), Pow2[k])
    BY <1>1, <1>3, Mod2bExact, TruncatedForms
  <2>2. Set(n, Mod2b(x, k)) /\ call' = <<"mod2b", n, k>>
    BY <1>5 DEF DoMod2b
  <2>3. ProperObjects' /\ Integers!Set(n, Value(Mod2b(x, k)))
    BY <2>1, <2>2, SetExact
  <2>4. Integers!Mod2b(n, k)
    BY <1>2, <2>1, <2>2, <2>3, SamePowers DEF Integers!Mod2b
  <2>5. QED
    BY <2>3, <2>4
<1>6. CASE DoLeftDigitShift(n, k)
  <2>1. k > 0 => x.used > 0
    <3>1. IsZero(x) /\ k > 0 => "ShiftZero" \in Corners
      BY <1>6 DEF DoLeftDigitShift
    <3>2. x.used \in Nat
      BY <1>1, Fields DEF Safe
    <3>3. QED
      BY <1>1, <3>1, <3>2 DEF IsZero
  <2> DEFINE z == LeftDigitShift(x, k)
  <2>2. /\ Safe(z) /\ z.neg = x.neg /\ LeadingNonzero(z)
        /\ Magnitude(z) = Weight(k) * Magnitude(x)
    BY <1>1, <2>1, LeftDigitShiftExact DEF Proper
  <2>3. Set(n, z) /\ call' = <<"leftDigitShift", n, k>>
    BY <1>6 DEF DoLeftDigitShift
  <2> HIDE DEF z
  <2>4. Proper(z) /\ Value(z) = Value(x) * Weight(k)
    BY <1>1, <1>3, <2>2, ScaledValue
  <2>5. ProperObjects' /\ Integers!Set(n, Value(z))
    BY <2>3, <2>4, SetExact
  <2>6. Integers!LeftDigitShift(n, k)
    BY <1>2, <1>3, <2>3, <2>4, <2>5, SamePowers DEF Integers!LeftDigitShift
  <2>7. QED
    BY <2>5, <2>6
<1>7. CASE DoRightDigitShift(n, k)
  <2> DEFINE z == RightDigitShift(x, k)
  <2>1. Proper(z) /\ Value(z) = Integers!Quotient(Value(x), Weight(k))
    BY <1>1, <1>3, RightDigitShiftExact, TruncatedForms
  <2>2. Set(n, z) /\ call' = <<"rightDigitShift", n, k>>
    BY <1>7 DEF DoRightDigitShift
  <2> HIDE DEF z
  <2>3. ProperObjects' /\ Integers!Set(n, Value(z))
    BY <2>1, <2>2, SetExact
  <2>4. Integers!RightDigitShift(n, k)
    BY <1>2, <1>3, <2>1, <2>2, <2>3, SamePowers DEF Integers!RightDigitShift
  <2>5. QED
    BY <2>3, <2>4
<1>8. CASE DoShiftLeft(n, k)
  <2> DEFINE z == Shl(x, k)
  <2>1. ~(IsZero(x) /\ k >= DigitBits)
    BY <1>8 DEF DoShiftLeft
  <2>2. Proper(z) /\ Value(z) = Value(x) * Pow2[k]
    BY <1>1, <2>1, ShlExact
  <2>3. Set(n, z) /\ call' = <<"<<=", n, k>>
    BY <1>8 DEF DoShiftLeft
  <2> HIDE DEF z
  <2>4. ProperObjects' /\ Integers!Set(n, Value(z))
    BY <2>2, <2>3, SetExact
  <2>5. Integers!ShiftLeft(n, k)
    BY <1>2, <2>2, <2>3, <2>4, SamePowers DEF Integers!ShiftLeft
  <2>6. QED
    BY <2>4, <2>5
<1>9. CASE DoShiftRight(n, k)
  <2> DEFINE z == Shr(x, k)
  <2>1. Proper(z) /\ Value(z) = Integers!Quotient(Value(x), Pow2[k])
    BY <1>1, <1>3, ShrExact, TruncatedForms
  <2>2. Set(n, z) /\ call' = <<">>=", n, k>>
    BY <1>9 DEF DoShiftRight
  <2> HIDE DEF z
  <2>3. ProperObjects' /\ Integers!Set(n, Value(z))
    BY <2>1, <2>2, SetExact
  <2>4. Integers!ShiftRight(n, k)
    BY <1>2, <2>1, <2>2, <2>3, SamePowers DEF Integers!ShiftRight
  <2>5. QED
    BY <2>3, <2>4
<1>10. QED
  BY <1>4, <1>5, <1>6, <1>7, <1>8, <1>9

(* The calls with a second operand, which may be the object itself. *)
LEMMA BinaryCallsExact ==
  ASSUME ProperObjects, Corners = {}, NEW n \in Names, NEW m \in Names,
         \/ DoAssign(n, m) \/ DoAdd(n, m)
         \/ DoSubtract(n, m) \/ DoMultiply(n, m) \/ DoCopy(n, m)
  PROVE  /\ ProperObjects'
         /\ \/ Integers!Assign(n, m) \/ Integers!Copy(n, m)
            \/ Integers!Add(n, m) \/ Integers!Subtract(n, m)
            \/ Integers!Multiply(n, m)
<1> DEFINE x == num[n]
           y == num[m]
           old == [k \in Names |-> Value(num[k])]
<1>1. Proper(x) /\ Proper(y) /\ Safe(x)
  BY DEF ProperObjects, Proper
<1>2. old[n] = Value(x) /\ old[m] = Value(y)
  OBVIOUS
<1>3. CASE DoAssign(n, m)
  <2> DEFINE z == IF m = n THEN x ELSE Assign(x, y)
  <2>1. Proper(z) /\ Value(z) = Value(y)
    BY <1>1, AssignExact
  <2>2. Set(n, z) /\ call' = <<"=", n, m>>
    BY <1>3 DEF DoAssign
  <2> HIDE DEF z
  <2>3. ProperObjects' /\ Integers!Set(n, Value(z))
    BY <2>1, <2>2, SetExact
  <2>4. Integers!Assign(n, m)
    BY <1>2, <2>1, <2>2, <2>3 DEF Integers!Assign
  <2>5. QED
    BY <2>3, <2>4
<1>4. CASE DoAdd(n, m)
  <2>1. Proper(AddEq(x, y)) /\ Value(AddEq(x, y)) = Value(x) + Value(y)
    BY <1>1, AddExact
  <2>2. Set(n, AddEq(x, y)) /\ call' = <<"+=", n, m>>
    BY <1>4 DEF DoAdd
  <2>3. ProperObjects' /\ Integers!Set(n, Value(AddEq(x, y)))
    BY <2>1, <2>2, SetExact
  <2>4. Integers!Add(n, m)
    BY <1>2, <2>1, <2>2, <2>3 DEF Integers!Add
  <2>5. QED
    BY <2>3, <2>4
<1>5. CASE DoSubtract(n, m)
  <2>1. Proper(SubEq(x, y)) /\ Value(SubEq(x, y)) = Value(x) - Value(y)
    BY <1>1, SubtractExact
  <2>2. Set(n, SubEq(x, y)) /\ call' = <<"-=", n, m>>
    BY <1>5 DEF DoSubtract
  <2>3. ProperObjects' /\ Integers!Set(n, Value(SubEq(x, y)))
    BY <2>1, <2>2, SetExact
  <2>4. Integers!Subtract(n, m)
    BY <1>2, <2>1, <2>2, <2>3 DEF Integers!Subtract
  <2>5. QED
    BY <2>3, <2>4
<1>6. CASE DoMultiply(n, m)
  <2>1. ~(x.neg # y.neg /\ (IsZero(x) \/ IsZero(y)))
    BY <1>6 DEF DoMultiply
  <2>2. Proper(Mul(x, y)) /\ Value(Mul(x, y)) = Value(x) * Value(y)
    BY <1>1, <2>1, MulExact
  <2>3. Set(n, Mul(x, y)) /\ call' = <<"*=", n, m>>
    BY <1>6 DEF DoMultiply
  <2>4. ProperObjects' /\ Integers!Set(n, Value(Mul(x, y)))
    BY <2>2, <2>3, SetExact
  <2>5. Integers!Multiply(n, m)
    BY <1>2, <2>2, <2>3, <2>4 DEF Integers!Multiply
  <2>6. QED
    BY <2>4, <2>5
<1>7. CASE DoCopy(n, m)
  <2>1. Set(n, y) /\ call' = <<"copy", n, m>>
    BY <1>7 DEF DoCopy
  <2>2. ProperObjects' /\ Integers!Set(n, Value(y))
    BY <1>1, <2>1, SetExact
  <2>3. Integers!Copy(n, m)
    BY <1>2, <2>1, <2>2 DEF Integers!Copy
  <2>4. QED
    BY <2>2, <2>3
<1>8. QED
  BY <1>3, <1>4, <1>5, <1>6, <1>7

(* The two specifications read a buffer alike. *)
LEMMA SameBytes ==
  ASSUME NEW bytes
  PROVE  Integers!BytesValue(bytes) = BytesNumber(bytes)
BY DEF Integers!BytesValue, BytesNumber, Integers!Pow2, Pow2

(* The calls with a digit. *)
LEMMA DigitCallsExact ==
  ASSUME ProperObjects, NEW n \in Names, NEW d \in 0 .. WordRadix - 1,
         DoAssignDigit(n, d) \/ (d \in Digit /\ DoMultiplyDigit(n, d))
  PROVE  /\ ProperObjects'
         /\ Integers!AssignDigit(n, d) \/ Integers!MultiplyDigit(n, d)
<1> DEFINE x == num[n]
           old == [m \in Names |-> Value(num[m])]
<1>1. Proper(x) /\ Safe(x) /\ d \in Nat
  BY RadixPositive DEF ProperObjects, Proper, WordRadix
<1>2. old[n] = Value(x)
  OBVIOUS
<1>3. CASE DoAssignDigit(n, d)
  <2>1. /\ Proper(AssignDigit(x, d))
        /\ Value(AssignDigit(x, d)) = d % Pow2[DigitBits]
    BY <1>1, AssignDigitExact DEF DigitRadix
  <2>2. Set(n, AssignDigit(x, d)) /\ call' = <<"=digit", n, d>>
    BY <1>3 DEF DoAssignDigit
  <2>3. ProperObjects' /\ Integers!Set(n, Value(AssignDigit(x, d)))
    BY <2>1, <2>2, SetExact
  <2>4. Integers!AssignDigit(n, d)
    BY <2>1, <2>2, <2>3, SamePowers DEF Integers!AssignDigit
  <2>5. QED
    BY <2>3, <2>4
<1>4. CASE d \in Digit /\ DoMultiplyDigit(n, d)
  <2>1. Proper(MulDigit(x, d)) /\ Value(MulDigit(x, d)) = Value(x) * d
    BY <1>1, <1>4, MulDigitExact
  <2>2. Set(n, MulDigit(x, d)) /\ call' = <<"*=digit", n, d>>
    BY <1>4 DEF DoMultiplyDigit
  <2>3. ProperObjects' /\ Integers!Set(n, Value(MulDigit(x, d)))
    BY <2>1, <2>2, SetExact
  <2>4. Integers!MultiplyDigit(n, d)
    BY <1>2, <2>1, <2>2, <2>3 DEF Integers!MultiplyDigit
  <2>5. QED
    BY <2>3, <2>4
<1>5. QED
  BY <1>3, <1>4

(* loadBytes into an object. *)
LEMMA LoadCallExact ==
  ASSUME ProperObjects, NEW n \in Names, NEW bytes \in Buffers,
         NEW preZero \in BOOLEAN, DoLoad(n, bytes, preZero), Corners = {}
  PROVE  ProperObjects' /\ Integers!Load(n, bytes, preZero)
<1> DEFINE x == num[n]
           old == [m \in Names |-> Value(num[m])]
           e == Pow2[ByteBits * Len(bytes)]
           b == BytesNumber(bytes)
           start == IF preZero THEN 0 ELSE Value(x)
<1>1. Proper(x) /\ bytes \in Seq(Byte)
  BY BuffersAssumption DEF ProperObjects
<1>2. old[n] = Value(x)
  OBVIOUS
<1>3. PICK z \in LoadBytes(x, bytes, preZero) : z.used <= z.size /\ Set(n, z)
  BY DEF DoLoad, UsedInVector
<1>4. /\ Proper(z)
      /\ preZero => Value(z) = b
      /\ ~preZero => Value(z) = Signed(x, Magnitude(x) * e + b)
  BY <1>1, <1>3, LoadBytesExact
<1>5. ProperObjects' /\ Integers!Set(n, Value(z))
  BY <1>3, <1>4, SetExact
<1>6. e \in Nat /\ b \in Nat /\ Magnitude(x) \in Nat
  <2>1. PICK v : b = v[Len(bytes)] /\ \A i \in 0 .. Len(bytes) : v[i] \in Nat
    BY <1>1, BytesNumberUnfold
  <2>2. Len(bytes) \in Nat /\ Len(bytes) \in 0 .. Len(bytes)
    BY <1>1
  <2>3. ByteBits * Len(bytes) \in Nat
    BY <2>2, ByteBitsAssumption, DigitBitsAssumption
  <2>4. QED
    BY <1>1, <2>1, <2>2, <2>3, Pow2Unfold, ProperValue
<1> HIDE DEF e, b
<1>7. Value(z) = Integers!Sign(start) * (Integers!Magnitude(start) * e + b)
  <2>1. CASE preZero
    <3>1. start = 0 /\ Value(z) = b
      BY <1>4, <2>1
    <3>2. Integers!Sign(0) = 1
      BY DEF Integers!Sign
    <3>3. Integers!Magnitude(0) = 0
      <4>1. 1 * 0 = 0
        OBVIOUS
      <4>2. QED
        BY <3>2, <4>1, Zenon DEF Integers!Magnitude
    <3>4. 1 * (0 * e + b) = b
      BY <1>6
    <3>5. QED
      BY <3>1, <3>2, <3>3, <3>4
  <2>2. CASE ~preZero
    <3>1. start = Value(x) /\ Value(z) = Signed(x, Magnitude(x) * e + b)
      BY <1>4, <2>2
    <3>2. Magnitude(x) * e + b \in Nat
      <4>1. PICK f \in Nat, g \in Nat, h \in Nat :
              Magnitude(x) = f /\ e = g /\ b = h
        BY <1>6
      <4>2. f * g + h \in Nat
        OBVIOUS
      <4>3. QED
        BY <4>1, <4>2
    <3>3. /\ Integers!Magnitude(Value(x)) = Magnitude(x)
          /\ Integers!Sign(Value(x)) * (Magnitude(x) * e + b)
               = Signed(x, Magnitude(x) * e + b)
      BY <1>1, <3>2, IntegerForms
    <3>4. QED
      BY <3>1, <3>3, Zenon
  <2>3. QED
    BY <2>1, <2>2
<1>8. /\ Integers!BytesValue(bytes) = b
      /\ Integers!Pow2[ByteBits * Len(bytes)] = e
  BY SameBytes, SamePowers DEF b, e
<1>9. call' = <<"loadBytes", n, bytes, preZero>>
  BY DEF DoLoad
<1>10. Integers!Load(n, bytes, preZero)
  BY <1>2, <1>5, <1>7, <1>8, <1>9 DEF Integers!Load
<1>11. QED
  BY <1>5, <1>10

(* Construction from bytes. *)
LEMMA ConstructCallExact ==
  ASSUME ProperObjects, NEW n \in Names, NEW bytes \in Buffers,
         DoConstruct(n, bytes)
  PROVE  ProperObjects' /\ Integers!Construct(n, bytes)
<1>1. /\ Safe(BigNumDefault) /\ BigNumDefault.size >= 3
      /\ bytes \in Seq(Byte)
  BY BuffersAssumption, BaseCapacityAssumption, NewSafe, NewRoomy
  DEF BigNumDefault
<1>2. PICK z \in LoadBytes(BigNumDefault, bytes, TRUE) : Set(n, z)
  BY DEF DoConstruct
<1>3. Proper(z) /\ Value(z) = BytesNumber(bytes)
  BY <1>1, <1>2, LoadClearedExact
<1>4. ProperObjects' /\ Integers!Set(n, Value(z))
  BY <1>2, <1>3, SetExact
<1>5. call' = <<"BigNum", n, bytes>>
  BY DEF DoConstruct
<1>6. Integers!Construct(n, bytes)
  BY <1>3, <1>4, <1>5, SameBytes DEF Integers!Construct
<1>7. QED
  BY <1>4, <1>6

(* Every call is an operation on the integers. *)
LEMMA NextExact ==
  ASSUME ProperObjects, Corners = {}, Next
  PROVE  ProperObjects' /\ Integers!Next
<1> DEFINE Arguments == Counts \cup 0 .. WordRadix - 1
<1>1. PICK n \in Names :
        \/ DoAbs(n) \/ DoNegate(n) \/ DoZero(n) \/ DoClamp(n)
        \/ DoMultiplyByTwo(n) \/ DoDivideByTwo(n)
        \/ \E k \in Counts : \/ DoGrow(n, k) \/ DoMod2b(n, k)
                             \/ DoLeftDigitShift(n, k) \/ DoRightDigitShift(n, k)
                             \/ DoShiftLeft(n, k) \/ DoShiftRight(n, k)
        \/ \E m \in Names : \/ DoAssign(n, m) \/ DoAdd(n, m)
                            \/ DoSubtract(n, m) \/ DoMultiply(n, m) \/ DoCopy(n, m)
        \/ \E d \in 0 .. WordRadix - 1 : DoAssignDigit(n, d)
        \/ \E d \in Digit : DoMultiplyDigit(n, d)
        \/ \E bytes \in Buffers, preZero \in BOOLEAN : DoLoad(n, bytes, preZero)
        \/ \E bytes \in Buffers : DoConstruct(n, bytes)
  BY DEF Next
<1>2. CASE \/ DoAbs(n) \/ DoNegate(n) \/ DoZero(n) \/ DoClamp(n)
           \/ DoMultiplyByTwo(n) \/ DoDivideByTwo(n)
  BY <1>2, PlainCallsExact DEF Integers!Next
<1>3. ASSUME NEW k \in Counts,
             \/ DoGrow(n, k) \/ DoMod2b(n, k)
             \/ DoLeftDigitShift(n, k) \/ DoRightDigitShift(n, k)
             \/ DoShiftLeft(n, k) \/ DoShiftRight(n, k)
      PROVE  ProperObjects' /\ Integers!Next
  <2>1. k \in Arguments
    OBVIOUS
  <2>2. QED
    BY <1>3, <2>1, CountCallsExact DEF Integers!Next
<1>4. ASSUME NEW m \in Names,
             \/ DoAssign(n, m) \/ DoAdd(n, m)
             \/ DoSubtract(n, m) \/ DoMultiply(n, m) \/ DoCopy(n, m)
      PROVE  ProperObjects' /\ Integers!Next
  BY <1>4, BinaryCallsExact DEF Integers!Next
<1>5. ASSUME NEW d \in 0 .. WordRadix - 1,
             DoAssignDigit(n, d) \/ (d \in Digit /\ DoMultiplyDigit(n, d))
      PROVE  ProperObjects' /\ Integers!Next
  <2>1. d \in Arguments
    OBVIOUS
  <2>2. QED
    BY <1>5, <2>1, DigitCallsExact DEF Integers!Next
<1>6. Digit \subseteq 0 .. WordRadix - 1
  BY RadixPositive DEF Digit, WordRadix
<1>7. ASSUME NEW bytes \in Buffers, NEW preZero \in BOOLEAN,
             DoLoad(n, bytes, preZero)
      PROVE  ProperObjects' /\ Integers!Next
  BY <1>7, LoadCallExact DEF Integers!Next
<1>8. ASSUME NEW bytes \in Buffers, DoConstruct(n, bytes)
      PROVE  ProperObjects' /\ Integers!Next
  BY <1>8, ConstructCallExact DEF Integers!Next
<1>9. QED
  BY <1>1, <1>2, <1>3, <1>4, <1>5, <1>6, <1>7, <1>8

(* Proper objects, always, when no corner call is made. *)
LEMMA AlwaysProper ==
  ASSUME Corners = {}
  PROVE  Spec => []ProperObjects
<1>1. ProperObjects /\ [Next]_vars => ProperObjects'
  <2>1. ProperObjects /\ UNCHANGED vars => ProperObjects'
    BY DEF ProperObjects, vars
  <2>2. QED
    BY <2>1, NextExact
<1>2. QED
  BY <1>1, InitExact, PTL DEF Spec

(***************************************************************************)
(* Each integer has one form between calls: the leading digit in use is    *)
(* not zero, a zero is not negative, and the words above are clear, however *)
(* long the sequence of calls, provided none is a corner call.             *)
(***************************************************************************)
THEOREM AlwaysCanonical ==
  ASSUME Corners = {}
  PROVE  Spec => []Canonical
<1>1. ProperObjects => Canonical
  BY DEF ProperObjects, Canonical, Proper, Safe
<1>2. QED
  BY <1>1, AlwaysProper, PTL

(***************************************************************************)
(* compare, which never computes a value, orders the objects of every      *)
(* reachable state as the integers they stand for.                         *)
(***************************************************************************)
THEOREM CompareAlwaysExact ==
  ASSUME Corners = {}
  PROVE  Spec => []CompareExact
<1>1. ProperObjects => CompareExact
  BY CompareIsOrder DEF ProperObjects, CompareExact
<1>2. QED
  BY <1>1, AlwaysProper, PTL

(***************************************************************************)
(* nextBit returns numberBits() bits, a one first, and they spell the      *)
(* magnitude: the mask moves from digit to digit without losing a bit,     *)
(* below a full leading digit and through zero digits too.                 *)
(***************************************************************************)
THEOREM BitsAlwaysExact ==
  ASSUME Corners = {}
  PROVE  Spec => []BitsExact
<1>1. ASSUME NEW x, Proper(x)
      PROVE  /\ Len(BitsOf(x)) = NumberBits(x)
             /\ BitsOf(x) # <<>> => BitsOf(x)[1] = 1
             /\ BitsNumber(BitsOf(x)) = Magnitude(x)
  <2> DEFINE bits == BitsOf(x)
             M == Magnitude(x)
             N == NumberBits(x)
  <2>1. bits = [k \in 1 .. N |-> (M \div Pow2[N - k]) % 2]
    BY <1>1, BitsOfExact
  <2>2. N \in Nat /\ M \in Nat /\ M < Pow2[N] /\ (N > 0 => Pow2[N - 1] <= M)
    BY <1>1, NumberBitsExact, ProperValue
  <2> HIDE DEF bits, M, N
  <2>3. \A k \in 1 .. N : bits[k] = (M \div Pow2[N - k]) % 2
    BY <2>1
  <2>4. \A k \in 1 .. N : bits[k] \in Int
    <3>1. TAKE k \in 1 .. N
    <3>2. PICK j \in Nat : j = N - k
      BY <2>2
    <3>3. PICK P \in Nat \ {0} : Pow2[j] = P
      BY Pow2Unfold
    <3>4. PICK d \in Nat : d = M \div P
      BY <2>2, NatQuotient
    <3>5. d % 2 \in Int
      OBVIOUS
    <3>6. QED
      BY <2>3, <3>2, <3>3, <3>4, <3>5
  <2>5. bits \in Seq(Int) /\ Len(bits) = N
    BY <2>1, <2>2, <2>4
  <2>6. BitsNumber(bits) = M
    BY <2>2, <2>3, <2>5, BitsSpell
  <2>7. ASSUME bits # <<>> PROVE bits[1] = 1
    <3>1. N # 0
      BY <2>5, <2>7
    <3>2. PICK j \in Nat : j = N - 1 /\ N = j + 1
      BY <2>2, <3>1
    <3>3. PICK P \in Nat \ {0} : Pow2[j] = P /\ Pow2[j + 1] = 2 * P
      BY Pow2Unfold
    <3>4. P <= M /\ M < 2 * P
      BY <2>2, <3>1, <3>2, <3>3
    <3>5. M \div P = 1
      <4>1. M = P * 1 + (M - P) /\ 0 <= M - P /\ M - P < P /\ M - P \in Int /\ M \in Int
        BY <2>2, <3>4
      <4>2. 1 \in Int
        OBVIOUS
      <4>3. QED
        BY <4>1, <4>2, DivModUnique
    <3>6. bits[1] = (M \div Pow2[N - 1]) % 2
      <4>1. 1 \in 1 .. N
        BY <2>2, <3>1
      <4>2. QED
        BY <2>3, <4>1
    <3>7. 1 % 2 = 1
      OBVIOUS
    <3>8. QED
      BY <3>2, <3>3, <3>5, <3>6, <3>7
  <2>8. QED
    BY <2>5, <2>6, <2>7 DEF bits, M, N
<1>2. ProperObjects => BitsExact
  <2>1. ASSUME NEW x, Proper(x)
        PROVE  LET bits == BitsOf(x)
                   v[i \in 0 .. Len(bits)] ==
                     IF i = 0 THEN 0 ELSE 2 * v[i - 1] + bits[i]
               IN  /\ Len(bits) = NumberBits(x)
                   /\ bits # <<>> => bits[1] = 1
                   /\ v[Len(bits)] = Magnitude(x)
    BY <1>1, <2>1, Zenon DEF BitsNumber
  <2>2. QED
    BY <2>1, Zenon DEF ProperObjects, BitsExact
<1>3. QED
  BY <1>2, AlwaysProper, PTL

(***************************************************************************)
(* The carry chains, shifts, digit products and byte loads of BigNum.cpp   *)
(* implement the integer operations that BigNum.h promises, at every width *)
(* of a digit and whatever the capacities and the aliasing of operands.    *)
(***************************************************************************)
THEOREM Implementation ==
  ASSUME Corners = {}
  PROVE  Spec => ImplementsIntegers
<1>1. Init => Integers!Init
  BY InitExact
<1>2. ProperObjects /\ [Next]_vars => [Integers!Next]_Integers!vars
  <2>1. UNCHANGED vars => UNCHANGED Integers!vars
    BY DEF vars, Integers!vars
  <2>2. QED
    BY <2>1, NextExact
<1>3. QED
  BY <1>1, <1>2, AlwaysProper, PTL DEF Spec, ImplementsIntegers, Integers!Spec

-----------------------------------------------------------------------------
(***************************************************************************)
(* storeBytes and loadBytes.  A load of bytes is exact, and never reads a  *)
(* word that nobody has written, in a vector with room for a digit more    *)
(* than the bytes need; grow sees to it, and that every vector ever made   *)
(* has room for three words is what its rounding up is needed for.         *)
(***************************************************************************)
RoomyObjects == ProperObjects /\ \A n \in Names : num[n].size >= 3

(* Every call leaves every vector three words, the calls that take over a *)
(* new one, too.                                                          *)
LEMMA NextRoomy ==
  ASSUME RoomyObjects, Corners = {}, Next
  PROVE  RoomyObjects'
<1>1. ProperObjects'
  BY NextExact DEF RoomyObjects
<1>2. SafeObjects
  BY DEF RoomyObjects, ProperObjects, SafeObjects, Proper
<1>3. SafeObjects'
  BY <1>2, NextSafe
<1>4. QED
  BY <1>1, <1>3 DEF RoomyObjects, SafeObjects

(* Roomy objects, always, when no corner call is made. *)
LEMMA AlwaysRoomy ==
  ASSUME Corners = {}
  PROVE  Spec => []RoomyObjects
<1>1. Init => RoomyObjects
  <2>1. New(Capacity).size >= 3
    BY CapacityAssumption, NewRoomy
  <2>2. QED
    BY <2>1, InitExact DEF Init, RoomyObjects
<1>2. RoomyObjects /\ [Next]_vars => RoomyObjects'
  <2>1. RoomyObjects /\ UNCHANGED vars => RoomyObjects'
    BY DEF RoomyObjects, ProperObjects, vars
  <2>2. QED
    BY <2>1, NextRoomy
<1>3. QED
  BY <1>1, <1>2, PTL DEF Spec

(* What is stored of one object and loaded again, as StoreLoadExact has it. *)
StoredAgain(x, count, group) ==
  LET bytes == Swizzled(StoreBytes(x, count), group)
      again == CHOOSE z \in LoadBytes(x, Swizzled(bytes, group), TRUE) : TRUE
  IN  /\ Magnitude(again) = Magnitude(x) % Pow2[count * ByteBits]
      /\ bytes[count - group + 1] = Magnitude(x) % Pow2[ByteBits]
      /\ bytes \in Seq(Byte)

(* So it is of every object in the form the calls leave.                    *)
LEMMA StoredAndLoaded ==
  ASSUME NEW x, Proper(x), x.size >= 3, NEW count \in Nat \ {0}, NEW group \in {1, 2},
         count % group = 0
  PROVE  StoredAgain(x, count, group)
<1> DEFINE stored == StoreBytes(x, count)
           bytes == Swizzled(stored, group)
<1>1. stored \in Seq(Byte) /\ Len(stored) = count
  BY StoreBytesExact
<1>2. BytesNumber(stored) = Magnitude(x) % ByteWeight(count)
  BY StoredNumber
<1>9. stored[count] = Magnitude(x) % Pow2[ByteBits]
  <2>1. IsByteOf(stored[count], Magnitude(x), 0)
    <3>1. count \in 1 .. count /\ count - count = 0
      OBVIOUS
    <3>2. QED
      BY <3>1, StoreBytesExact
  <2>2. PICK M \in Nat : M = Magnitude(x)
    <3>1. Safe(x)
      BY DEF Proper
    <3>2. QED
      BY <3>1, MagnitudeIsSum
  <2>3. ByteWeight(0) = 1
    <3>1. ByteBits * 0 = 0
      BY ByteBitsAssumption, DigitBitsAssumption
    <3>2. QED
      BY <3>1, Pow2Unfold DEF ByteWeight
  <2>4. M \div 1 = M
    OBVIOUS
  <2>5. QED
    BY <2>1, <2>2, <2>3, <2>4 DEF IsByteOf, ByteRadix
<1> HIDE DEF stored
<1>3. bytes \in Seq(Byte) /\ Swizzled(bytes, group) = stored
  BY <1>1, SwizzledTwice
<1>10. bytes[count - group + 1] = stored[count]
  BY <1>1, SwizzledLast
<1> HIDE DEF bytes
<1>4. Safe(x)
  BY DEF Proper
<1>5. PICK z : /\ LoadBytes(x, stored, TRUE) = {z}
               /\ Magnitude(z) = BytesNumber(stored)
  BY <1>1, <1>4, LoadClearedExact
<1>6. (CHOOSE w \in LoadBytes(x, Swizzled(bytes, group), TRUE) : TRUE) = z
  BY <1>3, <1>5
<1>7. Pow2[count * ByteBits] = ByteWeight(count)
  <2>1. count * ByteBits = ByteBits * count
    BY ByteBitsAssumption, DigitBitsAssumption
  <2>2. QED
    BY <2>1 DEF ByteWeight
<1>8. QED
  BY <1>2, <1>3, <1>5, <1>6, <1>7, <1>9, <1>10 DEF StoredAgain, stored, bytes

(***************************************************************************)
(* storeBytes and loadBytes are inverse on every object a caller can       *)
(* reach: a buffer shorter than the number, as long, or a byte longer, in  *)
(* groups that are swizzled or not, holds the magnitude modulo its size,   *)
(* its lowest byte at the head of the last group, and numberBytes() bytes  *)
(* begin with a byte that is not zero.                                     *)
(***************************************************************************)
THEOREM StoreLoadAlwaysExact ==
  ASSUME Corners = {}
  PROVE  Spec => []StoreLoadExact
<1>1. ASSUME RoomyObjects PROVE StoreLoadExact
  <2>1. SUFFICES ASSUME NEW n \in Names
                 PROVE  LET enough == NumberBytes(num[n])
                            Reload(bytes) == CHOOSE x \in LoadBytes(num[n], bytes, TRUE) : TRUE
                        IN  /\ \A count \in 1 .. enough + 1, group \in {1, 2} :
                                 count % group = 0 =>
                                   LET bytes == Swizzled(StoreBytes(num[n], count), group)
                                   IN  /\ Magnitude(Reload(Swizzled(bytes, group)))
                                            = Magnitude(num[n]) % Pow2[count * ByteBits]
                                       /\ bytes[count - group + 1]
                                            = Magnitude(num[n]) % Pow2[ByteBits]
                                       /\ bytes \in Seq(Byte)
                            /\ enough > 0 => StoreBytes(num[n], enough)[1] # 0
    BY DEF StoreLoadExact
  <2>2. Proper(num[n]) /\ num[n].size >= 3
    BY <1>1 DEF RoomyObjects, ProperObjects
  <2>3. NumberBytes(num[n]) \in Nat
    BY <2>2, NumberBytesExact DEF IsByteCount
  <2>4. NumberBytes(num[n]) > 0 => StoreBytes(num[n], NumberBytes(num[n]))[1] # 0
    BY <2>2, <2>3, StoredNumber
  <2>5. ASSUME NEW count \in 1 .. NumberBytes(num[n]) + 1, NEW group \in {1, 2},
               count % group = 0
        PROVE  StoredAgain(num[n], count, group)
    <3>1. count \in Nat \ {0}
      BY <2>3
    <3>2. QED
      BY <2>2, <2>5, <3>1, StoredAndLoaded
  <2>6. QED
    BY <2>4, <2>5 DEF StoredAgain
<1>2. QED
  BY <1>1, AlwaysRoomy, PTL

=============================================================================
