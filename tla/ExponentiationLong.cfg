CONSTANTS
  DigitBits = 2
  BaseCapacity = 1
  ByteBits = 1
  Bases <- MCLongBases
  Exponents <- MCLongExponents
  Moduli <- MCLongModuli
SPECIFICATION Spec
INVARIANT ResultExact
