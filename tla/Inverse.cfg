CONSTANTS
  DigitBits = 4
  BaseCapacity = 1
  ByteBits = 1
  Moduli <- MCModuli
SPECIFICATION Spec
INVARIANTS TypeOK Bezout VReachesOneFirst InverseExact
PROPERTIES NonzeroReturns
