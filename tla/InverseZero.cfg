CONSTANTS
  DigitBits = 4
  BaseCapacity = 1
  ByteBits = 1
  Moduli <- MCZero
SPECIFICATION Spec
PROPERTY CallEnds
