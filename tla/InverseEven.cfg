CONSTANTS
  DigitBits = 4
  BaseCapacity = 1
  ByteBits = 1
  Moduli <- MCEvenModuli
SPECIFICATION Spec
INVARIANT OnlyCoprimeReturns
