CONSTANTS
  DigitBits = 3
  BaseCapacity = 1
  ByteBits = 1
  Bases <- MCBases
  Exponents <- MCExponents
  Moduli <- MCModuli
SPECIFICATION Spec
INVARIANTS TypeOK LoopCongruence ProductsReduced ResultExact
PROPERTIES ImplementsSquareAndMultiply Returns
