CONSTANTS
  DigitBits = 3
  BaseCapacity = 1
  ByteBits = 2
  Keys <- MCKeys
  Messages <- MCMessages
  CipherSizes <- MCCipherSizes
  PlainSizes <- MCPlainSizes
SPECIFICATION Spec
INVARIANTS TypeOK CipherExact PlainExact
PROPERTIES WritesStayInBuffers FittingMessageReturns
