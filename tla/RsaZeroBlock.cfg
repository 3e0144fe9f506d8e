CONSTANTS
  DigitBits = 3
  BaseCapacity = 1
  ByteBits = 2
  Keys <- MCKey
  Messages <- MCZeros
  CipherSizes <- MCCipherSize
  PlainSizes <- MCPlainSize
SPECIFICATION Spec
PROPERTY DecryptEnds
