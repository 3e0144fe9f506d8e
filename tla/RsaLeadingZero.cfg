CONSTANTS
  DigitBits = 3
  BaseCapacity = 1
  ByteBits = 2
  Keys <- MCKey
  Messages <- MCLeadingZeros
  CipherSizes <- MCCipherSize
  PlainSizes <- MCPlainSize
SPECIFICATION Spec
INVARIANT RoundTrip
