CONSTANTS
  DigitBits = 3
  BaseCapacity = 1
  ByteBits = 1
  Dividends <- MCFewDividends
  Divisors <- MCFewDivisors
  Operators = {"/="}
SPECIFICATION Spec
INVARIANT DivisorNormalised
