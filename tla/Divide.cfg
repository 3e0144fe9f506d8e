CONSTANTS
  DigitBits = 4
  BaseCapacity = 1
  ByteBits = 1
  Dividends <- MCDividends
  Divisors <- MCDivisors
  Operators = {"/=", "mod"}
SPECIFICATION Spec
INVARIANTS TypeOK LoopIdentity RemainderBelowDivisor EstimateAtMostOneTooLarge DivideExactUnlessZeroDigit
PROPERTIES ModReduces Returns
