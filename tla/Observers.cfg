CONSTANTS
  a = a
  b = b
  Names <- MCNames
  DigitBits = 3
  BaseCapacity = 1
  ByteBits = 2
  Capacity = 1
  Counts <- MCFewCounts
  Buffers <- MCFewBuffers
  MaxUsed <- MCShort
  Corners = {}
SPECIFICATION Spec
VIEW View
INVARIANTS CompareExact BitsExact StoreLoadExact
