CONSTANTS
  a = a
  b = b
  Names <- MCNames
  DigitBits = 2
  BaseCapacity = 1
  ByteBits = 1
  Capacity = 1
  Counts <- MCFewCounts
  Buffers <- MCBits
  MaxUsed <- MCUneven
  Corners = {"MulZero", "ShiftZero", "Append"}
SPECIFICATION Spec
VIEW View
INVARIANT TypeOK
PROPERTY Contained
