CONSTANTS
  a = a
  b = b
  Names <- MCNames
  DigitBits = 2
  BaseCapacity = 1
  ByteBits = 1
  Capacity = 1
  Counts <- MCCounts
  Buffers <- MCBuffers
  MaxUsed <- MCShort
  Corners = {"ShiftZero"}
SPECIFICATION Spec
VIEW View
INVARIANT SubtrahendNotLarger
