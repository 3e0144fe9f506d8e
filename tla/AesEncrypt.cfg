CONSTANTS
  ByteBits = 8
  Key <- TestKey
  FirstCounter <- TestCounter
  Used <- MCUsed
  Message <- PlainText
  MemoryBytes = 96
  Layouts <- MCLayouts
SPECIFICATION Spec
INVARIANT KnownTexts
