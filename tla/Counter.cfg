CONSTANTS
  ByteBits = 1
  BlockBytes = 3
  MemoryBytes = 27
  Cipher <- MCCipher
  Layouts <- MCLayouts
  Messages <- MCMessages
  Counters <- MCCounters
SPECIFICATION Spec
INVARIANTS TypeOK CounterCounts OutputExact RoundTrip WritesWholeBlocks
