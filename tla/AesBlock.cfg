CONSTANTS
  ByteBits = 8
  Keys <- MCKeys
  Blocks <- MCBlocks
SPECIFICATION BlockSpec
INVARIANTS BlockTypeOK RoundKeysExact
PROPERTY ImplementsAes
