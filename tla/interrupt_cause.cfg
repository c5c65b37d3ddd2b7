CONSTANTS
  Modulus = 32
  Reg = {0, 1, 2}
  PcInit = 8
  CycleModulus = 1
  Program <- IntPrograms
  Pins <- SoftPin
  BitOr <- MCBitOr
  BitClear <- MCBitClear
SPECIFICATION Spec
INVARIANT CauseNamesItsPin
