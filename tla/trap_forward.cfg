CONSTANTS
  Modulus = 32
  Reg = {0, 1, 2}
  PcInit = 8
  CycleModulus = 1
  Program <- TrapPrograms
  Pins <- NoPins
  Conventions <- WithoutTrapForward
  BitOr <- MCBitOr
  BitClear <- MCBitClear
SPECIFICATION ConformingSpec
PROPERTY RefinesRvCore
CHECK_DEADLOCK FALSE
