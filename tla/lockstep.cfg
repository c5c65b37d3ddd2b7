CONSTANTS
  Modulus = 32
  Reg = {0, 1, 2}
  PcInit = 8
  CycleModulus = 1
  Program <- DataTrapCsrPrograms
  Pins <- NoPins
  Conventions <- AllConventions
  BitOr <- MCBitOr
  BitClear <- MCBitClear
SPECIFICATION ConformingSpec
INVARIANT OperandsArchitectural
INVARIANT InProgramOrder
PROPERTY RefinesRvCore
CHECK_DEADLOCK FALSE
