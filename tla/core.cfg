CONSTANTS
  Modulus = 32
  Reg = {0, 1, 2}
  PcInit = 8
  CycleModulus = 1
  Program <- ModeIntPrograms
  Pins <- TimerPin
  BitOr <- MCBitOr
  BitClear <- MCBitClear
SPECIFICATION Spec
INVARIANT TypeOK
INVARIANT UserStaysUser
INVARIANT CommitWithinThree
INVARIANT StaleOnlyBehindCsrWrite
PROPERTY OnlyTrapsRaisePrivilege
PROPERTY AlwaysCommits
PROPERTY RequestHonoured
