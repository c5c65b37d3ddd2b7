CONSTANTS
  Reg = {0, 1}
  Word = {0, 1}
  A0 = 1
  RstTicks = 2
  CommitTimeout = 8
  RiscvDelay = 4
  TraceDelay = 2
  DumpAt = 2
  CycleLimit = 3
SPECIFICATION Spec
INVARIANT TypeOK
INVARIANT DivergenceIsUnseen
INVARIANT BlindAtMostTwo
INVARIANT DelayNotOvershot
INVARIANT StuckMeansSilent
PROPERTY RvTestTerminates
CHECK_DEADLOCK FALSE
