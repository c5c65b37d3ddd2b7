CONSTANTS
  Irq = {1, 7}
  Pin = {7}
  PcCount = 2
SPECIFICATION Spec
INVARIANT TypeOK
INVARIANT NoSecondTrap
INVARIANT NoInstructionPastInterrupt
INVARIANT MprvOnlyInMachineMode
PROPERTY ReturnRestores
