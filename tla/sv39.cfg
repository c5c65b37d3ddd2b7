CONSTANTS
  Vpns = 2
  NrTlbEntry = 2
  Asid = {1, 2}
  Root <- MCRoot
  Table <- MCTable
  Boot <- MCBoot
  Changes <- MCChanges
  Accessed <- MCAccessed
SPECIFICATION Spec
INVARIANT TypeOK
INVARIANT HitsAgreeWithTables
INVARIANT AtMostOneMatch
CHECK_DEADLOCK FALSE
