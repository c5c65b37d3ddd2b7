CONSTANTS
  Radix = 4
  MemSize = 2
  AddrLimit = 16
  Hart = {1, 2}
  WordBytes = 1
  Requests <- MCRequests
  Accesses <- MCAccesses
  Operands = {7, 14}
  BitAnd <- MCBitAnd
  BitOr <- MCBitOr
  BitXor <- MCBitXor
SPECIFICATION Spec
INVARIANT TypeOK
INVARIANT DevicesDisjoint
INVARIANT DecodeExact
INVARIANT NoLostUpdate
INVARIANT AmoExact
