CONSTANTS
  XLEN = 8
  HLEN = 4
  BitAnd <- MCBitAnd
  BitOr <- MCBitOr
  BitXor <- MCBitXor
SPECIFICATION Spec
INVARIANT SameRegister
