CONSTANTS
  Radix = 2
  MemSize = 4
  Lanes = 4
  Base = 8
  Span = 8
  SramSpan = 20
  AddrLimit = 64
  Marker <- MCMarker
  Image <- MCImage
  Stored <- MCStored
SPECIFICATION Spec
INVARIANT TypeOK
INVARIANT MemoriesAgree
INVARIANT OutcomesAgree
