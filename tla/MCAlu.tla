-------------------------------- MODULE MCAlu --------------------------------
EXTENDS Alu, Bitwise

MCBitAnd(a, b) == a & b
MCBitOr(a, b) == a | b
MCBitXor(a, b) == a ^^ b
=============================================================================
