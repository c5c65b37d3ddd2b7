----------------------------- MODULE MCSystemBus -----------------------------
(* A word of one byte of two bits, so that registers are numbers below 16. *)
(* The requests overlap each other in every way: nested, crossing, equal    *)
(* start, equal end, adjacent, between two others.  The accesses overlap    *)
(* from the same start and from different ones; the one at 15 ends where    *)
(* the address space does.                                                  *)
EXTENDS SystemBus, Bitwise

MCBitAnd(a, b) == a & b
MCBitOr(a, b) == a | b
MCBitXor(a, b) == a ^^ b

MCRequests == {[lo |-> 0, hi |-> 8], [lo |-> 0, hi |-> 4], [lo |-> 4, hi |-> 6],
               [lo |-> 6, hi |-> 8], [lo |-> 3, hi |-> 6]}
MCAccesses == {[pa |-> 4, size |-> 1], [pa |-> 4, size |-> 2], [pa |-> 5, size |-> 1],
               [pa |-> 15, size |-> 1]}
=============================================================================
