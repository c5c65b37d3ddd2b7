------------------------------ MODULE MCMemPath ------------------------------
(* A register of four bytes of one bit each; a window of two words of       *)
(* which memory backs the first, between unmapped words on both sides.      *)
EXTENDS MemPath

MCImage == [Offset -> Byte]
MCStored == {[l \in Lane |-> IF l \in ones THEN 1 ELSE 0] :
               ones \in {{0}, {1, 2}, {0, 1, 3}}}
MCMarker == [l \in 0 .. Half - 1 |-> 1 - l]
=============================================================================
