-------------------------------- MODULE MCSv39 --------------------------------
(* Two address spaces over tables of two entries, eight pages.  Table 1 and *)
(* 2 are the roots; 3 and 4 hold the lower half of space 1, in pages of any *)
(* size; 5 holds the upper half of both, global.                            *)
EXTENDS Sv39

None == NoEntry.pte
To(table) == [None EXCEPT !.V = TRUE, !.ppn = table]
LeafAt(ppn) == [None EXCEPT !.V = TRUE, !.R = TRUE, !.A = TRUE, !.U = TRUE, !.ppn = ppn]
GlobalAt(ppn) == [LeafAt(ppn) EXCEPT !.G = TRUE, !.U = FALSE]
WriteOnly == [None EXCEPT !.V = TRUE, !.W = TRUE]

MCRoot == [a \in Asid |-> a]
MCTable == 1..5
MCBoot ==
  [t \in MCTable |-> [v \in Vpn |->
     CASE t \in {1, 2} /\ v = 1 -> To(5)
       [] t = 1 /\ v = 0 -> To(3)
       [] t = 3 /\ v = 0 -> To(4)
       [] t = 4 -> LeafAt(6 + v)
       [] t = 5 /\ v = 0 -> GlobalAt(2)
       [] OTHER -> None]]

Write(t, v, pte) == [table |-> t, vpn |-> v, pte |-> pte]
MCChanges == {
  Write(1, 0, To(3)), Write(1, 0, LeafAt(4)),
  Write(3, 0, To(4)), Write(3, 0, LeafAt(2)), Write(3, 0, LeafAt(3)),
  Write(4, 0, LeafAt(5)), Write(4, 1, WriteOnly),
  Write(2, 0, LeafAt(0)),
  Write(5, 0, GlobalAt(6))}
MCAccessed == {0, 1, 4}
=============================================================================
