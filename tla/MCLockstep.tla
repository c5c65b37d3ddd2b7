----------------------------- MODULE MCLockstep -----------------------------
(* Lockstep over the program families, as sim_mycpu drives it: no pin ever *)
(* rises.                                                                  *)
EXTENDS Lockstep, MCPrograms

NoPins == {{}}
AllConventions == Convention

(* Programs free to do the thing RTL and reference disagree on.             *)
WithoutTrapForward == Convention \ {"trap_forward"}
=============================================================================
