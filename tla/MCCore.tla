------------------------------- MODULE MCCore -------------------------------
(* The pipeline alone, with interrupts, over the program families. *)
EXTENDS Core, MCPrograms

ModeIntPrograms == ModePrograms \cup IntPrograms

TimerPin  == {{}, {"mti"}}
SoftPin   == {{}, {"msi"}}
=============================================================================
