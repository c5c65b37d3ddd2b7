----------------------------- MODULE MCPrograms -----------------------------
(***************************************************************************)
(* Program families for TLC over five-bit words and three registers.  The  *)
(* trap vector at reset is 0, so slots 0 and 4 are the handler; execution  *)
(* starts at 8.                                                            *)
(***************************************************************************)
EXTENDS Isa

LOCAL INSTANCE Bitwise

MCBitOr(a, b)    == a | b
MCBitClear(a, b) == a - (a & b)

I(op, rd, rs1, rs2, imm) ==
  [op |-> op, rd |-> rd, rs1 |-> rs1, rs2 |-> rs2, imm |-> imm % 32, csr |-> "none",
   bits |-> 0]
C(op, rd, rs1, a) == [I(op, rd, rs1, 0, 0) EXCEPT !.csr = a, !.bits = 9]
Bad == [I("illegal", 0, 0, 0, 0) EXCEPT !.bits = 5]
Nop == I("addi", 0, 0, 0, 0)
GoTo(from, to) == I("jal", 0, 0, 0, to - from)
Mret == I("mret", 0, 0, 2, 0)

(* A program: a two-instruction handler, four free slots, and a loop back. *)
Layout(parts) ==
  {[s \in Slot |-> IF s < 24 THEN p[1 + s \div 4] ELSE IF s = 24 THEN GoTo(24, 8) ELSE Bad] :
     p \in parts}

(* Data and control hazards: every distance between producer and consumer. *)
DataMenu == {
  I("addi", 1, 1, 0, 8), I("addi", 2, 0, 0, 8), I("add", 2, 1, 2, 0),
  I("sub", 1, 2, 1, 0), I("ld", 1, 0, 0, 8), I("ld", 2, 1, 0, 0), I("sd", 0, 0, 1, 8),
  I("sd", 0, 1, 2, 0), I("beq", 0, 1, 2, 8), I("bne", 0, 1, 0, 8),
  I("jal", 1, 0, 0, 8), I("jalr", 2, 1, 0, 8)}
DataParts ==
  {Nop} \X {GoTo(4, 8)} \X DataMenu \X DataMenu \X DataMenu
    \X {GoTo(20, 8), I("add", 2, 1, 2, 0), I("sd", 0, 1, 2, 0)}

(* Exceptions of every stage, the handler reading the registers they name. *)
TrapMenu == {
  I("addi", 1, 1, 0, 13), I("addi", 2, 1, 0, 6), I("ld", 1, 0, 0, 4), I("sd", 0, 1, 2, 2),
  I("jal", 1, 0, 0, 6), I("jalr", 1, 2, 0, 4), I("beq", 0, 1, 1, 10), I("ecall", 0, 0, 0, 0),
  I("ebreak", 0, 0, 1, 0), Bad, C("csrrw", 1, 2, "mtvec"), C("csrrs", 1, 0, "none")}
TrapParts ==
  {I("add", 2, 1, 1, 0), C("csrrw", 1, 2, "mepc"), I("sd", 0, 0, 1, 8)}
    \X {Mret, GoTo(4, 16)} \X TrapMenu \X TrapMenu \X TrapMenu
    \X {C("csrrs", 2, 0, "mtval")}
TrapPrograms == Layout(TrapParts)

(* CSR accesses in both modes: mret before anything set MPP enters U mode. *)
CsrMenu == {
  I("addi", 1, 1, 0, 21), C("csrrw", 2, 1, "mstatus"), C("csrrs", 1, 1, "mstatus"),
  C("csrrci", 2, 2, "mstatus"), C("csrrs", 2, 1, "mhartid"),
  C("csrrci", 0, 1, "mhartid"), C("csrrs", 1, 0, "cycle"), C("csrrsi", 2, 2, "mie"),
  C("csrrw", 0, 1, "mie"), C("csrrw", 1, 1, "mip"), C("csrrw", 2, 1, "misa"),
  C("csrrs", 1, 0, "satp"), C("csrrw", 2, 1, "mcounteren"), C("csrrs", 1, 0, "mcause"),
  Mret, I("ecall", 0, 0, 0, 0)}
CsrParts ==
  {Nop, C("csrrw", 1, 2, "mscratch")} \X {Mret, GoTo(4, 12)}
    \X CsrMenu \X CsrMenu \X CsrMenu \X {Mret}
CsrPrograms == Layout(CsrParts)

DataTrapCsrPrograms == Layout(DataParts \cup TrapParts \cup CsrParts)

(* Privilege: mret and every way to be trapped, in both modes. *)
ModeMenu == {
  I("addi", 1, 1, 0, 21), C("csrrw", 2, 1, "mstatus"), C("csrrw", 1, 1, "mepc"), Mret,
  I("ecall", 0, 0, 0, 0), Bad, I("ld", 1, 0, 0, 4), C("csrrs", 2, 0, "mstatus")}
ModePrograms ==
  Layout({Nop, C("csrrs", 1, 0, "mcause")} \X {Mret, GoTo(4, 12)}
           \X ModeMenu \X ModeMenu \X ModeMenu \X {Mret})

(* Interrupts: enabling and masking them around loads, stores and jumps,   *)
(* the handler returning, or reading what the interrupted code wrote.      *)
IntMenu == {
  C("csrrsi", 0, 1, "mstatus"), C("csrrci", 0, 1, "mstatus"), I("addi", 1, 1, 0, 1),
  I("sd", 0, 0, 1, 8), I("ld", 1, 0, 0, 8), I("add", 2, 1, 1, 0), I("beq", 0, 1, 2, 24)}
IntPrograms ==
  {[s \in Slot |-> CASE s = 0 -> h [] s = 4 -> Mret [] s = 8 -> I("addi", 2, 0, 0, 7)
                     [] s = 12 -> C("csrrw", 0, 2, "mie") [] s = 16 -> a [] s = 20 -> b
                     [] s = 24 -> c [] s = 28 -> GoTo(28, 16)] :
     h \in {Nop, C("csrrw", 0, 0, "mie")}, a \in IntMenu, b \in IntMenu, c \in IntMenu}
=============================================================================
