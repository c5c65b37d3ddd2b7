-------------------------------- MODULE Isa --------------------------------
(***************************************************************************)
(* The architectural vocabulary shared by the RTL pipeline and by the      *)
(* reference core: machine words, instructions with their operand fields,  *)
(* CSR addresses, cause numbers and privilege modes.                       *)
(*                                                                         *)
(* A machine word is a number modulo Modulus (2^64 in the code).  An       *)
(* instruction is the record of the fields its encoding carries; the five  *)
(* mstatus fields the code writes and the three machine interrupt bits are *)
(* packed into the low bits of a word, so that small words can hold them.  *)
(***************************************************************************)
EXTENDS Integers

CONSTANTS
  Modulus,        \* machine words are 0 .. Modulus - 1
  Reg,            \* register numbers, x0 included
  PcInit,         \* address of the first instruction (Const.scala PC_INIT)
  Program,        \* the instruction memories under consideration
  BitOr(_, _),    \* bitwise a | b on words
  BitClear(_, _)  \* bitwise a & ~b on words

Value == 0 .. Modulus - 1
Slot  == {a \in Value : a % 4 = 0}
Cell  == {a \in Value : a % 8 = 0}

Plus(a, b)  == (a + b) % Modulus
Minus(a, b) == (a - b) % Modulus
Times(a, b) == (a * b) % Modulus
AlignDown(a, n) == a - (a % n)
Signed(a)   == IF 2 * a >= Modulus THEN a - Modulus ELSE a

-----------------------------------------------------------------------------
(* Operations, by the format RVI.scala gives them. *)

TypeR == {"add", "sub", "mul"}
CsrWriteOp == {"csrrw", "csrrwi"}
CsrSetOp   == {"csrrs", "csrrsi"}
CsrClearOp == {"csrrc", "csrrci"}
CsrImmOp   == {"csrrwi", "csrrsi", "csrrci"}
CsrOp == CsrWriteOp \cup CsrSetOp \cup CsrClearOp
TypeI == {"addi", "ld", "jalr"} \cup CsrOp
TypeU == {"lui", "auipc"}
TypeJ == {"jal"}
TypeS == {"sd", "ecall", "ebreak", "mret", "fence"}
TypeB == {"beq", "bne", "blt", "bge", "bltu", "bgeu"}
TypeN == {"illegal"}
Op == TypeR \cup TypeI \cup TypeU \cup TypeJ \cup TypeS \cup TypeB \cup TypeN

(* The functional unit that computes an operation (FuType). *)
FuMdu == {"mul"}
FuLsu == {"ld", "sd"}
FuBru == {"jal", "jalr"} \cup TypeB
FuCsr == CsrOp \cup {"ecall", "ebreak", "mret"}

SrcOneRead(inst) == inst.op \in TypeR \cup TypeI \cup TypeS \cup TypeB
SrcTwoRead(inst) == inst.op \in TypeR \cup TypeS \cup TypeB
RegWen(inst)     == inst.op \in TypeI \cup TypeR \cup TypeU \cup TypeJ

-----------------------------------------------------------------------------
(* CSRs.  "mhartid" stands for the four read-only identity registers,      *)
(* "misa" for the registers hard-wired to a constant, "none" for every     *)
(* address that neither side implements.                                   *)

CsrReg == {"mie", "mtvec", "mscratch", "mepc", "mcause", "mtval"}
CsrAddr == CsrReg \cup
  {"mstatus", "mip", "mcounteren", "misa", "mhartid", "cycle", "satp", "none"}

ReadOnlyAddr == {"mhartid", "cycle"}                   \* address bits 11:10 = 11
AddrPrivilege(a) == IF a = "cycle" THEN 0 ELSE IF a = "satp" THEN 1 ELSE 3

Instr == [op: Op, rd: Reg, rs1: Reg, rs2: Reg, imm: Value, csr: CsrAddr, bits: Value]

(* The all-zero word: what reset and a flush leave in a stage register. *)
ZeroInst == [op |-> "illegal", rd |-> 0, rs1 |-> 0, rs2 |-> 0, imm |-> 0,
             csr |-> "none", bits |-> 0]
(* 0x13, addi x0, x0, 0. *)
NopInst == [ZeroInst EXCEPT !.op = "addi", !.bits = 19]

U == 0
M == 3
Mode == {U, M}

Mstatus == [mie: 0..1, mpie: 0..1, mpp: Mode, mprv: 0..1]
MstatusReset == [mie |-> 0, mpie |-> 0, mpp |-> U, mprv |-> 0]
EncodeMstatus(s) == s.mie + 2 * s.mpie + 4 * s.mpp + 16 * s.mprv

-----------------------------------------------------------------------------
(* Causes (HasExceptionNO). *)

InstAddrMisaligned  == 0
IllegalInst         == 2
BreakPoint          == 3
LoadAddrMisaligned  == 4
StoreAddrMisaligned == 6
EcallU              == 8
EcallM              == 11
ExcNo == {InstAddrMisaligned, IllegalInst, BreakPoint, LoadAddrMisaligned,
          StoreAddrMisaligned, EcallU, EcallM}
Exception == [cause: ExcNo, tval: Value]

Interrupt == {"msi", "mti", "mei"}
IntNo(i) == CASE i = "msi" -> 3 [] i = "mti" -> 7 [] i = "mei" -> 11
IntWeight(i) == CASE i = "msi" -> 1 [] i = "mti" -> 2 [] i = "mei" -> 4
(* The interrupts whose bit is set in a mie or mip word, and back. *)
BitsOf(v) == {i \in Interrupt : (v \div IntWeight(i)) % 2 = 1}
WordOf(S) == (IF "msi" \in S THEN 1 ELSE 0) + (IF "mti" \in S THEN 2 ELSE 0)
               + (IF "mei" \in S THEN 4 ELSE 0)

InterruptBit == Modulus \div 2                           \* the top bit of mcause

(* Enough bits for mstatus, mcause and the register numbers that csrr*i    *)
(* instructions use as immediates; a power of two in the code.             *)
ASSUME ModulusAssumption == Modulus \in Nat /\ Modulus % 8 = 0 /\ Modulus >= 32
ASSUME RegAssumption == Reg \subseteq 0..31 /\ 0 \in Reg
ASSUME PcInitAssumption == PcInit \in Slot
ASSUME ProgramAssumption == Program \subseteq [Slot -> Instr]
ASSUME BitAssumption ==
  /\ \A a, b \in Value : BitOr(a, b) \in Value /\ BitClear(a, b) \in Value
  /\ \A a \in Value : BitOr(a, 0) = a /\ BitClear(a, 0) = a
=============================================================================
