------------------------------ MODULE Lockstep ------------------------------
(***************************************************************************)
(* The pipeline against the reference core: the differential test of       *)
(* sim_mycpu.cpp as a refinement.  The reference takes its step in the     *)
(* cycle in which the instruction is in Execute, where the RTL changes     *)
(* memory, CSRs and privilege; what older instructions still owe the       *)
(* register file is added to it by the mapping.                            *)
(*                                                                         *)
(* RTL and reference are known to differ in a few situations, which        *)
(* Departs names.  Conventions lists those the programs under              *)
(* consideration keep clear of; with all of them, every step agrees.       *)
(***************************************************************************)
EXTENDS Core

CONSTANT Conventions

Convention == {"trap_forward", "jalr_odd", "vectored_exception", "reserved_mtvec",
               "mret_user", "readonly_set", "cycle_user", "wide_mie",
               "mcounteren_write", "satp_access"}

(* The instruction in Decode reads the register that an excepting          *)
(* instruction, now in WriteBack, would have written.                      *)
TrapForward ==
  /\ id.valid /\ wb.has_exc /\ RegWen(wb.inst) /\ wb.inst.rd # 0
  /\ \/ SrcOneRead(id.inst) /\ id.inst.rs1 = wb.inst.rd
     \/ SrcTwoRead(id.inst) /\ id.inst.rs2 = wb.inst.rd

(* An exception other than a misaligned fetch, with mtvec not direct.      *)
VectoredException ==
  /\ CsrTrap(ex, BruExc(ex))
  /\ csr["mtvec"] % 4 # 0
  /\ \E x \in CsrExc(ex, BruExc(ex)) : x.cause # InstAddrMisaligned

Departs(c) ==
  \/ c = "trap_forward" /\ TrapForward
  \/ c = "jalr_odd" /\ ex.valid /\ ex.inst.op = "jalr" /\ ex.src1 % 2 = 1
  \/ c = "vectored_exception" /\ VectoredException
  \/ c = "mret_user" /\ ex.valid /\ ex.inst.op = "mret" /\ mode = U
  \/ CsrAccess(ex) /\
     \/ c = "reserved_mtvec" /\ ex.inst.csr = "mtvec" /\ WriteData(ex) % 4 > 1
     \/ c = "wide_mie" /\ ex.inst.csr = "mie" /\ WriteData(ex) >= 8
     \/ c = "mcounteren_write" /\ ex.inst.csr = "mcounteren" /\ WriteData(ex) # 0
     \/ c = "satp_access" /\ ex.inst.csr = "satp"
     \/ c = "cycle_user" /\ ex.inst.csr = "cycle" /\ mode = U
     \/ c = "readonly_set" /\ ex.inst.csr \in ReadOnlyAddr
                           /\ OnlyRead(ex) /\ ex.inst.rs1 # 0

Conforms == \A c \in Conventions : ~Departs(c)

ConformingSpec ==
  Init /\ [][Next /\ Conforms]_vars /\ WF_vars(Next /\ Conforms)

-----------------------------------------------------------------------------
(* The refinement mapping. *)

(* The oldest instruction that has not executed. *)
ArchPc == IF ex.valid THEN ex.pc
          ELSE IF id.valid THEN id.pc
          ELSE IF fstate = "receive" THEN fpc
          ELSE Plus(fpc, 4)

(* The register file once Memory and WriteBack have drained. *)
ArchGpr ==
  [r \in Reg |->
     IF RegfileWen(mem) /\ mem.inst.rd = r /\ r # 0 THEN MemWdata
     ELSE IF RegfileWen(wb) /\ wb.inst.rd = r /\ r # 0 THEN wb.wdata
     ELSE regs[r]]

Ref == INSTANCE RvCore WITH pc <- ArchPc, gpr <- ArchGpr, status <- mstatus, priv <- mode

(* Every clock edge of the pipeline is one step of the reference core or   *)
(* none at all: registers, memory, trap CSRs, mstatus, privilege and the   *)
(* address of the next instruction never differ (sim_mycpu.cpp compares pc *)
(* and destination register at each commit).                               *)
RefinesRvCore == Ref!Init /\ [][Ref!Next]_(Ref!vars)

(* The operands of an instruction in Execute are those the reference reads *)
(* at that point, whichever stage they were forwarded from.                *)
OperandsArchitectural ==
  ex.valid =>
    /\ SrcOneRead(ex.inst) => ex.src1 = ArchGpr[ex.inst.rs1]
    /\ SrcTwoRead(ex.inst) => ex.src2 = ArchGpr[ex.inst.rs2]

(* Execute, Decode and Fetch hold consecutive instructions, without a gap  *)
(* behind Execute: stalls and redirects neither skip nor repeat one.       *)
InProgramOrder ==
  /\ ex.valid => id.valid /\ id.pc = Plus(ex.pc, 4)
  /\ id.valid => fpc = Plus(id.pc, 4)

ASSUME ConventionsAssumption == Conventions \subseteq Convention
=============================================================================
