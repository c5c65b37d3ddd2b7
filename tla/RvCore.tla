------------------------------- MODULE RvCore -------------------------------
(***************************************************************************)
(* The reference core the simulator runs in lockstep with the RTL          *)
(* (rv_core.hpp and rv_priv.hpp): one step per instruction, no pipeline.   *)
(* It is the abstract specification of the pipeline.                       *)
(*                                                                         *)
(* As sim_mycpu.cpp drives it: every interrupt input 0, satp 0 for lack of *)
(* an S mode, M and U modes.  mcycle is left out, so that a read of cycle  *)
(* returns any word.                                                       *)
(***************************************************************************)
EXTENDS Isa

VARIABLES imem, pc, gpr, dmem, csr, status, priv

vars == <<imem, pc, gpr, dmem, csr, status, priv>>

Init ==
  /\ imem \in [Slot -> Instr]
  /\ pc = PcInit
  /\ gpr = [r \in Reg |-> 0]
  /\ dmem = [c \in Cell |-> 0]
  /\ csr = [c \in CsrReg |-> 0]
  /\ status = MstatusReset
  /\ priv = M

-----------------------------------------------------------------------------

inst == imem[pc]

BranchTaken(op, a, b) ==
  CASE op = "beq"  -> a = b
    [] op = "bne"  -> a # b
    [] op = "blt"  -> Signed(a) < Signed(b)
    [] op = "bge"  -> Signed(a) >= Signed(b)
    [] op = "bltu" -> a < b
    [] op = "bgeu" -> a >= b

SetGpr(r, v) == gpr' = IF r = 0 THEN gpr ELSE [gpr EXCEPT ![r] = v]

(* pc + 4 with no effect outside the registers. *)
Retire(r, v) ==
  /\ SetGpr(r, v)
  /\ pc' = Plus(pc, 4)
  /\ UNCHANGED <<imem, dmem, csr, status, priv>>

RetireNoWrite ==
  /\ pc' = Plus(pc, 4)
  /\ UNCHANGED <<imem, gpr, dmem, csr, status, priv>>

(* raise_trap for a synchronous cause: any mtvec mode but 0 adds 4 * cause.*)
RaiseTrap(cause, tval) ==
  /\ csr' = [csr EXCEPT !["mtval"] = tval, !["mcause"] = cause, !["mepc"] = pc]
  /\ status' = [status EXCEPT !.mpp = priv, !.mpie = status.mie, !.mie = 0]
  /\ priv' = M
  /\ pc' = Plus(AlignDown(csr["mtvec"], 4), IF csr["mtvec"] % 4 # 0 THEN 4 * cause ELSE 0)
  /\ UNCHANGED <<imem, gpr, dmem>>

RaiseIllegal == RaiseTrap(IllegalInst, inst.bits)

JumpTo(npc) ==
  IF npc % 4 # 0
  THEN RaiseTrap(InstAddrMisaligned, npc)
  ELSE /\ SetGpr(inst.rd, Plus(pc, 4))
       /\ pc' = npc
       /\ UNCHANGED <<imem, dmem, csr, status, priv>>

-----------------------------------------------------------------------------
(* One action per opcode group of exec. *)

FetchMisaligned == pc % 4 # 0 /\ RaiseTrap(InstAddrMisaligned, pc)

Fetched(op) == pc % 4 = 0 /\ inst.op = op

Lui   == Fetched("lui")   /\ Retire(inst.rd, inst.imm)
Auipc == Fetched("auipc") /\ Retire(inst.rd, Plus(inst.imm, pc))
Jal   == Fetched("jal")   /\ JumpTo(Plus(pc, inst.imm))

(* Bit 0 is cleared in the immediate, not in the sum. *)
Jalr == Fetched("jalr") /\ JumpTo(Plus(gpr[inst.rs1], AlignDown(inst.imm, 2)))

Branch(op) ==
  /\ Fetched(op)
  /\ IF BranchTaken(op, gpr[inst.rs1], gpr[inst.rs2])
     THEN LET npc == Plus(pc, inst.imm)
          IN  IF npc % 4 # 0
              THEN RaiseTrap(InstAddrMisaligned, npc)
              ELSE pc' = npc /\ UNCHANGED <<imem, gpr, dmem, csr, status, priv>>
     ELSE RetireNoWrite

LoadStoreAddr == Plus(gpr[inst.rs1], inst.imm)

Load ==
  /\ Fetched("ld")
  /\ IF LoadStoreAddr % 8 # 0
     THEN RaiseTrap(LoadAddrMisaligned, LoadStoreAddr)
     ELSE Retire(inst.rd, dmem[LoadStoreAddr])

Store ==
  /\ Fetched("sd")
  /\ IF LoadStoreAddr % 8 # 0
     THEN RaiseTrap(StoreAddrMisaligned, LoadStoreAddr)
     ELSE /\ dmem' = [dmem EXCEPT ![LoadStoreAddr] = gpr[inst.rs2]]
          /\ pc' = Plus(pc, 4)
          /\ UNCHANGED <<imem, gpr, csr, status, priv>>

OpImm == Fetched("addi") /\ Retire(inst.rd, Plus(gpr[inst.rs1], inst.imm))

Operate ==
  LET a == gpr[inst.rs1]
      b == gpr[inst.rs2]
  IN  \/ Fetched("add") /\ Retire(inst.rd, Plus(a, b))
      \/ Fetched("sub") /\ Retire(inst.rd, Minus(a, b))
      \/ Fetched("mul") /\ Retire(inst.rd, Times(a, b))

Fence   == Fetched("fence")  /\ RetireNoWrite
Ecall   == Fetched("ecall")  /\ RaiseTrap(priv + 8, 0)
Ebreak  == Fetched("ebreak") /\ RaiseTrap(BreakPoint, 0)
Illegal == Fetched("illegal") /\ RaiseIllegal

Mret ==
  /\ Fetched("mret")
  /\ IF priv # M
     THEN RaiseIllegal
     ELSE /\ status' = [mie |-> status.mpie, mpie |-> 1, mpp |-> U,
                         mprv |-> IF status.mpp # M THEN 0 ELSE status.mprv]
          /\ priv' = status.mpp
          /\ pc' = csr["mepc"]
          /\ UNCHANGED <<imem, gpr, dmem, csr>>

(* csr_op_permission_check and the CSRs csr_read knows. *)
CsrPermitted(write) ==
  /\ priv = M
  /\ ~(inst.csr \in ReadOnlyAddr /\ write)
  /\ inst.csr \notin {"satp", "none"}

CsrReads ==
  CASE inst.csr \in CsrReg  -> {csr[inst.csr]}
    [] inst.csr = "mstatus" -> {EncodeMstatus(status)}
    [] inst.csr = "misa"    -> {1}
    [] inst.csr = "cycle"   -> Value
    [] OTHER                -> {0}

SetMstatus(v) ==
  LET mpp == (v \div 4) % 4
  IN  [mie  |-> v % 2, mpie |-> (v \div 2) % 2, mprv |-> (v \div 16) % 2,
       mpp  |-> IF mpp = 3 \/ mpp = 0 THEN mpp ELSE status.mpp]

(* csr_write; a reserved mtvec mode fails its assertion, so no step.  The  *)
(* three machine interrupt bits are all m_int_mask lets into mie.          *)
CsrWrite(v) ==
  /\ inst.csr = "mtvec" => v % 4 <= 1
  /\ csr' = IF inst.csr \in CsrReg
            THEN [csr EXCEPT ![inst.csr] = IF inst.csr = "mie" THEN v % 8 ELSE v]
            ELSE csr
  /\ status' = IF inst.csr = "mstatus" THEN SetMstatus(v) ELSE status

CsrInstr(op) ==
  LET src   == IF op \in CsrImmOp THEN inst.rs1 ELSE gpr[inst.rs1]
      write == op \in CsrWriteOp \/ inst.rs1 # 0
      new(old) == IF op \in CsrWriteOp THEN src
                  ELSE IF op \in CsrSetOp THEN BitOr(old, src) ELSE BitClear(old, src)
  IN  /\ Fetched(op)
      /\ IF CsrPermitted(write)
         THEN \E old \in CsrReads :
                /\ IF write THEN CsrWrite(new(old)) ELSE UNCHANGED <<csr, status>>
                /\ SetGpr(inst.rd, old)
                /\ pc' = Plus(pc, 4)
                /\ UNCHANGED <<imem, dmem, priv>>
         ELSE RaiseIllegal

-----------------------------------------------------------------------------

Next ==
  \/ FetchMisaligned
  \/ Lui \/ Auipc \/ Jal \/ Jalr
  \/ \E op \in TypeB : Branch(op)
  \/ Load \/ Store \/ OpImm \/ Operate \/ Fence
  \/ Ecall \/ Ebreak \/ Mret \/ Illegal
  \/ \E op \in CsrOp : CsrInstr(op)

Spec == Init /\ [][Next]_vars
=============================================================================
