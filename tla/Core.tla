-------------------------------- MODULE Core --------------------------------
(***************************************************************************)
(* The five-stage pipeline (Core.scala and pipeline/), one step per clock  *)
(* cycle, together with the two synchronous SRAM ports it drives.          *)
(*                                                                         *)
(* Every pipeline register is a variable: id, ex, mem and wb hold what the *)
(* Decode, Execute, Memory and WriteBack stages latched at the last clock  *)
(* edge.  The combinational units are operators of those registers, and    *)
(* Tick is the clock edge.  Next splits the edge by the control unit's     *)
(* verdict: advance, stall for a load, or redirect the fetch.              *)
(***************************************************************************)
EXTENDS Csr

CONSTANT Pins    \* the interrupt pin levels the environment may drive

VARIABLES
  imem,     \* the program; never written
  dmem,     \* data memory, by doubleword
  fstate,   \* fetch FSM
  fpc,      \* the fetch unit's pc register
  irdata,   \* what the instruction SRAM last returned
  id,       \* DecodeStage.data
  ex,       \* ExecuteStage.data
  mem,      \* MemoryStage.data
  wb,       \* WriteBackStage.data
  drdata,   \* what the data SRAM last returned
  regs      \* the register file

pipeVars == <<fstate, fpc, irdata, id, ex, mem, wb, drdata, regs>>
vars == <<csrVars, imem, dmem, pipeVars>>

Fetched == [valid: BOOLEAN, pc: Value, inst: Instr]
Decoded == [valid: BOOLEAN, pc: Value, inst: Instr, src1: Value, src2: Value,
            exc: SUBSET Exception, intr: SUBSET Interrupt]
Executed == [valid: BOOLEAN, pc: Value, inst: Instr, wdata: Value, has_exc: BOOLEAN]

FetchedZero == [valid |-> FALSE, pc |-> 0, inst |-> ZeroInst]
DecodedZero == [valid |-> FALSE, pc |-> 0, inst |-> ZeroInst, src1 |-> 0, src2 |-> 0,
                exc |-> {}, intr |-> {}]
ExecutedZero == [valid |-> FALSE, pc |-> 0, inst |-> ZeroInst, wdata |-> 0,
                 has_exc |-> FALSE]

TypeOK ==
  /\ CsrTypeOK
  /\ imem \in [Slot -> Instr]
  /\ dmem \in [Cell -> Value]
  /\ fstate \in {"boot", "send", "receive"}
  /\ fpc \in Value
  /\ irdata \in Instr
  /\ id \in Fetched
  /\ ex \in Decoded
  /\ mem \in Executed
  /\ wb \in Executed
  /\ drdata \in Value
  /\ regs \in [Reg -> Value]

(* The state in which reset leaves the core: sim_mycpu drops reset and     *)
(* raises the clock in one evaluation, after ten half cycles of reset.     *)
Init ==
  /\ CsrInit
  /\ imem \in Program
  /\ dmem = [c \in Cell |-> 0]
  /\ fstate = "boot"
  /\ fpc = Minus(PcInit, 4)
  /\ irdata = ZeroInst
  /\ id = FetchedZero
  /\ ex = DecodedZero
  /\ mem = ExecutedZero
  /\ wb = ExecutedZero
  /\ drdata = 0
  /\ regs = [r \in Reg |-> 0]

-----------------------------------------------------------------------------
(* Execute: the functional units, chained lsu -> bru -> csr. *)

MemAddr(e) == Plus(e.src1, e.inst.imm)

LsuExc(e) ==
  IF e.valid /\ e.inst.op \in FuLsu /\ MemAddr(e) % 8 # 0
  THEN {[cause |-> IF e.inst.op = "ld" THEN LoadAddrMisaligned ELSE StoreAddrMisaligned,
         tval  |-> MemAddr(e)]}
  ELSE {}

(* branch_bool of the branch unit. *)
BranchCondition(op, a, b) ==
  \/ op = "beq"  /\ a = b
  \/ op = "bne"  /\ a # b
  \/ op = "blt"  /\ Signed(a) < Signed(b)
  \/ op = "bge"  /\ Signed(a) >= Signed(b)
  \/ op = "bltu" /\ a < b
  \/ op = "bgeu" /\ a >= b

BruBranch(e) ==
  /\ e.valid
  /\ \/ e.inst.op \in {"jal", "jalr"}
     \/ e.inst.op \in TypeB /\ BranchCondition(e.inst.op, e.src1, e.src2)

BruTarget(e) ==
  IF e.inst.op = "jalr" THEN AlignDown(Plus(e.src1, e.src2), 2)
                        ELSE Plus(e.pc, e.inst.imm)

(* The exceptions of the instruction as they reach the CSR unit. *)
BruExc(e) ==
  LET before == e.exc \cup LsuExc(e)
  IN  IF BruBranch(e) /\ BruTarget(e) % 4 # 0 /\ before = {}
      THEN {[cause |-> InstAddrMisaligned, tval |-> BruTarget(e)]}
      ELSE before

AluResult(e) ==
  IF e.inst.op = "sub" THEN Minus(e.src1, e.src2) ELSE Plus(e.src1, e.src2)

ExWdata(e) ==
  CASE e.inst.op \in FuMdu -> Times(e.src1, e.src2)
    [] e.inst.op \in FuLsu -> 0
    [] e.inst.op \in FuBru -> Plus(e.pc, 4)
    [] e.inst.op \in FuCsr -> CsrRead(e.inst.csr)
    [] OTHER               -> AluResult(e)

ExHasExc == HasExc(ex, BruExc(ex))
Flush    == BruBranch(ex) \/ CsrFlush(ex, BruExc(ex))
Target   == IF CsrFlush(ex, BruExc(ex)) THEN CsrTarget(ex, BruExc(ex)) ELSE BruTarget(ex)

-----------------------------------------------------------------------------
(* Memory and write back.  Only doublewords are modelled: an aligned one   *)
(* needs no shift, and what a misaligned load shifts out is not a result.  *)

MemWdata == IF mem.inst.op = "ld" THEN drdata
            ELSE IF mem.inst.op \in FuLsu THEN 0 ELSE mem.wdata

(* An instruction that trapped writes nothing, whatever its reg_wen says.  *)
RegfileWen(s) == s.valid /\ RegWen(s.inst) /\ ~s.has_exc

-----------------------------------------------------------------------------
(* Decode: exceptions found there, and the operands. *)

DecodeExc ==
  IF ~id.valid THEN {} ELSE
    LET found == (IF id.pc % 4 # 0 THEN {InstAddrMisaligned} ELSE {})
           \cup (IF id.inst.op \in TypeN THEN {IllegalInst} ELSE {})
           \cup (IF id.inst.op = "ebreak" THEN {BreakPoint} ELSE {})
           \cup (IF id.inst.op = "ecall" THEN {IF mode = M THEN EcallM ELSE EcallU} ELSE {})
        tval(c) == CASE c = InstAddrMisaligned -> id.pc
                     [] c = IllegalInst        -> id.inst.bits
                     [] OTHER                  -> 0
    IN  {[cause |-> c, tval |-> tval(c)] : c \in found}

(* Every interrupt requested is attached, the timer's too. *)
DecodeIntrNoTimer == IF id.valid THEN InterruptRequest \ {"mti"} ELSE {}
DecodeIntr == IF id.valid THEN InterruptRequest ELSE {}

(* FowardCtrl: the youngest older instruction that writes the register, by *)
(* its reg_wen alone.  Searched in the other order, the oldest would win.  *)
ForwardOldest(r) ==
  IF r = 0 THEN 0
  ELSE IF RegWen(wb.inst) /\ wb.inst.rd = r THEN wb.wdata
  ELSE IF RegWen(mem.inst) /\ mem.inst.rd = r THEN MemWdata
  ELSE IF RegWen(ex.inst) /\ ex.inst.rd = r THEN ExWdata(ex)
  ELSE regs[r]
Forward(r) ==
  IF r = 0 THEN 0
  ELSE IF RegWen(ex.inst) /\ ex.inst.rd = r THEN ExWdata(ex)
  ELSE IF RegWen(mem.inst) /\ mem.inst.rd = r THEN MemWdata
  ELSE IF RegWen(wb.inst) /\ wb.inst.rd = r THEN wb.wdata
  ELSE regs[r]

DecodeSrc1 == IF SrcOneRead(id.inst) THEN Forward(id.inst.rs1)
              ELSE IF id.inst.op = "lui" THEN 0 ELSE id.pc
DecodeSrc2 == IF SrcTwoRead(id.inst) THEN Forward(id.inst.rs2) ELSE id.inst.imm

(* CtrlUnit: the instruction in Decode needs what a load in Execute has    *)
(* not fetched yet, through either operand.                                *)
ExeConflictSrc1 ==
  /\ ex.valid /\ ex.inst.op = "ld" /\ ex.inst.rd # 0
  /\ SrcOneRead(id.inst) /\ id.inst.rs1 = ex.inst.rd
ExeConflict ==
  /\ ex.valid /\ ex.inst.op = "ld" /\ ex.inst.rd # 0
  /\ \/ SrcOneRead(id.inst) /\ id.inst.rs1 = ex.inst.rd
     \/ SrcTwoRead(id.inst) /\ id.inst.rs2 = ex.inst.rd

-----------------------------------------------------------------------------
(* The clock edge, stage by stage. *)

(* boot, send, receive; a machine that stayed in send would never fetch.   *)
NextFetchStateStuck == IF fstate = "boot" THEN "send" ELSE fstate
NextFetchState == IF fstate = "boot" THEN "send" ELSE "receive"

(* A stalled fetch holds its pc.                                           *)
PcNextNoHold(go, flush) == IF flush THEN Target ELSE Plus(fpc, 4)
PcNext(go, flush) == IF flush THEN Target ELSE IF go THEN Plus(fpc, 4) ELSE fpc

(* The SRAM is not enabled in the cycle reset ends, nor at a misaligned    *)
(* address, where the fetch unit puts a nop in place of the SRAM's answer. *)
FetchTick(go, flush) ==
  LET pc_next == PcNext(go, flush)
      aligned == pc_next % 4 = 0
  IN  /\ fstate' = NextFetchState
      /\ fpc' = IF fstate = "boot" THEN fpc ELSE pc_next
      /\ irdata' = IF fstate # "boot" /\ aligned THEN imem[pc_next] ELSE irdata
      /\ id' = IF flush THEN FetchedZero
               ELSE IF go THEN [valid |-> fstate = "receive", pc |-> fpc,
                                inst |-> IF aligned THEN irdata ELSE NopInst]
               ELSE id

Decode == [valid |-> id.valid, pc |-> id.pc, inst |-> id.inst,
           src1 |-> DecodeSrc1, src2 |-> DecodeSrc2,
           exc  |-> DecodeExc, intr |-> DecodeIntr]

(* Both a flush and a stall send an empty slot to Execute.                 *)
DecodeTickNoFlush(go, flush) == ex' = IF ~go THEN DecodedZero ELSE Decode
DecodeTick(go, flush) == ex' = IF flush \/ ~go THEN DecodedZero ELSE Decode

(* The data SRAM is enabled unless this access is itself misaligned, and   *)
(* returns the doubleword as it is after the write.                        *)
DataSramTick ==
  LET cell == AlignDown(MemAddr(ex), 8)
      en   == fstate # "boot" /\ LsuExc(ex) = {}
  IN  /\ dmem' = IF en /\ ex.valid /\ ex.inst.op = "sd"
                 THEN [dmem EXCEPT ![cell] = ex.src2] ELSE dmem
      /\ drdata' = IF en THEN dmem'[cell] ELSE drdata

(* The redirecting instruction itself goes on: Memory is never flushed.    *)
ExecuteTickFlushed ==
  mem' = IF Flush THEN ExecutedZero
         ELSE [valid |-> ex.valid, pc |-> ex.pc, inst |-> ex.inst,
               wdata |-> ExWdata(ex), has_exc |-> ExHasExc]
ExecuteTick ==
  mem' = [valid |-> ex.valid, pc |-> ex.pc, inst |-> ex.inst,
          wdata |-> ExWdata(ex), has_exc |-> ExHasExc]

MemoryTick ==
  wb' = [valid |-> mem.valid, pc |-> mem.pc, inst |-> mem.inst,
         wdata |-> MemWdata, has_exc |-> mem.has_exc]

WriteBackTick ==
  regs' = IF RegfileWen(wb) /\ wb.inst.rd # 0
          THEN [regs EXCEPT ![wb.inst.rd] = wb.wdata] ELSE regs

Tick(go, flush, pins) ==
  /\ FetchTick(go, flush)
  /\ DecodeTick(go, flush)
  /\ DataSramTick
  /\ ExecuteTick
  /\ MemoryTick
  /\ WriteBackTick
  /\ CsrTick(ex, BruExc(ex), pins)
  /\ UNCHANGED imem

Advance(pins)  == ~Flush /\ ~ExeConflict /\ Tick(TRUE, FALSE, pins)
LoadUse(pins)  == ~Flush /\ ExeConflict /\ Tick(FALSE, FALSE, pins)
Redirect(pins) == Flush /\ Tick(~ExeConflict, TRUE, pins)

Next == \E pins \in Pins : Advance(pins) \/ LoadUse(pins) \/ Redirect(pins)

(* The harness toggles the clock for as long as the simulation runs. *)
Spec == Init /\ [][Next]_vars /\ WF_vars(Next)

-----------------------------------------------------------------------------
(* Once a first instruction has committed the next one is never more than  *)
(* three cycles away: no combination of stalls, redirects and traps drains *)
(* the pipeline (sim_mycpu.cpp gives up after commit_timeout ticks without *)
(* a commit).                                                              *)
CommitWithinThree == wb.valid => mem.valid \/ ex.valid \/ id.valid

(* The core keeps committing, whatever the program does.                   *)
AlwaysCommits == []<>(wb.valid)

(* In user mode MPP is user mode, and the pipeline is never in user mode   *)
(* with an instruction in flight that could raise it: the only way up is a *)
(* trap.  The CSR unit lets mret through in user mode.                     *)
UserStaysUser == mode = U => mstatus.mpp = U
OnlyTrapsRaisePrivilege == [][mode = U /\ mode' = M => CsrTrap(ex, BruExc(ex))]_vars

(* An interrupt that stays pending and enabled is taken.                   *)
RequestHonoured ==
  (InterruptRequest # {}) ~> (InterruptRequest = {} \/ (ex.valid /\ ex.intr # {}))

(* An interrupt traps only while it is enabled (check_and_raise_int:       *)
(* "An interrupt i will trap to M-mode ... if all of the following are     *)
(* true: (a) either the current privilege mode is M and the MIE bit in the *)
(* mstatus register is set, or ...; (b) bit i is set in both mip and mie").*)
InterruptEnabledWhenTaken ==
  [][ex.valid /\ ex.intr # {} => ex.intr \cap InterruptRequest # {}]_vars

(* The only interrupt that traps although it is no longer enabled is one   *)
(* sampled in Decode while a CSR write was in Execute, one cycle ahead.    *)
StaleOnlyBehindCsrWrite ==
  ex.intr # {} /\ ~(ex.intr \subseteq InterruptRequest)
    => mem.valid /\ mem.inst.op \in CsrOp /\ mem.inst.csr \in {"mstatus", "mie"}

(* The cause of an interrupt names a line that is driven (HasExceptionNO:  *)
(* msi 3 is the software interrupt, mei 11 the external one).              *)
CauseNamesItsPin ==
  \A i \in Interrupt : csr["mcause"] = InterruptBit + IntNo(i) => i \in UNION Pins

ASSUME PinsAssumption == Pins \subseteq SUBSET Interrupt
=============================================================================
