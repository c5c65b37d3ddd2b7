-------------------------------- MODULE Csr --------------------------------
(***************************************************************************)
(* The control and status register unit of the execute stage (fu/Csr.scala)*)
(* as a Mealy machine: its registers are variables, its outputs are        *)
(* operators of the instruction in the execute stage, of the exceptions    *)
(* and interrupts attached to it, and of those registers.  CsrTick is the  *)
(* clock edge.                                                             *)
(*                                                                         *)
(* e is the content of the execute stage register (see Core), exc the set  *)
(* of exceptions the earlier units pass on.                                *)
(***************************************************************************)
EXTENDS Isa

CONSTANT CycleModulus    \* the cycle counter is kept modulo this bound

VARIABLES
  csr,        \* the machine trap registers, by name
  mcounteren, \* mcounteren, which only the RTL stores
  mstatus,    \* mstatus, by field
  mip,        \* the pending interrupts
  mode,       \* the privilege mode
  cycle       \* the cycle counter

csrVars == <<csr, mcounteren, mstatus, mip, mode, cycle>>

RtlCsr == CsrAddr \ {"none"}

CsrTypeOK ==
  /\ csr \in [CsrReg -> Value]
  /\ mcounteren \in Value
  /\ mstatus \in Mstatus
  /\ mip \subseteq Interrupt
  /\ mode \in Mode
  /\ cycle \in 0 .. CycleModulus - 1

CsrInit ==
  /\ csr = [c \in CsrReg |-> 0]
  /\ mcounteren = 0
  /\ mstatus = MstatusReset
  /\ mip = {}
  /\ mode = M
  /\ cycle = 0

(* default_read: the addressed register, 0 when there is none. *)
CsrRead(a) ==
  CASE a \in CsrReg      -> csr[a]
    [] a = "mstatus"     -> EncodeMstatus(mstatus)
    [] a = "mip"         -> WordOf(mip)
    [] a = "mcounteren"  -> mcounteren
    [] a = "cycle"       -> cycle
    [] a = "misa"        -> 1
    [] OTHER             -> 0

(* The only_read test looks at the VALUE of the rs1 operand, for the       *)
(* immediate forms too.                                                    *)
OnlyRead(e) == e.src1 = 0 /\ e.inst.op \in (CsrSetOp \cup CsrClearOp)

CsrAccess(e) == e.valid /\ e.inst.op \in CsrOp

(* illegal_write and illegal_mode; without the latter, any mode may write. *)
IllegalAccessAnyMode(e) == e.inst.csr \in ReadOnlyAddr /\ ~OnlyRead(e)
IllegalAccess(e) ==
  \/ e.inst.csr \in ReadOnlyAddr /\ ~OnlyRead(e)
  \/ mode < AddrPrivilege(e.inst.csr)

CsrWen(e) == CsrAccess(e) /\ ~IllegalAccess(e)

WriteData(e) ==
  LET src == IF e.inst.op \in CsrImmOp THEN e.inst.rs1 ELSE e.src1
      old == CsrRead(e.inst.csr)
  IN  CASE e.inst.op \in CsrWriteOp -> src
        [] e.inst.op \in CsrSetOp   -> BitOr(old, src)
        [] OTHER                    -> BitClear(old, src)

(* mstatus through its write mask: an illegal MPP is left alone.  Written  *)
(* without the mode_legal test it would take any value.                    *)
WriteMstatusAnyMpp(v) ==
  [mie |-> v % 2, mpie |-> (v \div 2) % 2, mpp |-> (v \div 4) % 4, mprv |-> (v \div 16) % 2]
WriteMstatus(v) ==
  [mie  |-> v % 2,
   mpie |-> (v \div 2) % 2,
   mpp  |-> IF (v \div 4) % 4 \in Mode THEN (v \div 4) % 4 ELSE mstatus.mpp,
   mprv |-> (v \div 16) % 2]

CsrExc(e, exc) ==
  exc \cup IF CsrAccess(e) /\ (IllegalAccess(e) \/ e.inst.csr \notin RtlCsr)
           THEN {[cause |-> IllegalInst, tval |-> e.inst.bits]}
           ELSE {}

-----------------------------------------------------------------------------
(* Traps and mret. *)

(* ExcPriority and IntPriority: the smaller the rank, the earlier. *)
ExcRank(c) ==
  CASE c = BreakPoint -> 1 [] c = IllegalInst -> 2 [] c = InstAddrMisaligned -> 3
    [] c = EcallM -> 4 [] c = EcallU -> 5 [] c = LoadAddrMisaligned -> 6
    [] c = StoreAddrMisaligned -> 7
FirstException(exc) ==
  CHOOSE x \in exc : \A y \in exc : ExcRank(x.cause) <= ExcRank(y.cause)
FirstInterrupt(S) ==
  IF "mei" \in S THEN "mei" ELSE IF "msi" \in S THEN "msi" ELSE "mti"

HasExc(e, exc)  == CsrExc(e, exc) # {} \/ e.intr # {}
CsrTrap(e, exc) == e.valid /\ HasExc(e, exc)
CsrMret(e, exc) == e.valid /\ e.inst.op = "mret" /\ ~HasExc(e, exc)
CsrFlush(e, exc) == CsrTrap(e, exc) \/ CsrMret(e, exc)

(* mtvec is vectored for interrupts only. *)
CsrTarget(e, exc) ==
  LET base == AlignDown(csr["mtvec"], 4)
  IN  IF CsrTrap(e, exc)
      THEN IF e.intr # {} /\ csr["mtvec"] % 2 = 1
           THEN Plus(base, 4 * IntNo(FirstInterrupt(e.intr)))
           ELSE base
      ELSE csr["mepc"]

(* The CSR write takes effect whatever else the instruction does; a trap   *)
(* then overrides the registers it sets itself.                            *)
WrittenCsr(e) ==
  IF CsrWen(e) /\ e.inst.csr \in CsrReg
  THEN [csr EXCEPT ![e.inst.csr] = WriteData(e)]
  ELSE csr

TrapMstatus == [mstatus EXCEPT !.mpp = mode, !.mpie = mstatus.mie, !.mie = 0]

(* mret leaves U in MPP; leaving M there would let user mode climb back.   *)
MretMstatusToM ==
  [mie |-> mstatus.mpie, mpie |-> 1, mpp |-> M, mprv |-> mstatus.mprv]
MretMstatus ==
  [mie |-> mstatus.mpie, mpie |-> 1, mpp |-> U,
   mprv |-> IF mstatus.mpp # M THEN 0 ELSE mstatus.mprv]

(* A trap saves the pc of the instruction that traps, not the next one.    *)
TrapCsrNextPc(e, exc) ==
  LET x == FirstException(CsrExc(e, exc))
      taken == e.intr # {}
  IN  [WrittenCsr(e) EXCEPT
         !["mtval"]  = IF taken THEN 0 ELSE x.tval,
         !["mcause"] = IF taken THEN InterruptBit + IntNo(FirstInterrupt(e.intr))
                                ELSE x.cause,
         !["mepc"]   = Plus(e.pc, 4)]
TrapCsr(e, exc) ==
  LET x == FirstException(CsrExc(e, exc))
      taken == e.intr # {}
  IN  [WrittenCsr(e) EXCEPT
         !["mtval"]  = IF taken THEN 0 ELSE x.tval,
         !["mcause"] = IF taken THEN InterruptBit + IntNo(FirstInterrupt(e.intr))
                                ELSE x.cause,
         !["mepc"]   = e.pc]

(* The pins are or-ed into mip, which CSR writes never reach: the msi pin  *)
(* sets the mei bit and the mei pin the msi bit.                           *)
LatchPins(pins) ==
  mip' = mip \cup (IF "msi" \in pins THEN {"mei"} ELSE {})
             \cup (IF "mei" \in pins THEN {"msi"} ELSE {})
             \cup (pins \cap {"mti"})

(* The write mask of mcounteren leaves out the four top bits.              *)
McounterenSize == Modulus \div 16

(* A read of cycle writes it back unchanged, in place of the increment.    *)
CsrTick(e, exc, pins) ==
  /\ csr' = IF CsrTrap(e, exc) THEN TrapCsr(e, exc) ELSE WrittenCsr(e)
  /\ mstatus' = IF CsrTrap(e, exc) THEN TrapMstatus
                ELSE IF CsrMret(e, exc) THEN MretMstatus
                ELSE IF CsrWen(e) /\ e.inst.csr = "mstatus"
                     THEN WriteMstatus(WriteData(e))
                ELSE mstatus
  /\ mcounteren' = IF CsrWen(e) /\ e.inst.csr = "mcounteren"
                   THEN WriteData(e) % McounterenSize ELSE mcounteren
  /\ mode' = IF CsrTrap(e, exc) THEN M
             ELSE IF CsrMret(e, exc) THEN mstatus.mpp ELSE mode
  /\ LatchPins(pins)
  /\ cycle' = IF CsrWen(e) /\ e.inst.csr = "cycle" THEN cycle
              ELSE (cycle + 1) % CycleModulus

(* checkInterrupt: the interrupts offered to the decode stage. *)
InterruptRequest ==
  {i \in mip : i \in BitsOf(csr["mie"]) /\ (mode < M \/ mstatus.mie = 1)}

ASSUME CycleModulusAssumption == CycleModulus \in 1 .. Modulus
=============================================================================
