---------------------------- MODULE PipelineProofs ---------------------------
(***************************************************************************)
(* Theorems about the pipeline.  For every word width, register set,       *)
(* program and interrupt environment: the state stays well typed, the      *)
(* pipeline never drains, user mode is left by a trap alone, and an        *)
(* interrupt is stale only behind the CSR write that disabled it.  Under   *)
(* the lockstep conventions: it executes instructions in program order, on *)
(* the operands an unpipelined core would read, and, with no interrupt pin *)
(* driven, each clock edge is one step of RvCore or none.                  *)
(***************************************************************************)
EXTENDS Lockstep, TLAPS

-----------------------------------------------------------------------------
(* What the word operators of Isa return. *)

(* The word size is a number at least 32, so every small constant of the   *)
(* code is a word.                                                         *)
LEMMA ModulusFacts ==
  /\ Modulus \in Nat
  /\ Modulus >= 32
  /\ Modulus % 8 = 0
  /\ 0..31 \subseteq Value
  /\ Value \subseteq Nat
BY ModulusAssumption DEF Value

(* Words are numbers.                                                      *)
LEMMA WordInt == \A a \in Value : a \in Int /\ a \in Nat
BY DEF Value

(* A remainder modulo the word size is a word.                             *)
LEMMA ModWord == ASSUME NEW i \in Int PROVE i % Modulus \in Value
BY ModulusFacts DEF Value

(* The adder, subtracter and multiplier return words.                      *)
LEMMA PlusWord == ASSUME NEW a \in Int, NEW b \in Int PROVE Plus(a, b) \in Value
BY ModWord DEF Plus

LEMMA MinusWord == ASSUME NEW a \in Int, NEW b \in Int PROVE Minus(a, b) \in Value
BY ModWord DEF Minus

LEMMA TimesWord == ASSUME NEW a \in Int, NEW b \in Int PROVE Times(a, b) \in Value
<1>1. a * b \in Int
  OBVIOUS
<1>2. (a * b) % Modulus \in Value
  BY <1>1, ModWord
<1>. QED BY <1>2 DEF Times

(* Clearing the low bits of a word leaves an aligned word.                 *)
LEMMA AlignDownWord ==
  ASSUME NEW a \in Value, NEW n \in {2, 4, 8}
  PROVE  AlignDown(a, n) \in Value /\ AlignDown(a, n) % n = 0
<1>1. a \in Nat /\ a < Modulus /\ Modulus \in Nat
  BY ModulusFacts DEF Value
<1>2. CASE n = 2
  BY <1>1, <1>2 DEF AlignDown, Value
<1>3. CASE n = 4
  BY <1>1, <1>3 DEF AlignDown, Value
<1>4. CASE n = 8
  BY <1>1, <1>4 DEF AlignDown, Value
<1>. QED BY <1>2, <1>3, <1>4

(* The doubleword that holds an address is a memory cell.                  *)
LEMMA AlignDownCell == ASSUME NEW a \in Value PROVE AlignDown(a, 8) \in Cell
BY AlignDownWord DEF Cell

(* The packed mstatus is a word.                                           *)
LEMMA EncodeMstatusWord == ASSUME NEW s \in Mstatus PROVE EncodeMstatus(s) \in Value
<1>1. /\ s.mie \in 0..1 /\ s.mpie \in 0..1 /\ s.mprv \in 0..1 /\ s.mpp \in {0, 3}
  BY DEF Mstatus, Mode, U, M
<1>2. EncodeMstatus(s) \in 0..31
  BY <1>1 DEF EncodeMstatus
<1>. QED BY <1>2, ModulusFacts

(* A set of interrupts packs into a word.                                  *)
LEMMA WordOfWord == ASSUME NEW S PROVE WordOf(S) \in Value
<1>1. WordOf(S) \in 0..31
  BY DEF WordOf
<1>. QED BY <1>1, ModulusFacts

(* The cause of an interrupt is a word, the largest one being              *)
(* Modulus \div 2 + 11.                                                    *)
LEMMA InterruptCauseWord ==
  ASSUME NEW i \in Interrupt PROVE InterruptBit + IntNo(i) \in Value
<1>1. IntNo(i) \in 0..11
  BY DEF IntNo, Interrupt
<1>2. InterruptBit \in Nat /\ 2 * InterruptBit <= Modulus
  BY ModulusFacts DEF InterruptBit
<1>. QED BY <1>1, <1>2, ModulusFacts DEF Value

(* The records that reset and a misaligned fetch put in a stage register   *)
(* are instructions.                                                       *)
LEMMA ConstantInstr == ZeroInst \in Instr /\ NopInst \in Instr
<1>1. 0 \in Reg /\ 0 \in Value /\ 19 \in Value
  BY RegAssumption, ModulusFacts
<1>2. "none" \in CsrAddr /\ "illegal" \in Op /\ "addi" \in Op
  BY DEF CsrAddr, Op, TypeN, TypeI
<1>3. ZeroInst \in Instr
  BY <1>1, <1>2 DEF ZeroInst, Instr
<1>. QED BY <1>1, <1>2, <1>3 DEF NopInst, ZeroInst, Instr

-----------------------------------------------------------------------------
(* Values computed from well-typed stage registers. *)

(* Reading a CSR returns a word, for every address.                        *)
LEMMA CsrReadWord ==
  ASSUME CsrTypeOK, NEW a \in CsrAddr PROVE CsrRead(a) \in Value
<1>1. 0 \in Value /\ 1 \in Value
  BY ModulusFacts
<1>2. cycle \in Value
  BY CycleModulusAssumption, ModulusFacts DEF CsrTypeOK, Value
<1>3. EncodeMstatus(mstatus) \in Value
  BY EncodeMstatusWord DEF CsrTypeOK
<1>4. WordOf(mip) \in Value
  BY WordOfWord
<1>5. mcounteren \in Value /\ csr \in [CsrReg -> Value]
  BY DEF CsrTypeOK
<1>. DEFINE Named == {"mstatus", "mip", "mcounteren", "cycle", "misa"}
<1>6. CASE a \in CsrReg
  <2>1. CsrRead(a) = csr[a]
    BY <1>6 DEF CsrRead, CsrReg
  <2>. QED BY <1>5, <1>6, <2>1
<1>7. CASE a \in Named
  BY <1>1, <1>2, <1>3, <1>4, <1>5, <1>7 DEF CsrRead, CsrReg
<1>8. CASE a \notin CsrReg \cup Named
  <2>1. CsrRead(a) = 0
    BY <1>8 DEF CsrRead
  <2>. QED BY <1>1, <2>1
<1>. QED BY <1>6, <1>7, <1>8

(* What a CSR instruction writes is a word.                                *)
LEMMA WriteDataWord ==
  ASSUME CsrTypeOK, NEW e \in Decoded PROVE WriteData(e) \in Value
<1>1. e.inst.csr \in CsrAddr /\ e.inst.rs1 \in Reg /\ e.src1 \in Value
  BY DEF Decoded, Instr
<1>2. e.inst.rs1 \in Value
  BY <1>1, RegAssumption, ModulusFacts
<1>3. CsrRead(e.inst.csr) \in Value
  BY <1>1, CsrReadWord
<1>4. (IF e.inst.op \in CsrImmOp THEN e.inst.rs1 ELSE e.src1) \in Value
  BY <1>1, <1>2
<1>. QED BY <1>3, <1>4, BitAssumption DEF WriteData

(* The write mask of mstatus keeps it well formed: MPP never holds a mode  *)
(* the core does not have.                                                 *)
LEMMA WriteMstatusType ==
  ASSUME CsrTypeOK, NEW v \in Value PROVE WriteMstatus(v) \in Mstatus
<1>1. v \in Nat
  BY ModulusFacts
<1>2. v % 2 \in 0..1 /\ (v \div 2) % 2 \in 0..1 /\ (v \div 16) % 2 \in 0..1
  BY <1>1
<1>3. (IF (v \div 4) % 4 \in Mode THEN (v \div 4) % 4 ELSE mstatus.mpp) \in Mode
  BY DEF CsrTypeOK, Mstatus
<1>. QED BY <1>2, <1>3 DEF WriteMstatus, Mstatus

(* Where several exceptions meet, the priority order names one of them.    *)
LEMMA FirstExceptionIn ==
  ASSUME NEW S \in SUBSET Exception, S # {}
  PROVE  FirstException(S) \in S /\ FirstException(S) \in Exception
<1>. DEFINE Least(x) == \A y \in S : ExcRank(x.cause) <= ExcRank(y.cause)
<1>1. \A x \in S : x.cause \in ExcNo
  BY DEF Exception
<1>2. \A c \in ExcNo : ExcRank(c) \in 1..7
  BY DEF ExcNo, ExcRank, InstAddrMisaligned, IllegalInst, BreakPoint,
         LoadAddrMisaligned, StoreAddrMisaligned, EcallU, EcallM
<1>3. \A x \in S : ExcRank(x.cause) \in 1..7
  BY <1>1, <1>2
<1>4. \E x \in S : Least(x)
  <2>. HIDE DEF Least
  <2>. DEFINE At(k) == \E x \in S : ExcRank(x.cause) = k
  <2>1. \E k \in 1..7 : At(k) /\ \A j \in 1..7 : At(j) => k <= j
    <3>1. At(1) \/ At(2) \/ At(3) \/ At(4) \/ At(5) \/ At(6) \/ At(7)
      <4>1. PICK x \in S : TRUE
        OBVIOUS
      <4>2. ExcRank(x.cause) \in 1..7
        BY <1>3
      <4>. QED BY <4>2
    <3>. HIDE DEF At
    <3>. QED BY <3>1
  <2>2. PICK k \in 1..7 : At(k) /\ \A j \in 1..7 : At(j) => k <= j
    BY <2>1
  <2>3. PICK x \in S : ExcRank(x.cause) = k
    BY <2>2
  <2>4. ASSUME NEW y \in S PROVE ExcRank(x.cause) <= ExcRank(y.cause)
    BY <1>3, <2>2, <2>3
  <2>. QED BY <2>4 DEF Least
<1>5. FirstException(S) = CHOOSE x \in S : Least(x)
  BY Zenon DEF FirstException
<1>. HIDE DEF Least
<1>6. FirstException(S) \in S
  BY <1>4, <1>5, Zenon
<1>. QED BY <1>6

-----------------------------------------------------------------------------
(* The units of the execute stage. *)

(* Addresses, targets and results computed in Execute are words.           *)
LEMMA MemAddrWord == ASSUME NEW e \in Decoded PROVE MemAddr(e) \in Value
<1>1. e.src1 \in Value /\ e.inst.imm \in Value
  BY DEF Decoded, Instr
<1>. QED BY <1>1, PlusWord, WordInt DEF MemAddr

LEMMA BruTargetWord == ASSUME NEW e \in Decoded PROVE BruTarget(e) \in Value
<1>1. /\ e.src1 \in Value /\ e.src2 \in Value /\ e.pc \in Value
      /\ e.inst.imm \in Value
  BY DEF Decoded, Instr
<1>2. Plus(e.src1, e.src2) \in Value /\ Plus(e.pc, e.inst.imm) \in Value
  BY <1>1, PlusWord, WordInt
<1>3. AlignDown(Plus(e.src1, e.src2), 2) \in Value
  BY <1>2, AlignDownWord
<1>. QED BY <1>2, <1>3 DEF BruTarget

LEMMA ExWdataWord ==
  ASSUME CsrTypeOK, NEW e \in Decoded PROVE ExWdata(e) \in Value
<1>1. /\ e.src1 \in Value /\ e.src2 \in Value /\ e.pc \in Value
      /\ e.inst.csr \in CsrAddr /\ 0 \in Value
  BY ModulusFacts DEF Decoded, Instr
<1>2. /\ e.src1 \in Int /\ e.src2 \in Int /\ e.pc \in Int
  BY <1>1, WordInt
<1>3. /\ Times(e.src1, e.src2) \in Value /\ Plus(e.pc, 4) \in Value
      /\ AluResult(e) \in Value /\ CsrRead(e.inst.csr) \in Value
  BY <1>1, <1>2, TimesWord, PlusWord, MinusWord, CsrReadWord DEF AluResult
<1>. QED BY <1>1, <1>3 DEF ExWdata

(* The exceptions each unit adds carry a cause of the core and a word.     *)
LEMMA BruExcType == ASSUME NEW e \in Decoded PROVE BruExc(e) \in SUBSET Exception
<1>1. e.exc \in SUBSET Exception
  BY DEF Decoded
<1>2. LsuExc(e) \in SUBSET Exception
  BY MemAddrWord DEF LsuExc, Exception, ExcNo
<1>3. [cause |-> InstAddrMisaligned, tval |-> BruTarget(e)] \in Exception
  BY BruTargetWord DEF Exception, ExcNo
<1>. QED BY <1>1, <1>2, <1>3 DEF BruExc

LEMMA CsrExcType ==
  ASSUME NEW e \in Decoded, NEW exc \in SUBSET Exception
  PROVE  CsrExc(e, exc) \in SUBSET Exception
<1>1. [cause |-> IllegalInst, tval |-> e.inst.bits] \in Exception
  BY DEF Decoded, Instr, Exception, ExcNo
<1>. QED BY <1>1 DEF CsrExc

(* Where a trap or a return sends the fetch unit is a word.                *)
LEMMA CsrTargetWord ==
  ASSUME CsrTypeOK, NEW e, NEW exc PROVE CsrTarget(e, exc) \in Value
<1>1. csr["mtvec"] \in Value /\ csr["mepc"] \in Value
  BY DEF CsrTypeOK, CsrReg
<1>2. AlignDown(csr["mtvec"], 4) \in Value
  BY <1>1, AlignDownWord
<1>3. 4 * IntNo(FirstInterrupt(e.intr)) \in Int
  <2>1. FirstInterrupt(e.intr) \in Interrupt
    BY DEF FirstInterrupt, Interrupt
  <2>2. IntNo(FirstInterrupt(e.intr)) \in 0..11
    BY <2>1 DEF IntNo, Interrupt
  <2>. QED BY <2>2
<1>4. \A n \in Int : Plus(AlignDown(csr["mtvec"], 4), n) \in Value
  BY <1>2, PlusWord, WordInt
<1>. QED BY <1>1, <1>2, <1>3, <1>4 DEF CsrTarget

(* A CSR write leaves every CSR a word, and so does a trap on top of it.   *)
LEMMA WrittenCsrType ==
  ASSUME CsrTypeOK, NEW e \in Decoded PROVE WrittenCsr(e) \in [CsrReg -> Value]
<1>1. WriteData(e) \in Value
  BY WriteDataWord
<1>. QED BY <1>1 DEF WrittenCsr, CsrTypeOK

LEMMA TrapCsrType ==
  ASSUME CsrTypeOK, NEW e \in Decoded, NEW exc \in SUBSET Exception, CsrTrap(e, exc)
  PROVE  TrapCsr(e, exc) \in [CsrReg -> Value]
<1>. DEFINE S == CsrExc(e, exc)
<1>. DEFINE x == FirstException(S)
<1>. DEFINE tval == IF e.intr # {} THEN 0 ELSE x.tval
<1>. DEFINE cause == IF e.intr # {} THEN InterruptBit + IntNo(FirstInterrupt(e.intr))
                     ELSE x.cause
<1>1. S \in SUBSET Exception
  BY CsrExcType
<1>2. CASE e.intr # {}
  <2>1. FirstInterrupt(e.intr) \in Interrupt
    BY DEF FirstInterrupt, Interrupt
  <2>2. InterruptBit + IntNo(FirstInterrupt(e.intr)) \in Value
    BY <2>1, InterruptCauseWord
  <2>. QED BY <1>2, <2>2, ModulusFacts, WrittenCsrType DEF TrapCsr, CsrReg, Decoded
<1>3. CASE e.intr = {}
  <2>1. S # {}
    BY <1>3 DEF CsrTrap, HasExc
  <2>2. x \in Exception
    BY <1>1, <2>1, FirstExceptionIn
  <2>. HIDE DEF x
  <2>3. x.tval \in Value /\ x.cause \in ExcNo
    BY <2>2 DEF Exception
  <2>4. x.cause \in Value
    BY <2>3, ModulusFacts DEF ExcNo, InstAddrMisaligned, IllegalInst, BreakPoint,
       LoadAddrMisaligned, StoreAddrMisaligned, EcallU, EcallM
  <2>5. TrapCsr(e, exc) = [WrittenCsr(e) EXCEPT !["mtval"] = x.tval,
                             !["mcause"] = x.cause, !["mepc"] = e.pc]
    BY <1>3 DEF TrapCsr, x
  <2>6. e.pc \in Value
    BY DEF Decoded
  <2>. QED BY <2>3, <2>4, <2>5, <2>6, WrittenCsrType DEF CsrReg
<1>. QED BY <1>2, <1>3

(* The CSR unit's clock edge keeps its registers well typed.               *)
LEMMA CsrTickType ==
  ASSUME CsrTypeOK, NEW e \in Decoded, NEW exc \in SUBSET Exception,
         NEW pins \in SUBSET Interrupt, CsrTick(e, exc, pins)
  PROVE  CsrTypeOK'
<1>1. csr' \in [CsrReg -> Value]
  BY TrapCsrType, WrittenCsrType DEF CsrTick
<1>2. mcounteren' \in Value
  <2>1. WriteData(e) \in Nat
    BY WriteDataWord, WordInt
  <2>2. Modulus \in Nat /\ Modulus >= 32
    BY ModulusFacts
  <2>3. McounterenSize \in Nat /\ McounterenSize > 0 /\ McounterenSize < Modulus
    BY <2>2 DEF McounterenSize
  <2>4. WriteData(e) % McounterenSize \in 0 .. McounterenSize - 1
    BY <2>1, <2>3
  <2>5. WriteData(e) % McounterenSize \in Value
    BY <2>2, <2>3, <2>4 DEF Value
  <2>. QED BY <2>5 DEF CsrTick, CsrTypeOK
<1>3. mstatus' \in Mstatus
  <2>1. TrapMstatus \in Mstatus
    <3>1. mstatus \in [mie: 0..1, mpie: 0..1, mpp: Mode, mprv: 0..1] /\ mode \in Mode
      BY DEF CsrTypeOK, Mstatus
    <3>2. 0 \in 0..1
      OBVIOUS
    <3>. QED BY <3>1, <3>2 DEF TrapMstatus, Mstatus
  <2>2. MretMstatus \in Mstatus
    BY DEF MretMstatus, CsrTypeOK, Mstatus, Mode
  <2>3. WriteMstatus(WriteData(e)) \in Mstatus
    BY WriteDataWord, WriteMstatusType
  <2>. QED BY <2>1, <2>2, <2>3 DEF CsrTick, CsrTypeOK
<1>4. mip' \subseteq Interrupt
  BY DEF CsrTick, LatchPins, CsrTypeOK, Interrupt
<1>5. mode' \in Mode
  BY DEF CsrTick, CsrTypeOK, Mstatus, Mode
<1>6. cycle' \in 0 .. CycleModulus - 1
  BY CycleModulusAssumption, ModulusFacts DEF CsrTick, CsrTypeOK
<1>. QED BY <1>1, <1>2, <1>3, <1>4, <1>5, <1>6 DEF CsrTypeOK

-----------------------------------------------------------------------------
(* The stages. *)

(* Where the fetch unit goes next is a word.                               *)
LEMMA TargetWord == ASSUME TypeOK PROVE Target \in Value
<1>1. ex \in Decoded /\ CsrTypeOK
  BY DEF TypeOK
<1>. QED BY <1>1, CsrTargetWord, BruTargetWord DEF Target

LEMMA PcNextWord ==
  ASSUME TypeOK, NEW go \in BOOLEAN, NEW flush \in BOOLEAN
  PROVE  PcNext(go, flush) \in Value
<1>1. fpc \in Value
  BY DEF TypeOK
<1>2. Plus(fpc, 4) \in Value
  BY <1>1, PlusWord, WordInt
<1>. QED BY <1>1, <1>2, TargetWord DEF PcNext

(* An operand is a word, whichever stage it is forwarded from.             *)
LEMMA ForwardWord == ASSUME TypeOK, NEW r \in Reg PROVE Forward(r) \in Value
<1>1. /\ ExWdata(ex) \in Value /\ MemWdata \in Value /\ wb.wdata \in Value
      /\ regs[r] \in Value /\ 0 \in Value
  BY ExWdataWord, ModulusFacts DEF TypeOK, MemWdata, Executed
<1>. QED BY <1>1 DEF Forward

LEMMA DecodeExcType == ASSUME TypeOK PROVE DecodeExc \in SUBSET Exception
<1>1. id.pc \in Value /\ id.inst.bits \in Value /\ 0 \in Value
  BY ModulusFacts DEF TypeOK, Fetched, Instr
<1>. QED BY <1>1 DEF DecodeExc, Exception, ExcNo

(* What Decode hands to Execute is well typed.                             *)
LEMMA DecodeType == ASSUME TypeOK PROVE Decode \in Decoded
<1>1. /\ id.valid \in BOOLEAN /\ id.pc \in Value /\ id.inst \in Instr
      /\ id.inst.rs1 \in Reg /\ id.inst.rs2 \in Reg /\ id.inst.imm \in Value
  BY DEF TypeOK, Fetched, Instr
<1>2. DecodeSrc1 \in Value
  BY <1>1, ForwardWord, ModulusFacts DEF DecodeSrc1
<1>3. DecodeSrc2 \in Value
  BY <1>1, ForwardWord DEF DecodeSrc2
<1>4. DecodeIntr \in SUBSET Interrupt
  BY DEF DecodeIntr, InterruptRequest, TypeOK, CsrTypeOK
<1>. QED BY <1>1, <1>2, <1>3, <1>4, DecodeExcType DEF Decode, Decoded

(* The empty stage registers are well typed.                               *)
LEMMA EmptyStages ==
  FetchedZero \in Fetched /\ DecodedZero \in Decoded /\ ExecutedZero \in Executed
BY ConstantInstr, ModulusFacts
   DEF FetchedZero, DecodedZero, ExecutedZero, Fetched, Decoded, Executed

(* Every clock edge is one Tick of all stages, told by the control unit    *)
(* whether to stall and whether to flush.                                  *)
LEMMA NextIsTick ==
  ASSUME Next
  PROVE  \E pins \in Pins, go \in BOOLEAN, flush \in BOOLEAN :
           /\ Tick(go, flush, pins)
           /\ go <=> ~ExeConflict
           /\ flush <=> Flush
<1>1. PICK pins \in Pins : Advance(pins) \/ LoadUse(pins) \/ Redirect(pins)
  BY DEF Next
<1>2. CASE Advance(pins)
  <2>1. Tick(TRUE, FALSE, pins) /\ ~Flush /\ ~ExeConflict
    BY <1>2 DEF Advance
  <2>. QED BY <2>1, Zenon
<1>3. CASE LoadUse(pins)
  <2>1. Tick(FALSE, FALSE, pins) /\ ~Flush /\ ExeConflict
    BY <1>3 DEF LoadUse
  <2>. QED BY <2>1, Zenon
<1>4. CASE Redirect(pins)
  <2>1. Tick(~ExeConflict, TRUE, pins) /\ Flush
    BY <1>4 DEF Redirect
  <2>2. (~ExeConflict) \in BOOLEAN
    OBVIOUS
  <2>. QED BY <2>1, <2>2, Zenon
<1>. QED BY <1>1, <1>2, <1>3, <1>4

(* A clock edge keeps every pipeline register well typed.                  *)
LEMMA TickType ==
  ASSUME TypeOK, NEW pins \in Pins, NEW go \in BOOLEAN, NEW flush \in BOOLEAN,
         Tick(go, flush, pins)
  PROVE  TypeOK'
<1>. DEFINE pc_next == PcNext(go, flush)
<1>1. pc_next \in Value
  BY PcNextWord
<1>2. CsrTypeOK'
  <2>1. pins \in SUBSET Interrupt
    BY PinsAssumption
  <2>2. ex \in Decoded /\ BruExc(ex) \in SUBSET Exception /\ CsrTypeOK
    BY BruExcType DEF TypeOK
  <2>. QED BY <2>1, <2>2, CsrTickType DEF Tick
<1>3. imem' \in [Slot -> Instr]
  BY DEF TypeOK, Tick
<1>4. /\ fstate' \in {"boot", "send", "receive"}
      /\ fpc' \in Value
      /\ irdata' \in Instr
  <2>1. fstate' \in {"boot", "send", "receive"}
    BY DEF Tick, FetchTick, NextFetchState
  <2>2. fpc' \in Value
    BY <1>1 DEF Tick, FetchTick, TypeOK
  <2>3. pc_next % 4 = 0 => imem[pc_next] \in Instr
    BY <1>1 DEF TypeOK, Slot
  <2>4. irdata' \in Instr
    BY <2>3 DEF Tick, FetchTick, TypeOK
  <2>. QED BY <2>1, <2>2, <2>4
<1>5. id' \in Fetched
  <2>1. fpc \in Value /\ irdata \in Instr /\ id \in Fetched
    BY DEF TypeOK
  <2>2. [valid |-> fstate = "receive", pc |-> fpc,
         inst |-> IF pc_next % 4 = 0 THEN irdata ELSE NopInst] \in Fetched
    BY <2>1, ConstantInstr DEF Fetched
  <2>. QED BY <2>1, <2>2, EmptyStages DEF Tick, FetchTick
<1>6. ex' \in Decoded
  BY DecodeType, EmptyStages DEF Tick, DecodeTick
<1>7. dmem' \in [Cell -> Value] /\ drdata' \in Value
  <2>1. /\ AlignDown(MemAddr(ex), 8) \in Cell
        /\ ex.src2 \in Value
        /\ dmem \in [Cell -> Value]
        /\ drdata \in Value
    BY MemAddrWord, AlignDownCell DEF TypeOK, Decoded
  <2>2. dmem' \in [Cell -> Value]
    BY <2>1 DEF Tick, DataSramTick
  <2>. QED BY <2>1, <2>2 DEF Tick, DataSramTick
<1>8. mem' \in Executed
  <2>1. ex \in Decoded /\ ExWdata(ex) \in Value
    BY ExWdataWord DEF TypeOK
  <2>2. ExHasExc \in BOOLEAN
    BY DEF ExHasExc, HasExc
  <2>. QED BY <2>1, <2>2 DEF Tick, ExecuteTick, Executed, Decoded
<1>9. wb' \in Executed
  <2>1. mem \in Executed /\ MemWdata \in Value
    BY ModulusFacts DEF TypeOK, MemWdata, Executed
  <2>. QED BY <2>1 DEF Tick, MemoryTick, Executed
<1>10. regs' \in [Reg -> Value]
  <2>1. wb.wdata \in Value /\ regs \in [Reg -> Value]
    BY DEF TypeOK, Executed
  <2>. QED BY <2>1 DEF Tick, WriteBackTick
<1>. QED BY <1>2, <1>3, <1>4, <1>5, <1>6, <1>7, <1>8, <1>9, <1>10 DEF TypeOK

-----------------------------------------------------------------------------
(* Reset leaves the core in a well-typed state. *)
LEMMA InitType == ASSUME Init PROVE TypeOK
<1>1. 0 \in Value /\ PcInit \in Value
  BY ModulusFacts, PcInitAssumption DEF Slot
<1>2. CsrTypeOK
  BY <1>1, CycleModulusAssumption
     DEF Init, CsrInit, CsrTypeOK, Mstatus, MstatusReset, Mode
<1>3. fpc \in Value
  BY <1>1, MinusWord, WordInt DEF Init
<1>4. imem \in [Slot -> Instr]
  BY ProgramAssumption DEF Init
<1>5. dmem \in [Cell -> Value] /\ regs \in [Reg -> Value] /\ drdata \in Value
  BY <1>1 DEF Init
<1>6. /\ id \in Fetched /\ ex \in Decoded /\ mem \in Executed /\ wb \in Executed
      /\ irdata \in Instr /\ fstate \in {"boot", "send", "receive"}
  BY EmptyStages, ConstantInstr DEF Init
<1>. QED BY <1>2, <1>3, <1>4, <1>5, <1>6 DEF TypeOK

(* Every register of the core, memory word and operand is a machine word   *)
(* and every exception has a cause the core defines, for every program and *)
(* every sequence of interrupt pins.                                       *)
THEOREM TypeCorrect == Spec => []TypeOK
<1>1. ASSUME TypeOK, [Next]_vars PROVE TypeOK'
  <2>1. CASE Next
    BY <1>1, <2>1, NextIsTick, TickType
  <2>2. CASE UNCHANGED vars
    BY <1>1, <2>2 DEF vars, csrVars, pipeVars, TypeOK, CsrTypeOK
  <2>. QED BY <1>1, <2>1, <2>2
<1>. QED BY InitType, <1>1, PTL DEF Spec

-----------------------------------------------------------------------------
(* Privilege. *)

(* A clock edge keeps MPP in user mode while the core is in user mode.     *)
LEMMA UserStep ==
  ASSUME TypeOK, UserStaysUser, NEW pins \in Pins, NEW go \in BOOLEAN,
         NEW flush \in BOOLEAN, Tick(go, flush, pins)
  PROVE  UserStaysUser' /\ (mode = U /\ mode' = M => CsrTrap(ex, BruExc(ex)))
<1>. DEFINE trap == CsrTrap(ex, BruExc(ex))
            mret == CsrMret(ex, BruExc(ex))
            write == CsrWen(ex) /\ ex.inst.csr = "mstatus"
<1>1. mode' = IF trap THEN M ELSE IF mret THEN mstatus.mpp ELSE mode
  BY DEF Tick, CsrTick
<1>2. mstatus' = IF trap THEN TrapMstatus ELSE IF mret THEN MretMstatus
                 ELSE IF write THEN WriteMstatus(WriteData(ex)) ELSE mstatus
  BY DEF Tick, CsrTick
<1>3. U # M
  BY DEF U, M
<1>4. CASE trap
  BY <1>1, <1>3, <1>4 DEF UserStaysUser
<1>5. CASE ~trap /\ mret
  <2>1. mode' = mstatus.mpp /\ mstatus'.mpp = U
    BY <1>1, <1>2, <1>5 DEF MretMstatus
  <2>. QED BY <1>3, <2>1 DEF UserStaysUser
<1>6. CASE ~trap /\ ~mret
  <2>1. mode' = mode
    BY <1>1, <1>6
  <2>2. mode = U => ~write
    BY DEF CsrWen, IllegalAccess, AddrPrivilege, U
  <2>3. mode = U => mstatus' = mstatus
    BY <1>2, <1>6, <2>2
  <2>. QED BY <1>3, <2>1, <2>3 DEF UserStaysUser
<1>. QED BY <1>4, <1>5, <1>6

(* In user mode MPP is user mode, whatever CSR instructions and returns    *)
(* the program executes.                                                   *)
THEOREM UserMppIsUser == Spec => []UserStaysUser
<1>1. Init => UserStaysUser
  BY DEF Init, CsrInit, UserStaysUser, MstatusReset
<1>2. ASSUME TypeOK, UserStaysUser, [Next]_vars PROVE UserStaysUser'
  <2>1. CASE Next
    BY <1>2, <2>1, NextIsTick, UserStep
  <2>2. CASE UNCHANGED vars
    BY <1>2, <2>2 DEF vars, csrVars, UserStaysUser
  <2>. QED BY <1>2, <2>1, <2>2
<1>. QED BY <1>1, <1>2, TypeCorrect, PTL DEF Spec

(* The core enters machine mode from user mode by a trap alone.            *)
THEOREM PrivilegeRaisedByTrap == Spec => OnlyTrapsRaisePrivilege
<1>1. ASSUME TypeOK, UserStaysUser, [Next]_vars
      PROVE  [mode = U /\ mode' = M => CsrTrap(ex, BruExc(ex))]_vars
  <2>1. CASE Next
    BY <1>1, <2>1, NextIsTick, UserStep
  <2>. QED BY <1>1, <2>1
<1>. QED BY <1>1, TypeCorrect, UserMppIsUser, PTL DEF Spec, OnlyTrapsRaisePrivilege

-----------------------------------------------------------------------------
(* The pipeline never drains.  The claim alone is not inductive: that the  *)
(* fetch unit has reached its receiving state once anything is in flight   *)
(* must be carried along.                                                  *)

Flowing == id.valid \/ ex.valid \/ mem.valid => fstate = "receive"

LEMMA FlowingStep ==
  ASSUME TypeOK, Flowing, NEW pins \in Pins, NEW go \in BOOLEAN,
         NEW flush \in BOOLEAN, Tick(go, flush, pins),
         go <=> ~ExeConflict, flush <=> Flush
  PROVE  Flowing' /\ CommitWithinThree'
<1>1. wb'.valid = mem.valid /\ mem'.valid = ex.valid
  BY DEF Tick, MemoryTick, ExecuteTick
<1>2. fstate # "boot" => fstate' = "receive"
  BY DEF Tick, FetchTick, NextFetchState
<1>3. ~ex.valid => ~ExeConflict /\ ~Flush
  BY DEF ExeConflict, Flush, BruBranch, CsrFlush, CsrTrap, CsrMret
<1>4. ~ex.valid /\ fstate = "receive" => id'.valid
  BY <1>3 DEF Tick, FetchTick
<1>5. id'.valid => id.valid \/ fstate = "receive"
  BY DEF Tick, FetchTick, FetchedZero
<1>6. ex'.valid => id.valid
  BY DEF Tick, DecodeTick, Decode, DecodedZero
<1>7. Flowing'
  BY <1>1, <1>2, <1>5, <1>6 DEF Flowing
<1>8. CommitWithinThree'
  BY <1>1, <1>4 DEF Flowing, CommitWithinThree
<1>. QED BY <1>7, <1>8

(* No mix of load stalls, branches, traps and returns ever drains the      *)
(* pipeline.                                                               *)
THEOREM PipelineNeverDrains == Spec => []CommitWithinThree
<1>1. Init => Flowing /\ CommitWithinThree
  BY DEF Init, FetchedZero, DecodedZero, ExecutedZero, Flowing, CommitWithinThree
<1>2. ASSUME TypeOK, Flowing, CommitWithinThree, [Next]_vars
      PROVE  Flowing' /\ CommitWithinThree'
  <2>1. CASE Next
    BY <1>2, <2>1, NextIsTick, FlowingStep
  <2>2. CASE UNCHANGED vars
    BY <1>2, <2>2 DEF vars, pipeVars, Flowing, CommitWithinThree
  <2>. QED BY <1>2, <2>1, <2>2
<1>. QED BY <1>1, <1>2, TypeCorrect, PTL DEF Spec

-----------------------------------------------------------------------------
(* Interrupts. *)

(* Unless the instruction in Execute redirects the fetch or writes mstatus *)
(* or mie, what was requested before the edge still is after it.           *)
LEMMA RequestPersists ==
  ASSUME TypeOK, NEW pins \in Pins, NEW go \in BOOLEAN, NEW flush \in BOOLEAN,
         Tick(go, flush, pins), ~Flush,
         ~(ex.valid /\ ex.inst.op \in CsrOp /\ ex.inst.csr \in {"mstatus", "mie"})
  PROVE  InterruptRequest \subseteq InterruptRequest'
<1>1. ~CsrTrap(ex, BruExc(ex)) /\ ~CsrMret(ex, BruExc(ex))
  BY DEF Flush, CsrFlush
<1>2. CsrWen(ex) => ex.inst.csr \notin {"mstatus", "mie"}
  BY DEF CsrWen, CsrAccess
<1>3. mode' = mode /\ mstatus' = mstatus
  BY <1>1, <1>2 DEF Tick, CsrTick
<1>4. csr'["mie"] = csr["mie"]
  BY <1>1, <1>2 DEF Tick, CsrTick, WrittenCsr, TypeOK, CsrTypeOK
<1>5. mip \subseteq mip'
  BY DEF Tick, CsrTick, LatchPins
<1>. QED BY <1>3, <1>4, <1>5 DEF InterruptRequest

LEMMA StaleStep ==
  ASSUME TypeOK, NEW pins \in Pins, NEW go \in BOOLEAN,
         NEW flush \in BOOLEAN, Tick(go, flush, pins),
         go <=> ~ExeConflict, flush <=> Flush
  PROVE  StaleOnlyBehindCsrWrite'
<1>1. ex'.intr \subseteq InterruptRequest
  BY DEF Tick, DecodeTick, DecodedZero, Decode, DecodeIntr
<1>2. CASE Flush
  <2>1. ex'.intr = {}
    BY <1>2 DEF Tick, DecodeTick, DecodedZero
  <2>. QED BY <2>1 DEF StaleOnlyBehindCsrWrite
<1>3. CASE ~Flush /\ ex.valid /\ ex.inst.op \in CsrOp /\ ex.inst.csr \in {"mstatus", "mie"}
  <2>1. mem'.valid = ex.valid /\ mem'.inst = ex.inst
    BY DEF Tick, ExecuteTick
  <2>. QED BY <1>3, <2>1 DEF StaleOnlyBehindCsrWrite
<1>4. CASE ~Flush /\ ~(ex.valid /\ ex.inst.op \in CsrOp /\ ex.inst.csr \in {"mstatus", "mie"})
  <2>1. InterruptRequest \subseteq InterruptRequest'
    BY <1>4, RequestPersists
  <2>. QED BY <1>1, <2>1 DEF StaleOnlyBehindCsrWrite
<1>. QED BY <1>2, <1>3, <1>4

(* An interrupt that traps although it is no longer enabled was overtaken  *)
(* by a write of mstatus or mie one instruction ahead of it.               *)
THEOREM StaleInterruptBounded == Spec => []StaleOnlyBehindCsrWrite
<1>1. Init => StaleOnlyBehindCsrWrite
  BY DEF Init, DecodedZero, StaleOnlyBehindCsrWrite
<1>2. ASSUME TypeOK, StaleOnlyBehindCsrWrite, [Next]_vars PROVE StaleOnlyBehindCsrWrite'
  <2>1. CASE Next
    BY <1>2, <2>1, NextIsTick, StaleStep
  <2>2. CASE UNCHANGED vars
    BY <1>2, <2>2
       DEF vars, csrVars, pipeVars, StaleOnlyBehindCsrWrite, InterruptRequest
  <2>. QED BY <1>2, <2>1, <2>2
<1>. QED BY <1>1, <1>2, TypeCorrect, PTL DEF Spec

-----------------------------------------------------------------------------
(* Under the lockstep conventions. *)

(* What holds of the pipeline under Spec holds under ConformingSpec. *)
LEMMA ConformingTypes == ConformingSpec => [](TypeOK /\ Flowing)
<1>1. Init => TypeOK /\ Flowing
  BY InitType DEF Init, FetchedZero, DecodedZero, ExecutedZero, Flowing
<1>2. ASSUME TypeOK, Flowing, [Next /\ Conforms]_vars PROVE TypeOK' /\ Flowing'
  <2>1. CASE Next
    BY <1>2, <2>1, NextIsTick, TickType, FlowingStep
  <2>2. CASE UNCHANGED vars
    BY <1>2, <2>2 DEF vars, csrVars, pipeVars, TypeOK, CsrTypeOK, Flowing
  <2>. QED BY <1>2, <2>1, <2>2
<1>. QED BY <1>1, <1>2, PTL DEF ConformingSpec

-----------------------------------------------------------------------------
(* Program order. *)

LEMMA OrderStep ==
  ASSUME TypeOK, Flowing, InProgramOrder, NEW pins \in Pins, NEW go \in BOOLEAN,
         NEW flush \in BOOLEAN, Tick(go, flush, pins), flush <=> Flush
  PROVE  InProgramOrder'
<1>1. CASE flush \/ ~go
  <2>1. ~ex'.valid
    BY <1>1 DEF Tick, DecodeTick, DecodedZero
  <2>2. CASE flush
    BY <2>1, <2>2 DEF Tick, FetchTick, FetchedZero, InProgramOrder
  <2>3. CASE ~flush /\ ~go
    <3>1. id' = id
      BY <2>3 DEF Tick, FetchTick
    <3>2. id.valid => fpc' = fpc
      BY <2>3 DEF Tick, FetchTick, PcNext, Flowing
    <3>. QED BY <2>1, <3>1, <3>2 DEF InProgramOrder
  <2>. QED BY <1>1, <2>2, <2>3
<1>2. CASE ~flush /\ go
  <2>1. id'.valid = (fstate = "receive") /\ id'.pc = fpc
    BY <1>2 DEF Tick, FetchTick
  <2>2. ex'.valid = id.valid /\ ex'.pc = id.pc
    BY <1>2 DEF Tick, DecodeTick, Decode
  <2>3. fstate = "receive" => fpc' = Plus(fpc, 4)
    BY <1>2 DEF Tick, FetchTick, PcNext
  <2>. QED BY <2>1, <2>2, <2>3 DEF InProgramOrder, Flowing
<1>. QED BY <1>1, <1>2

(* Stalls and redirects neither skip nor repeat an instruction on the way  *)
(* from the fetch unit to Execute.                                         *)
THEOREM ProgramOrder == ConformingSpec => []InProgramOrder
<1>1. Init => InProgramOrder
  BY DEF Init, FetchedZero, DecodedZero, InProgramOrder
<1>2. ASSUME TypeOK /\ Flowing, InProgramOrder, [Next /\ Conforms]_vars
      PROVE  InProgramOrder'
  <2>1. CASE Next
    BY <1>2, <2>1, NextIsTick, OrderStep
  <2>2. CASE UNCHANGED vars
    BY <1>2, <2>2 DEF vars, pipeVars, InProgramOrder
  <2>. QED BY <1>2, <2>1, <2>2
<1>. QED BY <1>1, <1>2, ConformingTypes, PTL DEF ConformingSpec

-----------------------------------------------------------------------------
(* Operands.  Forwarding asks for reg_wen alone, neither for valid nor for *)
(* has_exc.  The strengthening says why that is enough: an empty slot      *)
(* writes no register but x0, and an instruction that trapped has no       *)
(* successor in Decode while it is in Memory.                              *)

Quiet(s) == s.valid \/ ~RegWen(s.inst) \/ s.inst.rd = 0

ForwardingSafe ==
  /\ fstate # "receive" => irdata = ZeroInst
  /\ Quiet(id) /\ Quiet(ex) /\ Quiet(mem) /\ Quiet(wb)
  /\ mem.valid /\ mem.has_exc => ~id.valid
  /\ regs[0] = 0

LEMMA ConstantsQuiet ==
  /\ ~RegWen(ZeroInst) /\ NopInst.rd = 0
  /\ Quiet(FetchedZero) /\ Quiet(DecodedZero) /\ Quiet(ExecutedZero)
<1>1. ~RegWen(ZeroInst)
  BY DEF RegWen, ZeroInst, TypeI, TypeR, TypeU, TypeJ, CsrOp, CsrWriteOp, CsrSetOp,
         CsrClearOp
<1>2. NopInst.rd = 0
  BY DEF NopInst, ZeroInst
<1>. QED BY <1>1, <1>2 DEF Quiet, FetchedZero, DecodedZero, ExecutedZero

LEMMA SafeStep ==
  ASSUME TypeOK, Flowing, ForwardingSafe, NEW pins \in Pins, NEW go \in BOOLEAN,
         NEW flush \in BOOLEAN, Tick(go, flush, pins), flush <=> Flush
  PROVE  ForwardingSafe'
<1>1. (fstate # "receive" => irdata = ZeroInst)'
  BY DEF Tick, FetchTick, NextFetchState, ForwardingSafe, TypeOK
<1>2. Quiet(id')
  <2>1. CASE flush
    BY <2>1, ConstantsQuiet DEF Tick, FetchTick
  <2>2. CASE ~flush /\ ~go
    BY <2>2 DEF Tick, FetchTick, ForwardingSafe
  <2>3. CASE ~flush /\ go
    <3>1. id'.valid = (fstate = "receive") /\ id'.inst \in {irdata, NopInst}
      BY <2>3 DEF Tick, FetchTick
    <3>. QED BY <3>1, ConstantsQuiet DEF Quiet, ForwardingSafe
  <2>. QED BY <2>1, <2>2, <2>3
<1>3. Quiet(ex')
  BY ConstantsQuiet DEF Tick, DecodeTick, Decode, Quiet, ForwardingSafe
<1>4. Quiet(mem') /\ Quiet(wb')
  BY DEF Tick, ExecuteTick, MemoryTick, Quiet, ForwardingSafe
<1>5. mem'.valid /\ mem'.has_exc => ~id'.valid
  <2>1. mem'.valid /\ mem'.has_exc => Flush
    BY DEF Tick, ExecuteTick, ExHasExc, Flush, CsrFlush, CsrTrap
  <2>. QED BY <2>1 DEF Tick, FetchTick, FetchedZero
<1>6. regs'[0] = 0
  BY DEF Tick, WriteBackTick, ForwardingSafe, TypeOK
<1>. QED BY <1>1, <1>2, <1>3, <1>4, <1>5, <1>6 DEF ForwardingSafe, Quiet

(* What Decode reads for a register is what the reference will find there  *)
(* when the instruction executes.                                          *)
LEMMA ForwardIsArch ==
  ASSUME TypeOK, ForwardingSafe, NEW pins \in Pins, NEW go \in BOOLEAN,
         NEW flush \in BOOLEAN, Tick(go, flush, pins),
         ~Flush, id.valid, NEW r \in Reg,
         ~(ex.valid /\ ex.inst.op = "ld" /\ ex.inst.rd # 0 /\ ex.inst.rd = r),
         ~(wb.has_exc /\ RegWen(wb.inst) /\ wb.inst.rd # 0 /\ wb.inst.rd = r)
  PROVE  Forward(r) = ArchGpr'[r]
<1>1. /\ mem'.valid = ex.valid /\ mem'.inst = ex.inst
      /\ mem'.wdata = ExWdata(ex) /\ mem'.has_exc = ExHasExc
  BY DEF Tick, ExecuteTick
<1>2. /\ wb'.valid = mem.valid /\ wb'.inst = mem.inst
      /\ wb'.wdata = MemWdata /\ wb'.has_exc = mem.has_exc
  BY DEF Tick, MemoryTick
<1>3. regs' = IF RegfileWen(wb) /\ wb.inst.rd # 0
              THEN [regs EXCEPT ![wb.inst.rd] = wb.wdata] ELSE regs
  BY DEF Tick, WriteBackTick
<1>4. ArchGpr'[r] = IF RegfileWen(mem') /\ ex.inst.rd = r /\ r # 0 THEN MemWdata'
                    ELSE IF RegfileWen(wb') /\ mem.inst.rd = r /\ r # 0 THEN MemWdata
                    ELSE regs'[r]
  BY <1>1, <1>2 DEF ArchGpr, RegfileWen
<1>5. CASE r = 0
  <2>1. regs'[0] = 0
    BY <1>3 DEF ForwardingSafe, TypeOK
  <2>. QED BY <1>4, <1>5, <2>1 DEF Forward
<1>6. CASE r # 0 /\ RegWen(ex.inst) /\ ex.inst.rd = r
  <2>1. ex.valid
    BY <1>6 DEF ForwardingSafe, Quiet
  <2>2. ~ExHasExc
    BY <2>1 DEF Flush, CsrFlush, CsrTrap, ExHasExc
  <2>3. RegfileWen(mem')
    BY <1>1, <1>6, <2>1, <2>2 DEF RegfileWen
  <2>4. ex.inst.op \notin FuLsu
    BY <1>6, <2>1 DEF FuLsu, RegWen, TypeI, TypeR, TypeU, TypeJ, CsrOp, CsrWriteOp,
       CsrSetOp, CsrClearOp
  <2>5. MemWdata' = ExWdata(ex)
    BY <1>1, <2>4 DEF MemWdata, FuLsu
  <2>. QED BY <1>4, <1>6, <2>3, <2>5 DEF Forward
<1>7. CASE r # 0 /\ ~(RegWen(ex.inst) /\ ex.inst.rd = r)
           /\ RegWen(mem.inst) /\ mem.inst.rd = r
  <2>1. mem.valid /\ ~mem.has_exc
    BY <1>7 DEF ForwardingSafe, Quiet
  <2>2. RegfileWen(wb') /\ ~(RegfileWen(mem') /\ ex.inst.rd = r)
    BY <1>1, <1>2, <1>7, <2>1 DEF RegfileWen
  <2>. QED BY <1>4, <1>7, <2>2 DEF Forward
<1>8. CASE r # 0 /\ ~(RegWen(ex.inst) /\ ex.inst.rd = r)
           /\ ~(RegWen(mem.inst) /\ mem.inst.rd = r)
  <2>1. ArchGpr'[r] = regs'[r]
    BY <1>1, <1>2, <1>4, <1>8 DEF RegfileWen
  <2>2. CASE RegWen(wb.inst) /\ wb.inst.rd = r
    <3>1. RegfileWen(wb)
      BY <1>8, <2>2 DEF ForwardingSafe, Quiet, RegfileWen, TypeOK, Executed
    <3>2. regs'[r] = wb.wdata
      BY <1>3, <1>8, <2>2, <3>1 DEF TypeOK
    <3>. QED BY <1>8, <2>1, <2>2, <3>2 DEF Forward
  <2>3. CASE ~(RegWen(wb.inst) /\ wb.inst.rd = r)
    <3>1. regs'[r] = regs[r]
      BY <1>3, <2>3 DEF RegfileWen, TypeOK
    <3>. QED BY <1>8, <2>1, <2>3, <3>1 DEF Forward
  <2>. QED BY <2>2, <2>3
<1>. QED BY <1>5, <1>6, <1>7, <1>8

LEMMA OperandsStep ==
  ASSUME TypeOK, ForwardingSafe, NEW pins \in Pins, NEW go \in BOOLEAN,
         NEW flush \in BOOLEAN, Tick(go, flush, pins),
         go <=> ~ExeConflict, flush <=> Flush, ~TrapForward
  PROVE  OperandsArchitectural'
<1>. SUFFICES ASSUME ex'.valid PROVE OperandsArchitectural'
  BY DEF OperandsArchitectural
<1>1. ~Flush /\ ~ExeConflict /\ id.valid /\ ex' = Decode
  BY DEF Tick, DecodeTick, DecodedZero, Decode
<1>2. ex'.inst = id.inst /\ ex'.src1 = DecodeSrc1 /\ ex'.src2 = DecodeSrc2
  BY <1>1 DEF Decode
<1>3. id.inst.rs1 \in Reg /\ id.inst.rs2 \in Reg
  BY DEF TypeOK, Fetched, Instr
<1>4. SrcOneRead(id.inst) => DecodeSrc1 = ArchGpr'[id.inst.rs1]
  <2>. SUFFICES ASSUME SrcOneRead(id.inst) PROVE DecodeSrc1 = ArchGpr'[id.inst.rs1]
    OBVIOUS
  <2>1. ~(ex.valid /\ ex.inst.op = "ld" /\ ex.inst.rd # 0 /\ ex.inst.rd = id.inst.rs1)
    BY <1>1 DEF ExeConflict
  <2>2. ~(wb.has_exc /\ RegWen(wb.inst) /\ wb.inst.rd # 0 /\ wb.inst.rd = id.inst.rs1)
    BY <1>1 DEF TrapForward
  <2>3. Forward(id.inst.rs1) = ArchGpr'[id.inst.rs1]
    BY <1>1, <1>3, <2>1, <2>2, ForwardIsArch
  <2>. QED BY <2>3 DEF DecodeSrc1
<1>5. SrcTwoRead(id.inst) => DecodeSrc2 = ArchGpr'[id.inst.rs2]
  <2>. SUFFICES ASSUME SrcTwoRead(id.inst) PROVE DecodeSrc2 = ArchGpr'[id.inst.rs2]
    OBVIOUS
  <2>1. ~(ex.valid /\ ex.inst.op = "ld" /\ ex.inst.rd # 0 /\ ex.inst.rd = id.inst.rs2)
    BY <1>1 DEF ExeConflict
  <2>2. ~(wb.has_exc /\ RegWen(wb.inst) /\ wb.inst.rd # 0 /\ wb.inst.rd = id.inst.rs2)
    BY <1>1 DEF TrapForward
  <2>3. Forward(id.inst.rs2) = ArchGpr'[id.inst.rs2]
    BY <1>1, <1>3, <2>1, <2>2, ForwardIsArch
  <2>. QED BY <2>3 DEF DecodeSrc2
<1>. QED BY <1>2, <1>4, <1>5 DEF OperandsArchitectural

LEMMA OperandsInvariant ==
  ASSUME "trap_forward" \in Conventions
  PROVE  ConformingSpec => [](ForwardingSafe /\ OperandsArchitectural)
<1>1. Init => ForwardingSafe /\ OperandsArchitectural
  BY ConstantsQuiet, RegAssumption DEF Init, DecodedZero, FetchedZero, ExecutedZero,
     ForwardingSafe, OperandsArchitectural
<1>2. ASSUME TypeOK /\ Flowing, ForwardingSafe, OperandsArchitectural,
             [Next /\ Conforms]_vars
      PROVE  ForwardingSafe' /\ OperandsArchitectural'
  <2>1. CASE Next /\ Conforms
    <3>1. ~TrapForward
      BY <2>1 DEF Conforms, Departs
    <3>. QED BY <1>2, <2>1, <3>1, NextIsTick, SafeStep, OperandsStep
  <2>2. CASE UNCHANGED vars
    BY <1>2, <2>2
       DEF vars, pipeVars, ForwardingSafe, Quiet, OperandsArchitectural, ArchGpr,
           RegfileWen, MemWdata
  <2>. QED BY <1>2, <2>1, <2>2
<1>. QED BY <1>1, <1>2, ConformingTypes, PTL DEF ConformingSpec

(* Where no instruction behind a trapping one reads its destination        *)
(* register, every operand in Execute is the architectural one: the        *)
(* forwarding network and the load stall together hide the pipeline.       *)
THEOREM OperandsCorrect ==
  ASSUME "trap_forward" \in Conventions
  PROVE  ConformingSpec => []OperandsArchitectural
<1>1. ConformingSpec => [](ForwardingSafe /\ OperandsArchitectural)
  BY OperandsInvariant
<1>. QED BY <1>1, PTL

-----------------------------------------------------------------------------
(* What an instruction carries through the pipeline. *)

(* What fetching at an address yields: a nop where no slot is. *)
InstAt(a) == IF a % 4 = 0 THEN imem[a] ELSE NopInst

(* The one exception Decode finds, in the mode the instruction runs in.    *)
DecodeException(pc, inst) ==
  IF pc % 4 # 0 THEN {[cause |-> InstAddrMisaligned, tval |-> pc]}
  ELSE IF inst.op = "illegal" THEN {[cause |-> IllegalInst, tval |-> inst.bits]}
  ELSE IF inst.op = "ebreak" THEN {[cause |-> BreakPoint, tval |-> 0]}
  ELSE IF inst.op = "ecall" THEN {[cause |-> mode + 8, tval |-> 0]}
  ELSE {}

FetchedFromImem ==
  /\ fstate = "receive" => (fpc % 4 = 0 => irdata = imem[fpc])
  /\ id.valid => id.inst = InstAt(id.pc)
  /\ ex.valid => ex.inst = InstAt(ex.pc)

DecodedRight ==
  ex.valid =>
    /\ ex.exc = DecodeException(ex.pc, ex.inst)
    /\ ex.inst.op = "lui" => ex.src1 = 0
    /\ ex.inst.op \in {"auipc", "jal"} => ex.src1 = ex.pc
    /\ ex.inst.op \in TypeI \cup TypeU \cup TypeJ => ex.src2 = ex.inst.imm

(* With no pin driven, no interrupt is ever pending; mcounteren, which the *)
(* reference lacks, stays 0.                                               *)
NothingPending == mip = {} /\ ex.intr = {} /\ mcounteren = 0

InFlight == FetchedFromImem /\ DecodedRight /\ NothingPending

Lockstepped ==
  /\ TypeOK /\ Flowing
  /\ InProgramOrder /\ ForwardingSafe /\ OperandsArchitectural
  /\ InFlight

-----------------------------------------------------------------------------
(* The reference core counts in the same words and reads the same          *)
(* instructions as the pipeline: both modules take them from Isa.          *)

LEMMA SameWords ==
  /\ Ref!Value = Value /\ Ref!Slot = Slot /\ Ref!Cell = Cell
  /\ \A a, b : /\ Ref!Plus(a, b) = Plus(a, b) /\ Ref!Minus(a, b) = Minus(a, b)
               /\ Ref!Times(a, b) = Times(a, b)
               /\ Ref!AlignDown(a, b) = AlignDown(a, b)
BY DEF Ref!Value, Value, Ref!Slot, Slot, Ref!Cell, Cell, Ref!Plus, Plus, Ref!Minus,
       Minus, Ref!Times, Times, Ref!AlignDown, AlignDown

LEMMA SameOps ==
  /\ Ref!CsrWriteOp = CsrWriteOp /\ Ref!CsrSetOp = CsrSetOp
  /\ Ref!CsrImmOp = CsrImmOp /\ Ref!CsrOp = CsrOp /\ Ref!TypeB = TypeB
  /\ Ref!Op = Op
BY DEF Ref!CsrWriteOp, CsrWriteOp, Ref!CsrSetOp, CsrSetOp, Ref!CsrClearOp, CsrClearOp,
       Ref!CsrImmOp, CsrImmOp, Ref!CsrOp, CsrOp, Ref!TypeB, TypeB, Ref!Op, Op,
       Ref!TypeR, TypeR, Ref!TypeI, TypeI, Ref!TypeU, TypeU, Ref!TypeJ, TypeJ,
       Ref!TypeS, TypeS, Ref!TypeN, TypeN

LEMMA SameCsrs ==
  /\ Ref!CsrReg = CsrReg /\ Ref!CsrAddr = CsrAddr /\ Ref!ReadOnlyAddr = ReadOnlyAddr
  /\ Ref!M = M /\ Ref!U = U /\ Ref!MstatusReset = MstatusReset
  /\ Ref!EncodeMstatus(mstatus) = EncodeMstatus(mstatus)
BY DEF Ref!CsrReg, CsrReg, Ref!CsrAddr, CsrAddr, Ref!ReadOnlyAddr, ReadOnlyAddr,
       Ref!M, M, Ref!U, U, Ref!MstatusReset, MstatusReset, Ref!EncodeMstatus,
       EncodeMstatus

LEMMA SameCauses ==
  /\ Ref!InstAddrMisaligned = InstAddrMisaligned /\ Ref!IllegalInst = IllegalInst
  /\ Ref!BreakPoint = BreakPoint /\ Ref!LoadAddrMisaligned = LoadAddrMisaligned
  /\ Ref!StoreAddrMisaligned = StoreAddrMisaligned
BY DEF Ref!InstAddrMisaligned, InstAddrMisaligned, Ref!IllegalInst, IllegalInst,
       Ref!BreakPoint, BreakPoint, Ref!LoadAddrMisaligned, LoadAddrMisaligned,
       Ref!StoreAddrMisaligned, StoreAddrMisaligned

LEMMA SameInstr == Ref!Instr = Instr
BY SameWords, SameOps, SameCsrs DEF Ref!Instr, Instr

LEMMA SameBranches ==
  ASSUME NEW op \in TypeB, NEW a, NEW b
  PROVE  Ref!BranchTaken(op, a, b) <=> BranchCondition(op, a, b)
<1>1. Ref!Signed(a) = Signed(a) /\ Ref!Signed(b) = Signed(b)
  BY DEF Ref!Signed, Signed
<1>. QED BY <1>1 DEF TypeB, Ref!BranchTaken, BranchCondition

-----------------------------------------------------------------------------
(* Arithmetic the two sides do differently. *)

(* The next pc is aligned exactly when the pc is.                          *)
LEMMA NextPcAligned ==
  ASSUME NEW a \in Value PROVE Plus(a, 4) % 4 = 0 <=> a % 4 = 0
<1>1. a \in Nat /\ a < Modulus /\ Modulus \in Nat /\ Modulus % 8 = 0 /\ Modulus >= 32
  BY ModulusFacts DEF Value
<1>2. (a + 4) % Modulus = IF a + 4 < Modulus THEN a + 4 ELSE a + 4 - Modulus
  BY <1>1
<1>3. Modulus % 4 = 0
  BY <1>1
<1>. QED BY <1>1, <1>2, <1>3 DEF Plus

LEMMA PlusZero == ASSUME NEW a \in Value PROVE Plus(a, 0) = a
BY ModulusFacts DEF Plus, Value

(* Clearing bit 0 of the immediate or of the sum is the same for an even   *)
(* base register.                                                          *)
LEMMA JalrEven ==
  ASSUME NEW a \in Value, NEW b \in Value, a % 2 = 0
  PROVE  Plus(a, AlignDown(b, 2)) = AlignDown(Plus(a, b), 2)
<1>1. /\ a \in Nat /\ b \in Nat /\ a < Modulus /\ b < Modulus
      /\ Modulus \in Nat /\ Modulus % 8 = 0 /\ Modulus >= 32
  BY ModulusFacts DEF Value
<1>2. Modulus % 2 = 0
  BY <1>1
<1>. DEFINE c == b - (b % 2)
<1>3. c \in Nat /\ c <= b /\ b <= c + 1 /\ c % 2 = 0
  BY <1>1
<1>4. (a + b) % Modulus = IF a + b < Modulus THEN a + b ELSE a + b - Modulus
  BY <1>1
<1>5. (a + c) % Modulus = IF a + c < Modulus THEN a + c ELSE a + c - Modulus
  BY <1>1, <1>3
<1>6. a + c < Modulus <=> a + b < Modulus
  BY <1>1, <1>2, <1>3
<1>. HIDE DEF c
<1>7. (a + b) % 2 = b - c /\ (a + b - Modulus) % 2 = b - c
  BY <1>1, <1>2, <1>3
<1>8. AlignDown((a + b) % Modulus, 2) = (a + c) % Modulus
  <2>1. CASE a + b < Modulus
    <3>1. (a + b) % Modulus = a + b /\ (a + c) % Modulus = a + c
      BY <1>4, <1>5, <1>6, <2>1
    <3>2. AlignDown(a + b, 2) = a + b - (b - c)
      BY <1>1, <1>3, <1>7 DEF AlignDown
    <3>3. a + b - (b - c) = a + c
      BY <1>1, <1>3
    <3>. QED BY <3>1, <3>2, <3>3
  <2>2. CASE ~(a + b < Modulus)
    <3>1. /\ (a + b) % Modulus = a + b - Modulus
          /\ (a + c) % Modulus = a + c - Modulus
      BY <1>4, <1>5, <1>6, <2>2
    <3>2. AlignDown(a + b - Modulus, 2) = a + b - Modulus - (b - c)
      BY <1>1, <1>3, <1>7 DEF AlignDown
    <3>3. a + b - Modulus - (b - c) = a + c - Modulus
      BY <1>1, <1>3
    <3>. QED BY <3>1, <3>2, <3>3
  <2>. QED BY <2>1, <2>2
<1>9. AlignDown(b, 2) = c
  BY DEF AlignDown, c
<1>. QED BY <1>8, <1>9 DEF Plus

(* An aligned address names its own cell.                                  *)
LEMMA AlignedCell ==
  ASSUME NEW a \in Value, a % 8 = 0 PROVE AlignDown(a, 8) = a
BY WordInt DEF AlignDown

(* Writing mstatus with what was read from it changes nothing.             *)
LEMMA MstatusRoundTrip ==
  ASSUME CsrTypeOK PROVE WriteMstatus(EncodeMstatus(mstatus)) = mstatus
<1>. DEFINE v == EncodeMstatus(mstatus)
<1>1. /\ mstatus \in [mie: 0..1, mpie: 0..1, mpp: Mode, mprv: 0..1]
      /\ mstatus.mie \in 0..1 /\ mstatus.mpie \in 0..1 /\ mstatus.mprv \in 0..1
      /\ mstatus.mpp \in {0, 3}
  BY DEF CsrTypeOK, Mstatus, Mode, U, M
<1>2. /\ v % 2 = mstatus.mie /\ (v \div 2) % 2 = mstatus.mpie
      /\ (v \div 4) % 4 = mstatus.mpp /\ (v \div 16) % 2 = mstatus.mprv
  BY <1>1 DEF EncodeMstatus
<1>. HIDE DEF v
<1>3. WriteMstatus(v) = [mie |-> mstatus.mie, mpie |-> mstatus.mpie,
                         mpp |-> mstatus.mpp, mprv |-> mstatus.mprv]
  BY <1>2 DEF WriteMstatus
<1>. QED BY <1>1, <1>3 DEF v

-----------------------------------------------------------------------------
(* What is in flight stays right over a clock edge. *)

(* How sim_mycpu.cpp runs the core: no pin is driven, and the program      *)
(* keeps to every convention.                                              *)
LockstepRun == Pins \subseteq {{}} /\ Convention \subseteq Conventions

(* Without a redirect the privilege mode stays.                            *)
LEMMA ModeStays ==
  ASSUME NEW pins, NEW go, NEW flush, Tick(go, flush, pins), ~Flush
  PROVE  mode' = mode
BY DEF Tick, CsrTick, Flush, CsrFlush

LEMMA FetchedStep ==
  ASSUME TypeOK, FetchedFromImem, NEW pins \in Pins, NEW go \in BOOLEAN,
         NEW flush \in BOOLEAN, Tick(go, flush, pins)
  PROVE  FetchedFromImem'
<1>1. imem' = imem
  BY DEF Tick
<1>2. (fstate = "receive" => (fpc % 4 = 0 => irdata = imem[fpc]))'
  <2>1. fstate' = "receive" => fstate # "boot"
    BY DEF Tick, FetchTick, NextFetchState
  <2>. QED BY <1>1, <2>1 DEF Tick, FetchTick
<1>3. (id.valid => id.inst = InstAt(id.pc))'
  <2>1. CASE flush
    BY <2>1 DEF Tick, FetchTick, FetchedZero
  <2>2. CASE ~flush /\ ~go
    BY <1>1, <2>2 DEF Tick, FetchTick, FetchedFromImem, InstAt
  <2>3. CASE ~flush /\ go
    <3>1. Plus(fpc, 4) % 4 = 0 <=> fpc % 4 = 0
      BY NextPcAligned DEF TypeOK
    <3>2. id' = [valid |-> fstate = "receive", pc |-> fpc,
                 inst |-> IF Plus(fpc, 4) % 4 = 0 THEN irdata ELSE NopInst]
      BY <2>3 DEF Tick, FetchTick, PcNext
    <3>. QED BY <1>1, <3>1, <3>2 DEF FetchedFromImem, InstAt
  <2>. QED BY <2>1, <2>2, <2>3
<1>4. (ex.valid => ex.inst = InstAt(ex.pc))'
  BY <1>1 DEF Tick, DecodeTick, Decode, DecodedZero, FetchedFromImem, InstAt
<1>. QED BY <1>2, <1>3, <1>4 DEF FetchedFromImem

(* No instruction has two exceptions when it leaves Decode.                *)
LEMMA OneDecodeException ==
  ASSUME id.valid, id.inst = InstAt(id.pc), mode \in Mode
  PROVE  DecodeExc = DecodeException(id.pc, id.inst)
<1>1. id.pc % 4 # 0 => id.inst.op = "addi"
  BY DEF InstAt, NopInst, ZeroInst
<1>2. (IF mode = M THEN EcallM ELSE EcallU) = mode + 8
  BY DEF Mode, M, U, EcallM, EcallU
<1>. QED BY <1>1, <1>2
     DEF DecodeExc, DecodeException, TypeN, InstAddrMisaligned, IllegalInst, BreakPoint,
         EcallM, EcallU

LEMMA DecodedStep ==
  ASSUME TypeOK, FetchedFromImem, NEW pins \in Pins, NEW go \in BOOLEAN,
         NEW flush \in BOOLEAN, Tick(go, flush, pins), flush <=> Flush
  PROVE  DecodedRight'
<1>. SUFFICES ASSUME ex'.valid PROVE DecodedRight'
  BY DEF DecodedRight
<1>1. ~Flush /\ id.valid /\ ex' = Decode
  BY DEF Tick, DecodeTick, DecodedZero, Decode
<1>2. /\ ex'.inst = id.inst /\ ex'.pc = id.pc /\ ex'.exc = DecodeExc
      /\ ex'.src1 = DecodeSrc1 /\ ex'.src2 = DecodeSrc2
  BY <1>1 DEF Decode
<1>3. mode' = mode
  BY <1>1, ModeStays
<1>4. DecodeExc = DecodeException(id.pc, id.inst)
  BY <1>1, OneDecodeException DEF FetchedFromImem, TypeOK, CsrTypeOK
<1>5. DecodeException(id.pc, id.inst) = DecodeException(ex.pc, ex.inst)'
  BY <1>2, <1>3 DEF DecodeException
<1>6. id.inst.op = "lui" => DecodeSrc1 = 0
  BY DEF DecodeSrc1, SrcOneRead, TypeR, TypeI, TypeS, TypeB, CsrOp, CsrWriteOp,
         CsrSetOp, CsrClearOp
<1>7. id.inst.op \in {"auipc", "jal"} => DecodeSrc1 = id.pc
  BY DEF DecodeSrc1, SrcOneRead, TypeR, TypeI, TypeS, TypeB, CsrOp, CsrWriteOp,
         CsrSetOp, CsrClearOp
<1>8. id.inst.op \in TypeI \cup TypeU \cup TypeJ => DecodeSrc2 = id.inst.imm
  BY DEF DecodeSrc2, SrcTwoRead, TypeR, TypeI, TypeS, TypeB, TypeU, TypeJ, CsrOp,
         CsrWriteOp, CsrSetOp, CsrClearOp
<1>. QED BY <1>2, <1>4, <1>5, <1>6, <1>7, <1>8 DEF DecodedRight

LEMMA PendingStep ==
  ASSUME LockstepRun, TypeOK, NothingPending, NEW pins \in Pins, NEW go \in BOOLEAN,
         NEW flush \in BOOLEAN, Tick(go, flush, pins), Conforms
  PROVE  NothingPending'
<1>1. mip' = {}
  <2>1. pins = {}
    BY DEF LockstepRun
  <2>. QED BY <2>1 DEF Tick, CsrTick, LatchPins, NothingPending
<1>2. ex'.intr = {}
  BY DEF Tick, DecodeTick, DecodedZero, Decode, DecodeIntr, InterruptRequest,
         NothingPending
<1>3. mcounteren' = 0
  <2>1. CASE CsrWen(ex) /\ ex.inst.csr = "mcounteren"
    <3>1. WriteData(ex) = 0
      BY <2>1 DEF LockstepRun, Convention, Conforms, Departs, CsrWen
    <3>2. McounterenSize \in Nat /\ McounterenSize > 0
      BY ModulusFacts DEF McounterenSize
    <3>3. 0 % McounterenSize = 0
      BY <3>2
    <3>. QED BY <2>1, <3>1, <3>3 DEF Tick, CsrTick
  <2>2. CASE ~(CsrWen(ex) /\ ex.inst.csr = "mcounteren")
    BY <2>2 DEF Tick, CsrTick, NothingPending
  <2>. QED BY <2>1, <2>2
<1>. QED BY <1>1, <1>2, <1>3 DEF NothingPending

(* The whole invariant over a clock edge.                                  *)
LEMMA LockstepInvariant ==
  ASSUME LockstepRun PROVE ConformingSpec => []Lockstepped
<1>1. Init => FetchedFromImem /\ DecodedRight /\ NothingPending
  BY DEF Init, CsrInit, FetchedZero, DecodedZero, FetchedFromImem, DecodedRight,
         NothingPending
<1>2. ASSUME TypeOK, FetchedFromImem, NothingPending, [Next /\ Conforms]_vars, DecodedRight
      PROVE  FetchedFromImem' /\ DecodedRight' /\ NothingPending'
  <2>1. CASE Next /\ Conforms
    BY <1>2, <2>1, NextIsTick, FetchedStep, DecodedStep, PendingStep
  <2>2. CASE UNCHANGED vars
    BY <1>2, <2>2
       DEF vars, pipeVars, csrVars, FetchedFromImem, InstAt, DecodedRight,
           DecodeException, NothingPending
  <2>. QED BY <1>2, <2>1, <2>2
<1>3. "trap_forward" \in Conventions
  BY DEF LockstepRun, Convention
<1>4. ConformingSpec => [](ForwardingSafe /\ OperandsArchitectural)
  BY <1>3, OperandsInvariant
<1>. QED BY <1>1, <1>2, <1>4, ConformingTypes, ProgramOrder, PTL
     DEF ConformingSpec, Lockstepped, InFlight

-----------------------------------------------------------------------------
(* One clock edge seen through the refinement mapping. *)

Edge(go, flush, pins) == Tick(go, flush, pins) /\ (go <=> ~ExeConflict) /\ (flush <=> Flush)

(* The word the instruction in Execute owes the register file. *)
Result == IF ex.inst.op = "ld" THEN dmem[AlignDown(MemAddr(ex), 8)] ELSE ExWdata(ex)

(* The edge that ends the Execute cycle of an instruction, architecturally.*)
Executes ==
  /\ ArchPc = ex.pc
  /\ ArchPc' = IF Flush THEN Target ELSE Plus(ex.pc, 4)
  /\ ArchGpr' = IF RegWen(ex.inst) /\ ~ExHasExc /\ ex.inst.rd # 0
                THEN [ArchGpr EXCEPT ![ex.inst.rd] = Result] ELSE ArchGpr
  /\ dmem' = IF ex.inst.op = "sd" /\ LsuExc(ex) = {}
             THEN [dmem EXCEPT ![AlignDown(MemAddr(ex), 8)] = ex.src2] ELSE dmem
  /\ \E pins \in Pins : CsrTick(ex, BruExc(ex), pins)
  /\ imem' = imem

(* What Memory, WriteBack and the register file hold together changes only *)
(* by what enters Memory.                                                  *)
LEMMA GprStep ==
  ASSUME TypeOK, NEW pins, NEW go, NEW flush, Tick(go, flush, pins)
  PROVE  ArchGpr' = IF ex.valid /\ RegWen(ex.inst) /\ ~ExHasExc /\ ex.inst.rd # 0
                    THEN [ArchGpr EXCEPT ![ex.inst.rd] = MemWdata'] ELSE ArchGpr
<1>1. /\ mem'.valid = ex.valid /\ mem'.inst = ex.inst /\ mem'.has_exc = ExHasExc
      /\ wb'.valid = mem.valid /\ wb'.inst = mem.inst
      /\ wb'.wdata = MemWdata /\ wb'.has_exc = mem.has_exc
  BY DEF Tick, ExecuteTick, MemoryTick
<1>2. regs' = IF RegfileWen(wb) /\ wb.inst.rd # 0
              THEN [regs EXCEPT ![wb.inst.rd] = wb.wdata] ELSE regs
  BY DEF Tick, WriteBackTick
<1>. DEFINE writes == ex.valid /\ RegWen(ex.inst) /\ ~ExHasExc
<1>3. RegfileWen(mem') <=> writes
  BY <1>1 DEF RegfileWen
<1>4. RegfileWen(wb') <=> RegfileWen(mem)
  BY <1>1 DEF RegfileWen
<1>5. ArchGpr' = [r \in Reg |->
         IF RegfileWen(mem') /\ mem'.inst.rd = r /\ r # 0 THEN MemWdata'
         ELSE IF RegfileWen(wb') /\ wb'.inst.rd = r /\ r # 0 THEN wb'.wdata
         ELSE regs'[r]]
  BY DEF ArchGpr, RegfileWen
<1>. HIDE DEF writes
<1>6. ArchGpr' = [r \in Reg |->
         IF writes /\ ex.inst.rd = r /\ r # 0 THEN MemWdata'
         ELSE IF RegfileWen(mem) /\ mem.inst.rd = r /\ r # 0 THEN MemWdata
         ELSE regs'[r]]
  BY <1>1, <1>3, <1>4, <1>5
<1>7. \A r \in Reg : regs'[r] = IF RegfileWen(wb) /\ wb.inst.rd = r /\ r # 0
                                THEN wb.wdata ELSE regs[r]
  BY <1>2 DEF TypeOK
<1>8. ArchGpr' = [r \in Reg |->
         IF writes /\ ex.inst.rd = r /\ r # 0 THEN MemWdata' ELSE ArchGpr[r]]
  BY <1>6, <1>7 DEF ArchGpr
<1>9. ex.inst.rd \in Reg
  BY DEF TypeOK, Decoded, Instr
<1>. QED BY <1>8, <1>9 DEF ArchGpr, writes

(* A cycle with nothing in Execute changes nothing architectural.          *)
LEMMA StutterStep ==
  ASSUME Lockstepped, NEW pins \in Pins, NEW go \in BOOLEAN, NEW flush \in BOOLEAN,
         Edge(go, flush, pins), ~ex.valid
  PROVE  UNCHANGED Ref!vars
<1>1. TypeOK /\ Tick(go, flush, pins)
  BY DEF Lockstepped, Edge
<1>2. ~Flush /\ ~ExeConflict
  BY DEF ExeConflict, Flush, BruBranch, CsrFlush, CsrTrap, CsrMret
<1>3. csr' = csr /\ mstatus' = mstatus /\ mode' = mode
  BY <1>1 DEF Tick, CsrTick, CsrTrap, CsrMret, CsrWen, CsrAccess, WrittenCsr
<1>4. dmem' = dmem /\ imem' = imem
  BY <1>1 DEF Tick, DataSramTick
<1>5. ArchGpr' = ArchGpr
  BY <1>1, GprStep
<1>6. ArchPc' = ArchPc
  <2>1. /\ fpc' = IF fstate = "boot" THEN fpc ELSE Plus(fpc, 4)
        /\ fstate' = IF fstate = "boot" THEN "send" ELSE "receive"
        /\ id'.valid = (fstate = "receive") /\ id'.pc = fpc
    BY <1>1, <1>2 DEF Edge, Tick, FetchTick, PcNext, NextFetchState
  <2>2. ex'.valid = id.valid /\ ex'.pc = id.pc
    BY <1>1, <1>2 DEF Edge, Tick, DecodeTick, Decode
  <2>3. fstate \in {"boot", "send", "receive"}
    BY <1>1 DEF TypeOK
  <2>4. id.valid => fstate = "receive"
    BY DEF Lockstepped, Flowing
  <2>5. CASE id.valid
    BY <2>2, <2>5 DEF ArchPc
  <2>6. CASE ~id.valid /\ fstate = "receive"
    BY <2>1, <2>2, <2>6 DEF ArchPc
  <2>7. CASE ~id.valid /\ fstate # "receive"
    <3>1. ~ex'.valid /\ ~id'.valid
      BY <2>1, <2>2, <2>7
    <3>2. ArchPc = Plus(fpc, 4)
      BY <2>7 DEF ArchPc
    <3>. QED BY <2>1, <2>3, <2>7, <3>1, <3>2 DEF ArchPc
  <2>. QED BY <2>5, <2>6, <2>7
<1>. QED BY <1>3, <1>4, <1>5, <1>6 DEF Ref!vars

(* A cycle with an instruction in Execute executes it, whatever stalls.    *)
LEMMA ExecuteStep ==
  ASSUME Lockstepped, NEW pins \in Pins, NEW go \in BOOLEAN, NEW flush \in BOOLEAN,
         Edge(go, flush, pins), ex.valid
  PROVE  Executes
<1>1. TypeOK /\ Tick(go, flush, pins)
  BY DEF Lockstepped, Edge
<1>2. id.valid /\ id.pc = Plus(ex.pc, 4) /\ fstate = "receive"
  BY DEF Lockstepped, InProgramOrder, Flowing
<1>3. ArchPc = ex.pc
  BY DEF ArchPc
<1>4. ArchPc' = IF Flush THEN Target ELSE Plus(ex.pc, 4)
  <2>1. CASE Flush
    <3>1. ~ex'.valid /\ ~id'.valid
      BY <1>1, <2>1 DEF Edge, Tick, DecodeTick, FetchTick, DecodedZero, FetchedZero
    <3>2. fstate' = "receive" /\ fpc' = Target
      BY <1>1, <1>2, <2>1 DEF Edge, Tick, FetchTick, NextFetchState, PcNext
    <3>. QED BY <2>1, <3>1, <3>2 DEF ArchPc
  <2>2. CASE ~Flush /\ go
    <3>1. ex'.valid = id.valid /\ ex'.pc = id.pc
      BY <1>1, <2>2 DEF Edge, Tick, DecodeTick, Decode
    <3>. QED BY <1>2, <2>2, <3>1 DEF ArchPc
  <2>3. CASE ~Flush /\ ~go
    <3>1. ~ex'.valid /\ id' = id
      BY <1>1, <2>3 DEF Edge, Tick, DecodeTick, FetchTick, DecodedZero
    <3>. QED BY <1>2, <2>3, <3>1 DEF ArchPc
  <2>. QED BY <2>1, <2>2, <2>3
<1>5. dmem' = IF ex.inst.op = "sd" /\ LsuExc(ex) = {}
              THEN [dmem EXCEPT ![AlignDown(MemAddr(ex), 8)] = ex.src2] ELSE dmem
  BY <1>1, <1>2 DEF Tick, DataSramTick
<1>6. ArchGpr' = IF RegWen(ex.inst) /\ ~ExHasExc /\ ex.inst.rd # 0
                 THEN [ArchGpr EXCEPT ![ex.inst.rd] = Result] ELSE ArchGpr
  <2>1. ASSUME RegWen(ex.inst), ~ExHasExc PROVE MemWdata' = Result
    <3>1. LsuExc(ex) = {}
      BY <2>1 DEF ExHasExc, HasExc, CsrExc, BruExc
    <3>2. mem'.inst = ex.inst /\ mem'.wdata = ExWdata(ex)
      BY <1>1 DEF Tick, ExecuteTick
    <3>3. CASE ex.inst.op = "ld"
      <4>1. dmem' = dmem /\ drdata' = dmem'[AlignDown(MemAddr(ex), 8)]
        BY <1>1, <1>2, <3>1, <3>3 DEF Tick, DataSramTick
      <4>. QED BY <3>2, <3>3, <4>1 DEF MemWdata, Result
    <3>4. CASE ex.inst.op # "ld"
      <4>1. ex.inst.op # "sd"
        BY <2>1 DEF RegWen, TypeI, TypeR, TypeU, TypeJ, CsrOp, CsrWriteOp, CsrSetOp,
           CsrClearOp
      <4>. QED BY <3>2, <3>4, <4>1 DEF MemWdata, Result, FuLsu
    <3>. QED BY <3>3, <3>4
  <2>. QED BY <1>1, <2>1, GprStep
<1>7. CsrTick(ex, BruExc(ex), pins) /\ imem' = imem
  BY <1>1 DEF Tick
<1>. QED BY <1>3, <1>4, <1>5, <1>6, <1>7 DEF Executes

-----------------------------------------------------------------------------
(* One lemma per opcode group of the reference. *)

Executing ==
  /\ LockstepRun /\ Lockstepped /\ Conforms
  /\ ex.valid /\ Executes
Running(op) == Executing /\ ex.pc % 4 = 0 /\ ex.inst.op = op

(* What the instruction in Execute is made of, and what the reference sees *)
(* of it.                                                                  *)
LEMMA RunningFacts ==
  ASSUME Executing
  PROVE  /\ ex.pc \in Value /\ ex.inst \in Instr /\ ex.src1 \in Value /\ ex.src2 \in Value
         /\ ex.inst.imm \in Value /\ ex.inst.rd \in Reg /\ ex.inst.rs1 \in Reg
         /\ ex.inst.rs2 \in Reg /\ ex.inst.op \in Op /\ ex.inst.csr \in CsrAddr
         /\ ex.inst.bits \in Value /\ CsrTypeOK /\ ex \in Decoded
         /\ ArchPc = ex.pc /\ imem' = imem
         /\ ex.intr = {} /\ ex.exc = DecodeException(ex.pc, ex.inst)
         /\ SrcOneRead(ex.inst) => ex.src1 = ArchGpr[ex.inst.rs1]
         /\ SrcTwoRead(ex.inst) => ex.src2 = ArchGpr[ex.inst.rs2]
         /\ ex.pc % 4 = 0 => Ref!inst = ex.inst
<1>1. ex \in Decoded /\ ex.inst \in Instr /\ CsrTypeOK
  BY DEF Executing, Lockstepped, TypeOK, Decoded
<1>2. ex.pc % 4 = 0 => imem[ex.pc] = ex.inst
  BY DEF Executing, Lockstepped, InFlight, FetchedFromImem, InstAt
<1>3. ArchPc = ex.pc /\ imem' = imem
  BY DEF Executing, Executes
<1>4. ex.intr = {} /\ ex.exc = DecodeException(ex.pc, ex.inst)
  BY DEF Executing, Lockstepped, InFlight, NothingPending, DecodedRight
<1>5. /\ SrcOneRead(ex.inst) => ex.src1 = ArchGpr[ex.inst.rs1]
      /\ SrcTwoRead(ex.inst) => ex.src2 = ArchGpr[ex.inst.rs2]
  BY DEF Executing, Lockstepped, OperandsArchitectural
<1>. QED BY <1>1, <1>2, <1>3, <1>4, <1>5 DEF Decoded, Instr, Ref!inst

LEMMA RunningFetched ==
  ASSUME NEW op, Running(op) PROVE Ref!Fetched(op) /\ Ref!inst = ex.inst
BY RunningFacts DEF Running, Ref!Fetched

(* The trap the RTL takes is the one the reference raises.                 *)
LEMMA TrapStep ==
  ASSUME Executing, NEW x, CsrExc(ex, BruExc(ex)) = {x}, WrittenCsr(ex) = csr,
         ~(ex.inst.op = "sd" /\ LsuExc(ex) = {})
  PROVE  Ref!RaiseTrap(x.cause, x.tval)
<1>. DEFINE exc == BruExc(ex)
<1>1. PICK pins \in Pins : CsrTick(ex, exc, pins)
  BY DEF Executing, Executes
<1>2. CsrTrap(ex, exc) /\ ExHasExc /\ CsrFlush(ex, exc) /\ Flush
  BY DEF Executing, CsrTrap, HasExc, ExHasExc, CsrFlush, Flush
<1>3. ex.intr = {} /\ ArchPc = ex.pc /\ imem' = imem
  BY RunningFacts
<1>4. FirstException({x}) = x /\ x \in Exception
  <2>1. {x} \in SUBSET Exception
    BY RunningFacts, BruExcType, CsrExcType
  <2>. QED BY <2>1, FirstExceptionIn
<1>5. csr' = [csr EXCEPT !["mtval"] = x.tval, !["mcause"] = x.cause, !["mepc"] = ArchPc]
  <2>1. csr' = TrapCsr(ex, exc)
    BY <1>1, <1>2 DEF CsrTick
  <2>. QED BY <1>3, <1>4, <2>1 DEF TrapCsr
<1>6. mstatus' = [mstatus EXCEPT !.mpp = mode, !.mpie = mstatus.mie, !.mie = 0]
  BY <1>1, <1>2 DEF CsrTick, TrapMstatus
<1>7. mode' = M
  BY <1>1, <1>2 DEF CsrTick
<1>8. ArchGpr' = ArchGpr /\ dmem' = dmem
  BY <1>2 DEF Executing, Executes
<1>9. ArchPc' = Plus(AlignDown(csr["mtvec"], 4),
                     IF csr["mtvec"] % 4 # 0 THEN 4 * x.cause ELSE 0)
  <2>. DEFINE base == AlignDown(csr["mtvec"], 4)
  <2>1. ArchPc' = base
    <3>1. ArchPc' = Target
      BY <1>2 DEF Executing, Executes
    <3>2. Target = base
      BY <1>2, <1>3 DEF Target, CsrTarget
    <3>. QED BY <3>1, <3>2
  <2>2. csr["mtvec"] % 4 # 0 => 4 * x.cause = 0
    <3>1. csr["mtvec"] % 4 # 0 => x.cause = InstAddrMisaligned
      <4>1. ~VectoredException
        BY DEF Executing, Conforms, Departs, LockstepRun, Convention
      <4>. QED BY <1>2, <4>1 DEF VectoredException
    <3>. QED BY <3>1 DEF InstAddrMisaligned
  <2>3. base \in Value
    <3>1. csr["mtvec"] \in Value
      BY RunningFacts DEF CsrTypeOK, CsrReg
    <3>. QED BY <3>1, AlignDownWord
  <2>. QED BY <2>1, <2>2, <2>3, PlusZero
<1>. QED BY <1>3, <1>5, <1>6, <1>7, <1>8, <1>9, SameWords, SameCsrs DEF Ref!RaiseTrap

(* An instruction that neither traps nor touches the CSR unit changes only *)
(* the pc, the registers and memory.                                       *)
LEMMA PlainStep ==
  ASSUME Executing, CsrExc(ex, BruExc(ex)) = {}, ex.inst.op \notin CsrOp \cup {"mret"}
  PROVE  /\ UNCHANGED <<csr, mstatus, mode, imem>>
         /\ ~ExHasExc
         /\ ArchPc' = IF BruBranch(ex) THEN BruTarget(ex) ELSE Plus(ex.pc, 4)
<1>. DEFINE exc == BruExc(ex)
<1>1. PICK pins \in Pins : CsrTick(ex, exc, pins)
  BY DEF Executing, Executes
<1>2. ~HasExc(ex, exc)
  BY RunningFacts DEF HasExc
<1>3. ~CsrTrap(ex, exc) /\ ~CsrMret(ex, exc) /\ ~CsrWen(ex) /\ ~CsrFlush(ex, exc)
  BY <1>2 DEF CsrTrap, CsrMret, CsrWen, CsrAccess, CsrFlush
<1>4. csr' = csr /\ mstatus' = mstatus /\ mode' = mode
  BY <1>1, <1>3 DEF CsrTick, WrittenCsr
<1>5. ArchPc' = IF BruBranch(ex) THEN BruTarget(ex) ELSE Plus(ex.pc, 4)
  BY <1>3 DEF Executing, Executes, Flush, Target
<1>. QED BY <1>2, <1>4, <1>5, RunningFacts DEF ExHasExc

(* Outside the jumps, branches, loads, stores and CSR accesses the         *)
(* exceptions are those Decode found.                                      *)
LEMMA OnlyDecodeExceptions ==
  ASSUME ex.inst.op \notin FuLsu \cup {"jal", "jalr"} \cup TypeB \cup CsrOp
  PROVE  CsrExc(ex, BruExc(ex)) = ex.exc /\ ~BruBranch(ex)
<1>1. LsuExc(ex) = {} /\ ~BruBranch(ex) /\ ~CsrAccess(ex)
  BY DEF LsuExc, BruBranch, CsrAccess
<1>. QED BY <1>1 DEF CsrExc, BruExc

LEMMA NoDecodeException ==
  ASSUME NEW op, Running(op), op \notin {"illegal", "ebreak", "ecall"}
  PROVE  ex.exc = {}
BY RunningFacts DEF Running, DecodeException

(* An instruction with a result and nothing else.                          *)
LEMMA RetireStep ==
  ASSUME Executing, CsrExc(ex, BruExc(ex)) = {}, ~BruBranch(ex), RegWen(ex.inst),
         ex.inst.op # "sd", ex.inst.op \notin CsrOp \cup {"mret"}
  PROVE  Ref!Retire(ex.inst.rd, Result)
<1>1. UNCHANGED <<csr, mstatus, mode, imem>> /\ ~ExHasExc /\ ArchPc' = Plus(ex.pc, 4)
  BY PlainStep
<1>2. dmem' = dmem
  BY DEF Executing, Executes
<1>3. ArchGpr' = IF ex.inst.rd = 0 THEN ArchGpr ELSE [ArchGpr EXCEPT ![ex.inst.rd] = Result]
  BY <1>1 DEF Executing, Executes
<1>. QED BY <1>1, <1>2, <1>3, RunningFacts, SameWords DEF Ref!Retire, Ref!SetGpr

LEMMA FetchMisalignedStep ==
  ASSUME Executing, ex.pc % 4 # 0 PROVE Ref!FetchMisaligned
<1>. DEFINE x == [cause |-> InstAddrMisaligned, tval |-> ex.pc]
<1>1. ex.inst.op = "addi"
  BY DEF Executing, Lockstepped, InFlight, FetchedFromImem, InstAt, NopInst, ZeroInst
<1>2. ex.inst.op \notin CsrOp
  BY <1>1 DEF CsrOp, CsrWriteOp, CsrSetOp, CsrClearOp
<1>3. CsrExc(ex, BruExc(ex)) = ex.exc
  BY <1>1, <1>2, OnlyDecodeExceptions DEF FuLsu, TypeB
<1>4. ex.exc = {x}
  BY RunningFacts DEF DecodeException
<1>5. WrittenCsr(ex) = csr
  BY <1>2 DEF WrittenCsr, CsrWen, CsrAccess
<1>6. Ref!RaiseTrap(x.cause, x.tval)
  BY <1>1, <1>3, <1>4, <1>5, TrapStep
<1>. QED BY <1>6, RunningFacts, SameCauses DEF Ref!FetchMisaligned

(* Decode's own exceptions. *)
LEMMA DecodeTrapStep ==
  ASSUME NEW op \in {"illegal", "ebreak", "ecall"}, Running(op)
  PROVE  Ref!Illegal \/ Ref!Ebreak \/ Ref!Ecall
<1>1. Executing /\ ex.inst.op = op /\ ex.pc % 4 = 0
  BY DEF Running
<1>2. ex.inst.op \notin CsrOp
  BY <1>1 DEF CsrOp, CsrWriteOp, CsrSetOp, CsrClearOp
<1>3. CsrExc(ex, BruExc(ex)) = ex.exc
  BY <1>1, <1>2, OnlyDecodeExceptions DEF FuLsu, TypeB
<1>4. WrittenCsr(ex) = csr
  BY <1>2 DEF WrittenCsr, CsrWen, CsrAccess
<1>5. ex.inst.op # "sd"
  BY <1>1
<1>6. ASSUME NEW cause, NEW tval, ex.exc = {[cause |-> cause, tval |-> tval]}
      PROVE  Ref!RaiseTrap(cause, tval)
  <2>. DEFINE x == [cause |-> cause, tval |-> tval]
  <2>1. Ref!RaiseTrap(x.cause, x.tval)
    BY <1>1, <1>3, <1>4, <1>5, <1>6, TrapStep
  <2>. QED BY <2>1
<1>7. Ref!Fetched(op) /\ Ref!inst = ex.inst
  BY RunningFetched
<1>8. CASE op = "illegal"
  <2>1. ex.exc = {[cause |-> IllegalInst, tval |-> ex.inst.bits]}
    BY <1>1, <1>8, RunningFacts DEF DecodeException
  <2>2. Ref!RaiseTrap(IllegalInst, ex.inst.bits)
    BY <2>1, <1>6
  <2>. QED BY <1>7, <1>8, <2>2, SameCauses DEF Ref!Illegal, Ref!RaiseIllegal
<1>9. CASE op = "ebreak"
  <2>1. ex.exc = {[cause |-> BreakPoint, tval |-> 0]}
    BY <1>1, <1>9, RunningFacts DEF DecodeException
  <2>2. Ref!RaiseTrap(BreakPoint, 0)
    BY <2>1, <1>6
  <2>. QED BY <1>7, <1>9, <2>2, SameCauses DEF Ref!Ebreak
<1>10. CASE op = "ecall"
  <2>1. ex.exc = {[cause |-> mode + 8, tval |-> 0]}
    BY <1>1, <1>10, RunningFacts DEF DecodeException
  <2>2. Ref!RaiseTrap(mode + 8, 0)
    BY <2>1, <1>6
  <2>. QED BY <1>7, <1>10, <2>2 DEF Ref!Ecall
<1>. QED BY <1>8, <1>9, <1>10

(* Results computed from registers, immediate and pc.                      *)
LEMMA ComputeStep ==
  ASSUME NEW op \in {"lui", "auipc", "addi", "add", "sub", "mul"}, Running(op)
  PROVE  Ref!Lui \/ Ref!Auipc \/ Ref!OpImm \/ Ref!Operate
<1>1. Executing /\ ex.inst.op = op /\ ex.pc % 4 = 0
  BY DEF Running
<1>2. ex.inst.op \notin CsrOp
  BY <1>1 DEF CsrOp, CsrWriteOp, CsrSetOp, CsrClearOp
<1>3. CsrExc(ex, BruExc(ex)) = {} /\ ~BruBranch(ex)
  BY <1>1, <1>2, OnlyDecodeExceptions, NoDecodeException DEF FuLsu, TypeB
<1>4. Ref!Fetched(op) /\ Ref!inst = ex.inst
  BY RunningFetched
<1>5. RegWen(ex.inst)
  BY <1>1 DEF RegWen, TypeI, TypeR, TypeU
<1>6. Ref!Retire(ex.inst.rd, Result)
  BY <1>1, <1>2, <1>3, <1>5, RetireStep
<1>7. Result = IF op = "mul" THEN Times(ex.src1, ex.src2)
               ELSE IF op = "sub" THEN Minus(ex.src1, ex.src2)
               ELSE Plus(ex.src1, ex.src2)
  BY <1>1, <1>2
     DEF Result, ExWdata, FuMdu, FuLsu, FuBru, FuCsr, TypeB, AluResult
<1>8. CASE op = "lui"
  <2>1. ex.src1 = 0 /\ ex.src2 = ex.inst.imm
    BY <1>1, <1>8 DEF Executing, Lockstepped, InFlight, DecodedRight, TypeU
  <2>2. Plus(0, ex.inst.imm) = ex.inst.imm
    BY <1>1, RunningFacts, ModulusFacts DEF Plus, Value
  <2>. QED BY <1>4, <1>6, <1>7, <1>8, <2>1, <2>2 DEF Ref!Lui
<1>9. CASE op = "auipc"
  <2>1. ex.src1 = ex.pc /\ ex.src2 = ex.inst.imm
    BY <1>1, <1>9 DEF Executing, Lockstepped, InFlight, DecodedRight, TypeU
  <2>2. Plus(ex.pc, ex.inst.imm) = Plus(ex.inst.imm, ex.pc)
    BY <1>1, RunningFacts, WordInt DEF Plus
  <2>. QED BY <1>1, <1>4, <1>6, <1>7, <1>9, <2>1, <2>2, RunningFacts, SameWords
       DEF Ref!Auipc
<1>10. CASE op = "addi"
  <2>1. ex.src1 = ArchGpr[ex.inst.rs1] /\ ex.src2 = ex.inst.imm
    <3>1. SrcOneRead(ex.inst) /\ ex.inst.op \in TypeI
      BY <1>1, <1>10 DEF SrcOneRead, TypeI
    <3>. QED BY <1>1, <3>1, RunningFacts
         DEF Executing, Lockstepped, InFlight, DecodedRight
  <2>. QED BY <1>4, <1>6, <1>7, <1>10, <2>1, SameWords DEF Ref!OpImm
<1>11. CASE op \in TypeR
  <2>1. ex.src1 = ArchGpr[ex.inst.rs1] /\ ex.src2 = ArchGpr[ex.inst.rs2]
    <3>1. SrcOneRead(ex.inst) /\ SrcTwoRead(ex.inst)
      BY <1>1, <1>11 DEF SrcOneRead, SrcTwoRead
    <3>. QED BY <1>1, <3>1, RunningFacts
  <2>2. op \in {"add", "sub", "mul"}
    BY <1>11 DEF TypeR
  <2>. QED BY <1>4, <1>6, <1>7, <2>1, <2>2, SameWords DEF Ref!Operate
<1>. QED BY <1>8, <1>9, <1>10, <1>11 DEF TypeR

LEMMA FenceStep == ASSUME Running("fence") PROVE Ref!Fence
<1>1. Executing /\ ex.inst.op = "fence"
  BY DEF Running
<1>2. ex.inst.op \notin CsrOp /\ ~RegWen(ex.inst)
  BY <1>1 DEF RegWen, TypeI, TypeR, TypeU, TypeJ, CsrOp, CsrWriteOp, CsrSetOp, CsrClearOp
<1>3. CsrExc(ex, BruExc(ex)) = {} /\ ~BruBranch(ex)
  BY <1>1, <1>2, OnlyDecodeExceptions, NoDecodeException DEF FuLsu, TypeB
<1>4. UNCHANGED <<csr, mstatus, mode, imem>> /\ ArchPc' = Plus(ex.pc, 4)
  BY <1>1, <1>2, <1>3, PlainStep
<1>5. ArchGpr' = ArchGpr /\ dmem' = dmem
  BY <1>1, <1>2 DEF Executing, Executes
<1>. QED BY <1>1, <1>4, <1>5, RunningFacts, RunningFetched, SameWords
     DEF Ref!Fence, Ref!RetireNoWrite

(* Loads and stores, aligned or not.                                       *)
LEMMA LoadStoreStep ==
  ASSUME NEW op \in {"ld", "sd"}, Running(op) PROVE Ref!Load \/ Ref!Store
<1>1. Executing /\ ex.inst.op = op /\ ex.pc % 4 = 0
  BY DEF Running
<1>2. ex.inst.op \notin CsrOp
  BY <1>1 DEF CsrOp, CsrWriteOp, CsrSetOp, CsrClearOp
<1>3. ~BruBranch(ex) /\ ~CsrAccess(ex) /\ WrittenCsr(ex) = csr
  BY <1>1, <1>2 DEF BruBranch, TypeB, CsrAccess, WrittenCsr, CsrWen
<1>4. CsrExc(ex, BruExc(ex)) = LsuExc(ex)
  BY <1>1, <1>3, NoDecodeException DEF CsrExc, BruExc
<1>5. Ref!Fetched(op) /\ Ref!inst = ex.inst
  BY RunningFetched
<1>6. Ref!LoadStoreAddr = MemAddr(ex)
  <2>1. SrcOneRead(ex.inst)
    BY <1>1 DEF SrcOneRead, TypeI, TypeS
  <2>. QED BY <1>1, <1>5, <2>1, RunningFacts, SameWords DEF Ref!LoadStoreAddr, MemAddr
<1>7. CASE MemAddr(ex) % 8 # 0
  <2>. DEFINE x == [cause |-> IF op = "ld" THEN LoadAddrMisaligned ELSE StoreAddrMisaligned,
                    tval |-> MemAddr(ex)]
  <2>1. LsuExc(ex) = {x}
    BY <1>1, <1>7 DEF LsuExc, FuLsu, Executing
  <2>2. Ref!RaiseTrap(x.cause, x.tval)
    BY <1>1, <1>3, <1>4, <2>1, TrapStep
  <2>. QED BY <1>5, <1>6, <1>7, <2>2, SameCauses DEF Ref!Load, Ref!Store
<1>8. CASE MemAddr(ex) % 8 = 0
  <2>1. LsuExc(ex) = {} /\ CsrExc(ex, BruExc(ex)) = {}
    BY <1>4, <1>8 DEF LsuExc
  <2>2. AlignDown(MemAddr(ex), 8) = MemAddr(ex)
    BY <1>1, <1>8, RunningFacts, MemAddrWord, AlignedCell
  <2>3. CASE op = "ld"
    <3>1. RegWen(ex.inst)
      BY <1>1, <2>3 DEF RegWen, TypeI
    <3>2. Ref!Retire(ex.inst.rd, dmem[MemAddr(ex)])
      BY <1>1, <1>2, <1>3, <2>1, <2>2, <2>3, <3>1, RetireStep DEF Result
    <3>. QED BY <1>5, <1>6, <1>8, <2>3, <3>2 DEF Ref!Load
  <2>4. CASE op = "sd"
    <3>1. ~RegWen(ex.inst) /\ SrcTwoRead(ex.inst)
      BY <1>1, <2>4 DEF RegWen, SrcTwoRead, TypeI, TypeR, TypeU, TypeJ, TypeS, CsrOp,
         CsrWriteOp, CsrSetOp, CsrClearOp
    <3>2. UNCHANGED <<csr, mstatus, mode, imem>> /\ ArchPc' = Plus(ex.pc, 4)
      BY <1>1, <1>2, <1>3, <2>1, <2>4, PlainStep
    <3>3. ArchGpr' = ArchGpr
      BY <1>1, <3>1 DEF Executing, Executes
    <3>4. dmem' = [dmem EXCEPT ![MemAddr(ex)] = ex.src2]
      BY <1>1, <2>1, <2>2, <2>4 DEF Executing, Executes
    <3>5. ex.src2 = ArchGpr[ex.inst.rs2]
      BY <1>1, <3>1, RunningFacts
    <3>. QED BY <1>1, <1>5, <1>6, <1>8, <2>4, <3>2, <3>3, <3>4, <3>5, RunningFacts,
             SameWords DEF Ref!Store
  <2>. QED BY <2>3, <2>4
<1>. QED BY <1>7, <1>8

(* Jumps and taken branches: a misaligned target traps before it links.    *)
LEMMA TakenStep ==
  ASSUME NEW op \in {"jal", "jalr"} \cup TypeB, Running(op), BruBranch(ex)
  PROVE  /\ BruTarget(ex) % 4 # 0 => Ref!RaiseTrap(InstAddrMisaligned, BruTarget(ex))
         /\ BruTarget(ex) % 4 = 0 => /\ UNCHANGED <<csr, mstatus, mode, imem, dmem>>
                                     /\ ~ExHasExc /\ ArchPc' = BruTarget(ex)
<1>1. Executing /\ ex.inst.op = op
  BY DEF Running
<1>2. ex.inst.op \notin CsrOp \cup {"mret"} /\ ex.inst.op \notin FuLsu
  BY <1>1 DEF CsrOp, CsrWriteOp, CsrSetOp, CsrClearOp, TypeB, FuLsu
<1>3. LsuExc(ex) = {} /\ ~CsrAccess(ex) /\ WrittenCsr(ex) = csr
  BY <1>2 DEF LsuExc, CsrAccess, WrittenCsr, CsrWen
<1>4. ex.exc = {}
  <2>1. op \notin {"illegal", "ebreak", "ecall"}
    BY DEF TypeB
  <2>. QED BY <2>1, NoDecodeException
<1>5. CASE BruTarget(ex) % 4 # 0
  <2>. DEFINE x == [cause |-> InstAddrMisaligned, tval |-> BruTarget(ex)]
  <2>1. CsrExc(ex, BruExc(ex)) = {x}
    BY <1>3, <1>4, <1>5 DEF CsrExc, BruExc
  <2>2. Ref!RaiseTrap(x.cause, x.tval)
    BY <1>1, <1>2, <1>3, <2>1, TrapStep DEF FuLsu
  <2>. QED BY <1>5, <2>2
<1>6. CASE BruTarget(ex) % 4 = 0
  <2>1. CsrExc(ex, BruExc(ex)) = {}
    BY <1>3, <1>4, <1>6 DEF CsrExc, BruExc
  <2>2. UNCHANGED <<csr, mstatus, mode, imem>> /\ ~ExHasExc /\ ArchPc' = BruTarget(ex)
    BY <1>1, <1>2, <2>1, PlainStep
  <2>3. dmem' = dmem
    BY <1>1, <1>2 DEF Executing, Executes, FuLsu
  <2>. QED BY <1>6, <2>2, <2>3
<1>. QED BY <1>5, <1>6

LEMMA JumpStep ==
  ASSUME NEW op \in {"jal", "jalr"}, Running(op) PROVE Ref!Jal \/ Ref!Jalr
<1>1. Executing /\ ex.inst.op = op /\ ex.valid
  BY DEF Running, Executing
<1>2. BruBranch(ex)
  BY <1>1 DEF BruBranch
<1>3. Ref!Fetched(op) /\ Ref!inst = ex.inst
  BY RunningFetched
<1>4. Ref!JumpTo(BruTarget(ex))
  <2>1. CASE BruTarget(ex) % 4 # 0
    BY <1>2, <2>1, TakenStep, SameCauses DEF Ref!JumpTo
  <2>2. CASE BruTarget(ex) % 4 = 0
    <3>1. /\ UNCHANGED <<csr, mstatus, mode, imem, dmem>>
          /\ ~ExHasExc /\ ArchPc' = BruTarget(ex)
      BY <1>2, <2>2, TakenStep
    <3>2. RegWen(ex.inst) /\ Result = Plus(ex.pc, 4)
      <4>1. ex.inst.op \in FuBru /\ ex.inst.op \notin FuMdu \cup FuLsu \cup FuCsr
        BY <1>1 DEF FuMdu, FuLsu, FuBru, FuCsr, CsrOp, CsrWriteOp, CsrSetOp, CsrClearOp
      <4>. QED BY <1>1, <4>1 DEF RegWen, TypeI, TypeJ, Result, ExWdata, FuLsu
    <3>3. ArchGpr' = IF ex.inst.rd = 0 THEN ArchGpr
                     ELSE [ArchGpr EXCEPT ![ex.inst.rd] = Plus(ex.pc, 4)]
      BY <1>1, <3>1, <3>2 DEF Executing, Executes
    <3>. QED BY <1>1, <1>3, <2>2, <3>1, <3>3, RunningFacts, SameWords
         DEF Ref!JumpTo, Ref!SetGpr
  <2>. QED BY <2>1, <2>2
<1>5. CASE op = "jal"
  <2>1. BruTarget(ex) = Plus(ex.pc, ex.inst.imm)
    BY <1>1, <1>5 DEF BruTarget
  <2>. QED BY <1>1, <1>3, <1>4, <1>5, <2>1, RunningFacts, SameWords DEF Ref!Jal
<1>6. CASE op = "jalr"
  <2>1. ex.src1 = ArchGpr[ex.inst.rs1] /\ ex.src2 = ex.inst.imm
    <3>1. SrcOneRead(ex.inst) /\ ex.inst.op \in TypeI
      BY <1>1, <1>6 DEF SrcOneRead, TypeI
    <3>. QED BY <1>1, <3>1, RunningFacts
         DEF Executing, Lockstepped, InFlight, DecodedRight
  <2>2. ex.src1 \in Value /\ ex.inst.imm \in Value
    BY <1>1, RunningFacts
  <2>3. ex.src1 % 2 = 0
    <3>1. ex.src1 % 2 # 1
      BY <1>1, <1>6 DEF Executing, LockstepRun, Convention, Conforms, Departs
    <3>. QED BY <2>2, <3>1, WordInt
  <2>4. BruTarget(ex) = Plus(ex.src1, AlignDown(ex.inst.imm, 2))
    BY <1>1, <1>6, <2>1, <2>2, <2>3, JalrEven DEF BruTarget
  <2>. QED BY <1>3, <1>4, <1>6, <2>1, <2>4, SameWords DEF Ref!Jalr
<1>. QED BY <1>5, <1>6

LEMMA BranchStep ==
  ASSUME NEW op \in TypeB, Running(op) PROVE Ref!Branch(op)
<1>1. Executing /\ ex.inst.op = op /\ ex.valid
  BY DEF Running, Executing
<1>2. Ref!Fetched(op) /\ Ref!inst = ex.inst
  BY RunningFetched
<1>3. /\ ~RegWen(ex.inst) /\ SrcOneRead(ex.inst) /\ SrcTwoRead(ex.inst)
      /\ ex.inst.op \notin FuLsu /\ ex.inst.op \notin CsrOp \cup {"mret"}
  BY <1>1 DEF RegWen, SrcOneRead, SrcTwoRead, TypeI, TypeR, TypeU, TypeJ, TypeB, CsrOp,
     CsrWriteOp, CsrSetOp, CsrClearOp, FuLsu
<1>4. ex.src1 = ArchGpr[ex.inst.rs1] /\ ex.src2 = ArchGpr[ex.inst.rs2] /\ ArchPc = ex.pc
  BY <1>1, <1>3, RunningFacts
<1>5. ArchGpr' = ArchGpr /\ dmem' = dmem
  BY <1>1, <1>3 DEF Executing, Executes, FuLsu
<1>6. BruTarget(ex) = Plus(ex.pc, ex.inst.imm)
  BY <1>1 DEF BruTarget, TypeB
<1>. DEFINE taken == BranchCondition(op, ex.src1, ex.src2)
<1>7. taken <=> Ref!BranchTaken(op, ArchGpr[ex.inst.rs1], ArchGpr[ex.inst.rs2])
  BY <1>4, SameBranches
<1>8. BruBranch(ex) <=> taken
  BY <1>1 DEF BruBranch, TypeB
<1>. HIDE DEF taken
<1>9. CASE taken
  <2>1. CASE BruTarget(ex) % 4 # 0
    <3>1. Ref!RaiseTrap(InstAddrMisaligned, BruTarget(ex))
      BY <1>8, <1>9, <2>1, TakenStep
    <3>. QED BY <1>2, <1>4, <1>6, <1>7, <1>9, <2>1, <3>1, SameWords, SameCauses
         DEF Ref!Branch
  <2>2. CASE BruTarget(ex) % 4 = 0
    <3>1. UNCHANGED <<csr, mstatus, mode, imem, dmem>> /\ ArchPc' = BruTarget(ex)
      BY <1>8, <1>9, <2>2, TakenStep
    <3>. QED BY <1>2, <1>4, <1>5, <1>6, <1>7, <1>9, <2>2, <3>1, SameWords DEF Ref!Branch
  <2>. QED BY <2>1, <2>2
<1>10. CASE ~taken
  <2>1. LsuExc(ex) = {} /\ ~CsrAccess(ex) /\ ~BruBranch(ex)
    BY <1>3, <1>8, <1>10 DEF LsuExc, CsrAccess
  <2>2. ex.exc = {}
    <3>1. op \notin {"illegal", "ebreak", "ecall"}
      BY DEF TypeB
    <3>. QED BY <3>1, NoDecodeException
  <2>3. CsrExc(ex, BruExc(ex)) = {}
    BY <2>1, <2>2 DEF CsrExc, BruExc
  <2>4. UNCHANGED <<csr, mstatus, mode, imem>> /\ ArchPc' = Plus(ex.pc, 4)
    BY <1>1, <1>3, <2>1, <2>3, PlainStep
  <2>. QED BY <1>2, <1>4, <1>5, <1>7, <1>10, <2>4, SameWords
       DEF Ref!Branch, Ref!RetireNoWrite
<1>. QED BY <1>9, <1>10

LEMMA MretStep == ASSUME Running("mret") PROVE Ref!Mret
<1>1. Executing /\ ex.inst.op = "mret" /\ ex.valid
  BY DEF Running, Executing
<1>2. ex.inst.op \notin CsrOp /\ ~RegWen(ex.inst)
  BY <1>1 DEF RegWen, TypeI, TypeR, TypeU, TypeJ, CsrOp, CsrWriteOp, CsrSetOp, CsrClearOp
<1>3. mode = M
  <2>1. mode # U
    BY <1>1 DEF Executing, LockstepRun, Convention, Conforms, Departs
  <2>. QED BY <1>1, <2>1 DEF Executing, Lockstepped, TypeOK, CsrTypeOK, Mode
<1>. DEFINE exc == BruExc(ex)
<1>4. CsrExc(ex, exc) = {} /\ ~BruBranch(ex)
  BY <1>1, <1>2, OnlyDecodeExceptions, NoDecodeException DEF FuLsu, TypeB
<1>5. ~CsrTrap(ex, exc) /\ CsrMret(ex, exc) /\ CsrFlush(ex, exc) /\ ~CsrWen(ex)
  BY <1>1, <1>2, <1>4, RunningFacts DEF CsrTrap, CsrMret, HasExc, CsrFlush, CsrWen, CsrAccess
<1>6. PICK pins \in Pins : CsrTick(ex, exc, pins)
  BY <1>1 DEF Executing, Executes
<1>7. csr' = csr /\ mstatus' = MretMstatus /\ mode' = mstatus.mpp
  BY <1>5, <1>6 DEF CsrTick, WrittenCsr
<1>8. ArchPc' = csr["mepc"]
  BY <1>1, <1>5 DEF Executing, Executes, Flush, Target, CsrTarget
<1>9. ArchGpr' = ArchGpr /\ dmem' = dmem /\ imem' = imem
  BY <1>1, <1>2 DEF Executing, Executes
<1>. QED BY <1>3, <1>7, <1>8, <1>9, RunningFetched, SameCsrs DEF Ref!Mret, MretMstatus

(* The CSR unit's permission check is the reference's: the RTL tests the   *)
(* value of rs1 where the reference tests its number.                      *)
LEMMA SamePermission ==
  ASSUME NEW op \in CsrOp, Running(op)
  PROVE  Ref!CsrPermitted(op \in CsrWriteOp \/ ex.inst.rs1 # 0)
           <=> ~IllegalAccess(ex) /\ ex.inst.csr \in RtlCsr
<1>. DEFINE a == ex.inst.csr
<1>. DEFINE write == op \in CsrWriteOp \/ ex.inst.rs1 # 0
<1>1. Executing /\ ex.inst.op = op /\ ex.valid /\ CsrAccess(ex)
  BY DEF Running, Executing, CsrAccess
<1>2. a \in CsrAddr /\ a # "satp" /\ mode \in {U, M}
      /\ (a = "cycle" => mode = M)
  BY <1>1, RunningFacts
     DEF Executing, LockstepRun, Convention, Conforms, Departs, CsrTypeOK, Mode
<1>3. a \in ReadOnlyAddr => (OnlyRead(ex) <=> ~write)
  <2>1. ASSUME a \in ReadOnlyAddr, OnlyRead(ex) PROVE ~write
    <3>1. ex.inst.rs1 = 0
      BY <1>1, <2>1 DEF Executing, LockstepRun, Convention, Conforms, Departs
    <3>2. op \notin CsrWriteOp
      BY <1>1, <2>1 DEF OnlyRead, CsrWriteOp, CsrSetOp, CsrClearOp
    <3>. QED BY <3>1, <3>2
  <2>2. ASSUME ~write PROVE OnlyRead(ex)
    <3>1. op \in CsrSetOp \cup CsrClearOp
      BY <2>2 DEF CsrOp
    <3>2. SrcOneRead(ex.inst)
      BY <1>1 DEF SrcOneRead, TypeI
    <3>3. ex.src1 = ArchGpr[0]
      BY <1>1, <2>2, <3>2, RunningFacts
    <3>4. ArchGpr[0] = 0
      BY <1>1, RegAssumption DEF ArchGpr, Executing, Lockstepped, ForwardingSafe
    <3>. QED BY <1>1, <3>1, <3>3, <3>4 DEF OnlyRead
  <2>. QED BY <2>1, <2>2
<1>4. mode < AddrPrivilege(a) <=> mode = U /\ a # "cycle"
  BY <1>2 DEF AddrPrivilege, U, M
<1>5. Ref!inst = ex.inst
  BY RunningFetched
<1>. HIDE DEF write
<1>6. Ref!CsrPermitted(write) <=>
        mode = M /\ ~(a \in ReadOnlyAddr /\ write) /\ a \notin {"satp", "none"}
  BY <1>5, SameCsrs DEF Ref!CsrPermitted
<1>7. IllegalAccess(ex) <=> (a \in ReadOnlyAddr /\ write) \/ (mode = U /\ a # "cycle")
  BY <1>3, <1>4 DEF IllegalAccess
<1>8. a \in RtlCsr <=> a # "none"
  BY <1>2 DEF RtlCsr
<1>9. mode = M <=> ~(mode = U /\ a # "cycle")
  BY <1>2 DEF U, M
<1>10. Ref!CsrPermitted(write) <=> ~IllegalAccess(ex) /\ a \in RtlCsr
  BY <1>2, <1>6, <1>7, <1>8, <1>9
<1>. QED BY <1>10 DEF write

(* What the RTL reads is among what the reference may read.                *)
LEMMA CsrReadAgrees ==
  ASSUME NEW op \in CsrOp, Running(op), ex.inst.csr \in RtlCsr
  PROVE  CsrRead(ex.inst.csr) \in Ref!CsrReads
<1>. DEFINE a == ex.inst.csr
<1>1. Executing /\ Ref!inst = ex.inst
  BY RunningFetched DEF Running
<1>2. mip = {} /\ mcounteren = 0
  BY <1>1 DEF Executing, Lockstepped, InFlight, NothingPending
<1>3. WordOf(mip) = 0
  BY <1>2 DEF WordOf
<1>4. cycle \in Value
  BY <1>1, RunningFacts, CycleModulusAssumption, ModulusFacts DEF CsrTypeOK, Value
<1>5. CASE a \in CsrReg
  BY <1>1, <1>5, SameCsrs DEF Ref!CsrReads, CsrRead, CsrReg
<1>6. CASE a \in {"mstatus", "mip", "mcounteren", "misa", "cycle"}
  BY <1>1, <1>2, <1>3, <1>4, <1>6, SameCsrs, SameWords
     DEF Ref!CsrReads, CsrRead, CsrReg
<1>7. CASE a \notin CsrReg \cup {"mstatus", "mip", "mcounteren", "misa", "cycle"}
  BY <1>1, <1>7, SameCsrs DEF Ref!CsrReads, CsrRead, CsrReg
<1>. QED BY <1>5, <1>6, <1>7

(* What the RTL writes back is what the reference writes, or, where the    *)
(* reference does not write, what was there.                               *)
LEMMA CsrWriteAgrees ==
  ASSUME NEW op \in CsrOp, Running(op), ex.inst.csr \in RtlCsr, ~IllegalAccess(ex)
  PROVE  LET status == IF ex.inst.csr = "mstatus" THEN WriteMstatus(WriteData(ex)) ELSE mstatus
             src == IF op \in CsrImmOp THEN ex.inst.rs1 ELSE ArchGpr[ex.inst.rs1]
             old == CsrRead(ex.inst.csr)
         IN  IF op \in CsrWriteOp \/ ex.inst.rs1 # 0
             THEN /\ WriteData(ex) = IF op \in CsrWriteOp THEN src
                                     ELSE IF op \in CsrSetOp THEN BitOr(old, src)
                                     ELSE BitClear(old, src)
                  /\ ex.inst.csr = "mtvec" => WriteData(ex) % 4 <= 1
                  /\ WrittenCsr(ex) =
                       IF ex.inst.csr \in CsrReg
                       THEN [csr EXCEPT ![ex.inst.csr] =
                               IF ex.inst.csr = "mie" THEN WriteData(ex) % 8
                                                      ELSE WriteData(ex)]
                       ELSE csr
             ELSE WrittenCsr(ex) = csr /\ status = mstatus
<1>. DEFINE a == ex.inst.csr
<1>. DEFINE src == IF op \in CsrImmOp THEN ex.inst.rs1 ELSE ArchGpr[ex.inst.rs1]
<1>. DEFINE old == CsrRead(a)
<1>. DEFINE v == WriteData(ex)
<1>1. Executing /\ ex.inst.op = op /\ ex.valid /\ CsrAccess(ex) /\ CsrWen(ex)
  BY DEF Running, Executing, CsrAccess, CsrWen
<1>2. ex.src1 = ArchGpr[ex.inst.rs1]
  <2>1. SrcOneRead(ex.inst)
    BY <1>1 DEF SrcOneRead, TypeI
  <2>. QED BY <1>1, <2>1, RunningFacts
<1>3. v = IF op \in CsrWriteOp THEN src
          ELSE IF op \in CsrSetOp THEN BitOr(old, src) ELSE BitClear(old, src)
  BY <1>1, <1>2 DEF WriteData, CsrOp, CsrWriteOp, CsrSetOp, CsrClearOp
<1>4. v \in Value /\ old \in Value /\ CsrTypeOK
  BY <1>1, RunningFacts, WriteDataWord, CsrReadWord
<1>5. /\ a = "mtvec" => v % 4 <= 1
      /\ a = "mie" => v % 8 = v
  <2>1. ~(a = "mtvec" /\ v % 4 > 1) /\ ~(a = "mie" /\ v >= 8)
    BY <1>1 DEF Executing, LockstepRun, Convention, Conforms, Departs
  <2>2. v \in Nat
    BY <1>4, WordInt
  <2>. HIDE DEF v
  <2>. QED BY <2>1, <2>2
<1>6. WrittenCsr(ex) = IF a \in CsrReg THEN [csr EXCEPT ![a] = v] ELSE csr
  BY <1>1 DEF WrittenCsr
<1>7. ASSUME ~(op \in CsrWriteOp \/ ex.inst.rs1 # 0)
      PROVE  v = old
  <2>1. src = 0
    <3>1. ArchGpr[0] = 0
      BY <1>1, RegAssumption DEF ArchGpr, Executing, Lockstepped, ForwardingSafe
    <3>. QED BY <1>7, <3>1
  <2>. QED BY <1>3, <1>4, <1>7, <2>1, BitAssumption
<1>8. ASSUME v = old
      PROVE  /\ WrittenCsr(ex) = csr
             /\ (IF a = "mstatus" THEN WriteMstatus(v) ELSE mstatus) = mstatus
  <2>1. a \in CsrReg => old = csr[a]
    BY DEF CsrRead, CsrReg
  <2>2. a \in CsrReg => [csr EXCEPT ![a] = old] = csr
    BY <1>4, <2>1 DEF CsrTypeOK
  <2>3. a = "mstatus" => old = EncodeMstatus(mstatus)
    BY DEF CsrRead, CsrReg
  <2>. QED BY <1>4, <1>6, <1>8, <2>2, <2>3, MstatusRoundTrip
<1>. HIDE DEF v, old, src
<1>9. CASE op \in CsrWriteOp \/ ex.inst.rs1 # 0
  BY <1>3, <1>5, <1>6, <1>9 DEF v, old, src
<1>10. CASE ~(op \in CsrWriteOp \/ ex.inst.rs1 # 0)
  BY <1>7, <1>8, <1>10 DEF v
<1>. QED BY <1>9, <1>10

LEMMA CsrStep ==
  ASSUME NEW op \in CsrOp, Running(op) PROVE Ref!CsrInstr(op)
<1>. DEFINE a == ex.inst.csr
<1>. DEFINE write == op \in CsrWriteOp \/ ex.inst.rs1 # 0
<1>. DEFINE exc == BruExc(ex)
<1>1. Executing /\ ex.inst.op = op /\ ex.valid /\ CsrAccess(ex)
  BY DEF Running, Executing, CsrAccess
<1>2. Ref!Fetched(op) /\ Ref!inst = ex.inst
  BY RunningFetched
<1>3. LsuExc(ex) = {} /\ ~BruBranch(ex) /\ ex.inst.op # "mret" /\ ex.inst.op # "sd"
  BY <1>1 DEF LsuExc, FuLsu, BruBranch, TypeB, CsrOp, CsrWriteOp, CsrSetOp, CsrClearOp
<1>4. exc = {}
  <2>1. op \notin {"illegal", "ebreak", "ecall"}
    BY DEF CsrOp, CsrWriteOp, CsrSetOp, CsrClearOp
  <2>. QED BY <1>3, <2>1, NoDecodeException DEF BruExc
<1>5. CASE ~(~IllegalAccess(ex) /\ a \in RtlCsr)
  <2>. DEFINE x == [cause |-> IllegalInst, tval |-> ex.inst.bits]
  <2>1. CsrExc(ex, exc) = {x}
    BY <1>1, <1>4, <1>5 DEF CsrExc
  <2>2. WrittenCsr(ex) = csr
    BY <1>5 DEF WrittenCsr, CsrWen, RtlCsr, CsrReg, CsrAddr
  <2>3. Ref!RaiseTrap(x.cause, x.tval)
    BY <1>1, <1>3, <2>1, <2>2, TrapStep
  <2>4. ~Ref!CsrPermitted(write)
    BY <1>5, SamePermission
  <2>5. Ref!RaiseIllegal
    BY <1>2, <2>3, SameCauses DEF Ref!RaiseIllegal
  <2>. QED BY <1>2, <2>4, <2>5, SameOps DEF Ref!CsrInstr
<1>6. CASE ~IllegalAccess(ex) /\ a \in RtlCsr
  <2>. DEFINE old == CsrRead(a)
  <2>. DEFINE src == IF op \in CsrImmOp THEN ex.inst.rs1 ELSE ArchGpr[ex.inst.rs1]
  <2>. DEFINE v == WriteData(ex)
  <2>1. Ref!CsrPermitted(write) /\ old \in Ref!CsrReads
    BY <1>6, SamePermission, CsrReadAgrees
  <2>2. PICK pins \in Pins : CsrTick(ex, exc, pins)
    BY <1>1 DEF Executing, Executes
  <2>3. ~HasExc(ex, exc) /\ CsrWen(ex)
    BY <1>1, <1>4, <1>6, RunningFacts DEF HasExc, CsrExc, CsrWen
  <2>4. ~CsrTrap(ex, exc) /\ ~CsrMret(ex, exc) /\ ~CsrFlush(ex, exc) /\ ~Flush
    BY <1>3, <2>3 DEF CsrTrap, CsrMret, CsrFlush, Flush
  <2>5. /\ csr' = WrittenCsr(ex) /\ mode' = mode
        /\ mstatus' = IF a = "mstatus" THEN WriteMstatus(v) ELSE mstatus
    BY <2>2, <2>3, <2>4 DEF CsrTick
  <2>6. ArchPc' = Plus(ex.pc, 4) /\ dmem' = dmem /\ imem' = imem
    BY <1>1, <1>3, <2>4 DEF Executing, Executes
  <2>7. ArchGpr' = IF ex.inst.rd = 0 THEN ArchGpr ELSE [ArchGpr EXCEPT ![ex.inst.rd] = old]
    <3>1. RegWen(ex.inst) /\ ~ExHasExc
      BY <1>1, <2>3 DEF RegWen, TypeI, ExHasExc
    <3>2. Result = old
      <4>1. ex.inst.op \in FuCsr /\ ex.inst.op \notin FuMdu \cup FuLsu \cup FuBru
        BY <1>1 DEF FuMdu, FuLsu, FuBru, FuCsr, TypeB, CsrOp, CsrWriteOp, CsrSetOp,
           CsrClearOp
      <4>. QED BY <4>1 DEF Result, ExWdata, FuLsu
    <3>. QED BY <1>1, <3>1, <3>2 DEF Executing, Executes
  <2>8. ArchPc = ex.pc
    BY <1>1, RunningFacts
  <2>9. Ref!SetMstatus(v) = WriteMstatus(v)
    BY DEF Ref!SetMstatus, WriteMstatus, Mode, U, M
  <2>. DEFINE new == IF op \in CsrWriteOp THEN src
                     ELSE IF op \in CsrSetOp THEN BitOr(old, src) ELSE BitClear(old, src)
  <2>10. IF write THEN v = new /\ Ref!CsrWrite(v) ELSE UNCHANGED <<csr, mstatus>>
    <3>1. CASE write
      BY <1>2, <1>6, <2>5, <2>9, <3>1, CsrWriteAgrees, SameCsrs DEF Ref!CsrWrite
    <3>2. CASE ~write
      BY <1>6, <2>5, <3>2, CsrWriteAgrees
    <3>. QED BY <3>1, <3>2
  <2>11. Ref!SetGpr(ex.inst.rd, old)
    BY <2>7 DEF Ref!SetGpr
  <2>. HIDE DEF v, old, new, write
  <2>12. /\ IF write THEN Ref!CsrWrite(new) ELSE UNCHANGED <<csr, mstatus>>
         /\ Ref!SetGpr(ex.inst.rd, old)
         /\ ArchPc' = Ref!Plus(ArchPc, 4)
         /\ UNCHANGED <<imem, dmem, mode>>
    BY <2>5, <2>6, <2>8, <2>10, <2>11, SameWords
  <2>. QED BY <1>2, <2>1, <2>12, SameOps DEF Ref!CsrInstr, new, write
<1>. QED BY <1>5, <1>6

-----------------------------------------------------------------------------

(* Every instruction the pipeline executes is a step of the reference.     *)
LEMMA InstructionStep == ASSUME Executing PROVE Ref!Next
<1>1. CASE ex.pc % 4 # 0
  BY <1>1, FetchMisalignedStep DEF Ref!Next
<1>2. CASE ex.pc % 4 = 0
  <2>. DEFINE op == ex.inst.op
  <2>1. Running(op)
    BY <1>2 DEF Running
  <2>2. op \in Op
    BY RunningFacts
  <2>. HIDE DEF op
  <2>3. CASE op \in {"illegal", "ebreak", "ecall"}
    BY <2>1, <2>3, DecodeTrapStep DEF Ref!Next
  <2>4. CASE op \in {"lui", "auipc", "addi", "add", "sub", "mul"}
    BY <2>1, <2>4, ComputeStep DEF Ref!Next
  <2>5. CASE op = "fence"
    BY <2>1, <2>5, FenceStep DEF Ref!Next
  <2>6. CASE op \in {"ld", "sd"}
    BY <2>1, <2>6, LoadStoreStep DEF Ref!Next
  <2>7. CASE op \in {"jal", "jalr"}
    BY <2>1, <2>7, JumpStep DEF Ref!Next
  <2>8. CASE op \in TypeB
    BY <2>1, <2>8, BranchStep, SameOps DEF Ref!Next
  <2>9. CASE op = "mret"
    BY <2>1, <2>9, MretStep DEF Ref!Next
  <2>10. CASE op \in CsrOp
    BY <2>1, <2>10, CsrStep, SameOps DEF Ref!Next
  <2>. QED BY <2>2, <2>3, <2>4, <2>5, <2>6, <2>7, <2>8, <2>9, <2>10
       DEF Op, TypeR, TypeI, TypeU, TypeJ, TypeS, TypeN
<1>. QED BY <1>1, <1>2

(* At reset the reference is about to execute the first instruction.       *)
LEMMA InitMaps == Init => Ref!Init
<1>. SUFFICES ASSUME Init PROVE Ref!Init
  OBVIOUS
<1>1. imem \in [Slot -> Instr]
  BY ProgramAssumption DEF Init
<1>2. ArchPc = PcInit
  <2>1. ArchPc = Plus(Minus(PcInit, 4), 4)
    BY DEF Init, ArchPc, DecodedZero, FetchedZero
  <2>2. PcInit \in Nat /\ PcInit < Modulus /\ Modulus \in Nat /\ Modulus >= 32
    BY PcInitAssumption, ModulusFacts DEF Slot, Value
  <2>3. Minus(PcInit, 4) = IF PcInit >= 4 THEN PcInit - 4 ELSE PcInit - 4 + Modulus
    BY <2>2 DEF Minus
  <2>4. Plus(Minus(PcInit, 4), 4) = PcInit
    BY <2>2, <2>3 DEF Plus
  <2>. QED BY <2>1, <2>4
<1>3. ArchGpr = [r \in Reg |-> 0]
  BY DEF Init, ArchGpr, RegfileWen, ExecutedZero
<1>. QED BY <1>1, <1>2, <1>3, SameWords, SameInstr, SameCsrs DEF Init, CsrInit, Ref!Init

(* The pipeline with its stalls, forwarding, redirects and traps           *)
(* implements the reference core: registers, memory, CSRs, privilege and   *)
(* pc never differ, whatever the program.                                  *)
THEOREM PipelineRefines ==
  ASSUME Pins \subseteq {{}}, Convention \subseteq Conventions
  PROVE  ConformingSpec => RefinesRvCore
<1>1. LockstepRun
  BY DEF LockstepRun
<1>2. ASSUME Lockstepped, [Next /\ Conforms]_vars PROVE [Ref!Next]_(Ref!vars)
  <2>1. CASE Next /\ Conforms
    <3>1. PICK pins \in Pins, go \in BOOLEAN, flush \in BOOLEAN : Edge(go, flush, pins)
      BY <2>1, NextIsTick DEF Edge
    <3>2. CASE ex.valid
      <4>1. Executing
        BY <1>1, <1>2, <2>1, <3>1, <3>2, ExecuteStep DEF Executing
      <4>. QED BY <4>1, InstructionStep
    <3>3. CASE ~ex.valid
      BY <1>2, <3>1, <3>3, StutterStep
    <3>. QED BY <3>2, <3>3
  <2>2. CASE UNCHANGED vars
    BY <2>2 DEF vars, csrVars, pipeVars, Ref!vars, ArchPc, ArchGpr, RegfileWen, MemWdata
  <2>. QED BY <1>2, <2>1, <2>2
<1>3. ConformingSpec => []Lockstepped
  BY <1>1, LockstepInvariant
<1>. QED BY <1>2, <1>3, InitMaps, PTL DEF ConformingSpec, RefinesRvCore
=============================================================================
