------------------------------ MODULE PrivProofs ------------------------------
(***************************************************************************)
(* Theorems about the reference's privilege unit, for every set of         *)
(* interrupts and lines and every number of addresses.         *)
(***************************************************************************)
EXTENDS RvPriv, TLAPS

(* Where exec stands between the interrupt check and the label exception.  *)
Underway == {"fetch", "va_if", "exec", "access"}

(* There no trap is under way, nothing is illegal yet and the mode is the  *)
(* one chosen for the instruction.  At the label an illegal instruction has*)
(* raised nothing.                                                         *)
Settled ==
  /\ phase \in Underway => ~cur_need_trap /\ ~ri /\ cur_priv = next_priv
  /\ phase = "exception" => ~(ri /\ cur_need_trap)

(* The trap registers still hold what the last trap put there.             *)
FrameKept ==
  frame.valid => mepc = frame.pc /\ status.mpp = frame.priv /\ status.mpie = frame.mie

-----------------------------------------------------------------------------
(* Lemmas about the operators. *)

(* A set of interrupts is empty, or int2index picks one of its members.    *)
LEMMA Int2IndexFacts ==
  ASSUME NEW S \in SUBSET Irq
  PROVE  /\ S = {} => Int2Index(S) = NoInterrupt
         /\ S # {} => Int2Index(S) \in S /\ Int2Index(S) # NoInterrupt
<1>. DEFINE First(k) == Priority[k] \in S /\ \A j \in 1 .. k - 1 : Priority[j] \notin S
<1>1. DOMAIN Priority = 1..6
  BY DEF Priority
<1>2. ASSUME S # {} PROVE \E k \in 1..6 : First(k)
  <2>2. CASE 11 \in S
    <3>1. First(1)
      BY <2>2 DEF Priority
    <3>. QED BY <3>1
  <2>3. CASE 3 \in S /\ 11 \notin S
    <3>1. First(2)
      BY <2>3 DEF Priority
    <3>. QED BY <3>1
  <2>4. CASE 7 \in S /\ 3 \notin S /\ 11 \notin S
    <3>1. First(3)
      BY <2>4 DEF Priority
    <3>. QED BY <3>1
  <2>5. CASE 9 \in S /\ 7 \notin S /\ 3 \notin S /\ 11 \notin S
    <3>1. First(4)
      BY <2>5 DEF Priority
    <3>. QED BY <3>1
  <2>6. CASE 1 \in S /\ 9 \notin S /\ 7 \notin S /\ 3 \notin S /\ 11 \notin S
    <3>1. First(5)
      BY <2>6 DEF Priority
    <3>. QED BY <3>1
  <2>7. CASE 5 \in S /\ 1 \notin S /\ 9 \notin S /\ 7 \notin S /\ 3 \notin S /\ 11 \notin S
    <3>1. First(6)
      BY <2>7 DEF Priority
    <3>. QED BY <3>1
  <2>. QED BY <1>2, <2>2, <2>3, <2>4, <2>5, <2>6, <2>7, IrqAssumption
<1>3. ASSUME S # {} PROVE Int2Index(S) \in S
  <2>1. Int2Index(S) = Priority[CHOOSE k \in 1..6 : First(k)]
    BY <1>1, <1>3 DEF Int2Index
  <2>2. First(CHOOSE k \in 1..6 : First(k))
    BY <1>2, <1>3
  <2>. QED BY <2>1, <2>2
<1>4. NoInterrupt \notin S
  BY IrqAssumption DEF NoInterrupt
<1>. QED BY <1>3, <1>4 DEF Int2Index

(* What check_and_raise_int raises is pending and enabled, and it raises   *)
(* something unless nothing is or machine mode masks it.                   *)
LEMMA FinalIntFacts ==
  ASSUME NEW pending \in SUBSET Irq, ie \in SUBSET Irq, NEW mode \in {U, M}
  PROVE  /\ FinalInt(pending, mode) # NoInterrupt => FinalInt(pending, mode) \in Irq
         /\ FinalInt(pending, mode) = NoInterrupt =>
              pending \cap ie = {} \/ (mode = M /\ status.mie = 0)
<1>1. pending \cap ie \in SUBSET Irq
  OBVIOUS
<1>. QED BY <1>1, Int2IndexFacts DEF FinalInt

(* Stepping pc stays within the addresses.                                 *)
LEMMA PcStep == ASSUME NEW a \in Addr PROVE (a + 1) % PcCount \in Addr
BY PcAssumption DEF Addr, Pc, Misaligned

(* The handler's address, and those of instructions, are addresses.        *)
LEMMA AddrFacts == 0 \in Addr /\ Pc \subseteq Addr
BY PcAssumption DEF Addr, Pc

(* Every code an instruction or a fetch raises is a cause.                 *)
LEMMA CodeFacts ==
  ASSUME TypeOK, NEW code \in 0..7 \cup {EcallFrom(cur_priv)}
  PROVE  Exc(code) \in Causes
BY DEF TypeOK, Exc, Causes, EcallFrom, U, M

LEMMA ModeFacts == U = 0 /\ M = 3 /\ U # M
BY DEF U, M

(* raise_trap leaves every register well-typed.                            *)
LEMMA RaiseTrapType ==
  ASSUME TypeOK, NEW cause \in Causes, NEW mode \in {U, M}, NEW under_way \in BOOLEAN,
         RaiseTrap(cause, mode, under_way)
  PROVE  /\ status' \in Status
         /\ mepc' \in Addr /\ mcause' \in Causes
         /\ cur_need_trap' = TRUE /\ trap_pc' \in Addr
         /\ next_priv' = M
         /\ aborted' \in BOOLEAN
         /\ frame' \in [valid: BOOLEAN, pc: Addr, priv: {U, M}, mie: Bit]
<1>1. status \in Status /\ pc \in Addr /\ 0 \in Addr
  BY AddrFacts DEF TypeOK
<1>2. status' \in Status
  <2>1. status.mie \in Bit /\ 0 \in Bit
    BY <1>1 DEF Status, Bit
  <2>2. status' = [status EXCEPT !.mpie = status.mie, !.mie = 0, !.mpp = mode]
    BY DEF RaiseTrap
  <2>. QED BY <1>1, <2>1, <2>2 DEF Status
<1>3. frame' \in [valid: BOOLEAN, pc: Addr, priv: {U, M}, mie: Bit]
  BY <1>1 DEF RaiseTrap, Status
<1>. QED BY <1>1, <1>2, <1>3 DEF RaiseTrap, TypeOK

-----------------------------------------------------------------------------
(* Types. *)

LEMMA InitType == Init => TypeOK
<1>. SUFFICES ASSUME Init PROVE TypeOK
  OBVIOUS
<1>1. status \in Status
  BY DEF Init, Status, Bit
<1>2. 0 \in Addr /\ pc \in Addr
  BY AddrFacts DEF Init
<1>3. frame \in [valid: BOOLEAN, pc: Addr, priv: {U, M}, mie: Bit]
  BY <1>2 DEF Init, NoFrame, Bit
<1>4. mcause \in Causes
  BY DEF Init, Exc, Causes
<1>. QED BY <1>1, <1>2, <1>3, <1>4 DEF Init, TypeOK

LEMMA PreExecType ==
  ASSUME TypeOK, NEW pins \in SUBSET Pin, PreExec(pins)
  PROVE  TypeOK'
<1>1. ip' \in SUBSET Irq /\ ie \in SUBSET Irq
  BY IrqAssumption DEF TypeOK, PreExec, Sampled
<1>2. cur_priv' \in {U, M}
  BY DEF TypeOK, PreExec
<1>3. phase' \in {"fetch", "exception"}
  BY DEF PreExec, AfterCheck
<1>. DEFINE int == FinalInt(ip', cur_priv')
<1>4. CASE int # NoInterrupt
  <2>1. int \in Irq
    BY <1>1, <1>2, <1>4, FinalIntFacts
  <2>2. [interrupt |-> 1, code |-> int] \in Causes
    BY <2>1 DEF Causes
  <2>3. RaiseTrap([interrupt |-> 1, code |-> int], cur_priv', FALSE)
    BY <1>4 DEF PreExec
  <2>. HIDE DEF int
  <2>. QED BY <1>1, <1>2, <1>3, <2>2, <2>3, RaiseTrapType DEF PreExec, TypeOK
<1>5. CASE int = NoInterrupt
  <2>1. /\ cur_need_trap' = FALSE
        /\ UNCHANGED <<mcause, mepc, status, trap_pc, next_priv, aborted, frame>>
    BY <1>5 DEF PreExec
  <2>. QED BY <1>1, <1>2, <1>3, <2>1 DEF PreExec, TypeOK
<1>. QED BY <1>4, <1>5

Phases == {"pre", "fetch", "va_if", "exec", "access", "exception", "post"}

LEMMA RaiseType ==
  ASSUME TypeOK, NEW from, NEW to \in Phases, NEW code \in 0..7 \cup {EcallFrom(cur_priv)},
         Raise(from, to, code), new_pc' \in BOOLEAN
  PROVE  TypeOK'
<1>1. /\ cur_priv \in {U, M} /\ cur_need_trap \in BOOLEAN
      /\ RaiseTrap(Exc(code), cur_priv, cur_need_trap)
  BY DEF TypeOK, Raise
<1>. QED BY <1>1, CodeFacts, RaiseTrapType DEF Raise, Goto, Phases, TypeOK

LEMMA ContinueType ==
  ASSUME TypeOK, NEW from, NEW to \in Phases, Continue(from, to)
  PROVE  TypeOK'
BY DEF Continue, Goto, csrVars, trapVars, Phases, TypeOK

LEMMA MretType == ASSUME TypeOK, Mret PROVE TypeOK'
<1>1. status' \in Status
  <2>1. status \in Status /\ status.mpie \in Bit /\ 0 \in Bit /\ 1 \in Bit
    BY DEF TypeOK, Status, Bit
  <2>2. status' \in Status
    BY <2>1 DEF Mret, MretStatus, Status
  <2>. QED BY <2>2
<1>2. NoFrame \in [valid: BOOLEAN, pc: Addr, priv: {U, M}, mie: Bit]
  BY AddrFacts DEF NoFrame, Bit
<1>3. status.mpp \in {U, M}
  BY DEF TypeOK, Status
<1>. QED BY <1>1, <1>2, <1>3 DEF Mret, Executes, Goto, TypeOK

LEMMA SretType == ASSUME TypeOK, Sret PROVE TypeOK'
<1>1. status' \in Status
  <2>1. status \in Status /\ status.spie \in Bit /\ 0 \in Bit /\ 1 \in Bit
    BY DEF TypeOK, Status, Bit
  <2>. QED BY <2>1 DEF Sret, SretStatus, Status
<1>. QED BY <1>1, AddrFacts DEF Sret, Executes, Goto, TypeOK

LEMMA WriteMstatusType ==
  ASSUME TypeOK, NEW new \in Writable, WriteMstatus(new)
  PROVE  TypeOK'
<1>1. status' \in Status
  <2>1. /\ status \in Status /\ status.mpp \in {U, M}
        /\ new.mie \in Bit /\ new.mpie \in Bit /\ new.mprv \in Bit
    BY DEF TypeOK, Status, Writable
  <2>. QED BY <2>1 DEF WriteMstatus, SetMstatus, Status
<1>2. NoFrame \in [valid: BOOLEAN, pc: Addr, priv: {U, M}, mie: Bit]
  BY AddrFacts DEF NoFrame, Bit
<1>. QED BY <1>1, <1>2 DEF WriteMstatus, CsrWrites, Executes, Goto, TypeOK

(* Every action keeps the types.                                           *)
LEMMA NextType == ASSUME TypeOK, Next PROVE TypeOK'
<1>1. ASSUME NEW pins \in SUBSET Pin, PreExec(pins) PROVE TypeOK'
  BY <1>1, PreExecType
<1>2. CASE Fetch \/ RaiseIllegal \/ NotIllegal
  BY <1>2, RaiseType, ContinueType
     DEF Fetch, FetchMisaligned, FetchAligned, VaIfFault, VaIf, RaiseIllegal, NotIllegal, Phases,
         InstrMisalign, InstrAccFault, IllegalInstr, TypeOK
<1>3. CASE Plain \/ MemAligned \/ Access
  BY <1>3, ContinueType DEF Plain, MemAligned, Access, Phases
<1>4. CASE JumpMisaligned \/ Ecall \/ Ebreak \/ MemMisaligned \/ AccessFault
  BY <1>4, RaiseType
     DEF JumpMisaligned, Ecall, Ebreak, MemMisaligned, AccessFault, Phases, InstrMisalign,
         Breakpoint, MemMisalign, MemAccFault, TypeOK
<1>5. CASE Illegal \/ (\E npc \in Pc : Jump(npc))
  BY <1>5, AddrFacts DEF Illegal, Jump, Executes, Goto, csrVars, trapVars, TypeOK
<1>6. CASE Mret
  BY <1>6, MretType
<1>7. CASE Sret
  BY <1>7, SretType
<1>8. ASSUME NEW new \in Writable, WriteMstatus(new) PROVE TypeOK'
  BY <1>8, WriteMstatusType
<1>9. ASSUME NEW mask \in SUBSET Irq, WriteMie(mask) \/ WriteMip(mask) PROVE TypeOK'
  BY <1>9 DEF WriteMie, WriteMip, CsrWrites, Executes, Goto, TypeOK
<1>10. ASSUME NEW addr \in Addr, WriteMepc(addr) PROVE TypeOK'
  <2>1. NoFrame \in [valid: BOOLEAN, pc: Addr, priv: {U, M}, mie: Bit]
    BY AddrFacts DEF NoFrame, Bit
  <2>. QED BY <1>10, <2>1 DEF WriteMepc, CsrWrites, Executes, Goto, TypeOK
<1>11. CASE PostExec
  BY <1>11, PcStep DEF PostExec, Goto, csrVars, TypeOK
<1>. QED BY <1>1, <1>2, <1>3, <1>4, <1>5, <1>6, <1>7, <1>8, <1>9, <1>10, <1>11 DEF Next, Exec

(* Every register of the unit keeps to its values: mcause a defined cause, *)
(* mpp a mode the core has, whatever programs write.                       *)
THEOREM TypeCorrect == Spec => []TypeOK
<1>1. TypeOK /\ UNCHANGED vars => TypeOK'
  BY DEF vars, csrVars, trapVars, TypeOK
<1>. QED BY InitType, NextType, <1>1, PTL DEF Spec

-----------------------------------------------------------------------------
(* Traps do not collide. *)

(* A trap raised on the way is the only one, and leads to the label.       *)
LEMMA RaiseSettled ==
  ASSUME NEW from \in Underway, NEW code, Raise(from, "exception", code), Settled, NoSecondTrap
  PROVE  Settled' /\ NoSecondTrap'
BY DEF Raise, Goto, RaiseTrap, Underway, Settled, NoSecondTrap

LEMMA ContinueSettled ==
  ASSUME NEW from \in Underway, NEW to \in Underway \cup {"exception"}, Continue(from, to),
         Settled, NoSecondTrap
  PROVE  Settled' /\ NoSecondTrap'
BY DEF Continue, Goto, trapVars, Underway, Settled, NoSecondTrap

LEMMA SettledStep ==
  ASSUME TypeOK, Settled, NoSecondTrap, Next
  PROVE  Settled' /\ NoSecondTrap'
<1>1. ASSUME NEW pins \in SUBSET Pin, PreExec(pins) PROVE Settled' /\ NoSecondTrap'
  <2>1. ~ri' /\ ~aborted' /\ (cur_need_trap' \/ cur_priv' = next_priv')
    BY <1>1 DEF PreExec, RaiseTrap, NoSecondTrap
  <2>2. phase' = IF cur_need_trap' THEN "exception" ELSE "fetch"
    BY <1>1 DEF PreExec, AfterCheck
  <2>. QED BY <2>1, <2>2 DEF Underway, Settled, NoSecondTrap
<1>2. CASE FetchMisaligned \/ VaIfFault \/ JumpMisaligned \/ Ecall \/ Ebreak \/ MemMisaligned
           \/ AccessFault
  BY <1>2, RaiseSettled
     DEF FetchMisaligned, VaIfFault, JumpMisaligned, Ecall, Ebreak, MemMisaligned, AccessFault,
         Underway
<1>3. CASE FetchAligned \/ VaIf \/ Plain \/ MemAligned \/ Access
  BY <1>3, ContinueSettled DEF FetchAligned, VaIf, Plain, MemAligned, Access, Underway
<1>4. CASE \/ Illegal
           \/ \E npc \in Pc : Jump(npc)
           \/ Mret \/ Sret
           \/ \E new \in Writable : WriteMstatus(new)
           \/ \E mask \in SUBSET Irq : WriteMie(mask)
           \/ \E mask \in SUBSET Irq : WriteMip(mask)
           \/ \E addr \in Addr : WriteMepc(addr)
  <2>1. phase = "exec" /\ phase' = "exception" /\ aborted' = aborted
    BY <1>4 DEF Illegal, Jump, Mret, Sret, WriteMstatus, WriteMie, WriteMip, WriteMepc,
                CsrWrites, Executes, Goto, trapVars
  <2>2. cur_need_trap' = cur_need_trap \/ ri' = ri
    BY <1>4 DEF Illegal, Jump, Mret, Sret, WriteMstatus, WriteMie, WriteMip, WriteMepc,
                CsrWrites, Executes, trapVars
  <2>. QED BY <2>1, <2>2 DEF Underway, Settled, NoSecondTrap
<1>5. CASE RaiseIllegal
  BY <1>5 DEF RaiseIllegal, Raise, Goto, RaiseTrap, Underway, Settled, NoSecondTrap
<1>6. CASE NotIllegal
  BY <1>6 DEF NotIllegal, Continue, Goto, trapVars, Underway, Settled, NoSecondTrap
<1>7. CASE PostExec
  BY <1>7 DEF PostExec, Goto, Underway, Settled, NoSecondTrap
<1>. QED BY <1>1, <1>2, <1>3, <1>4, <1>5, <1>6, <1>7 DEF Next, Fetch, Exec

LEMMA SettledAlways == Spec => [](TypeOK /\ Settled /\ NoSecondTrap)
<1>1. Init => Settled /\ NoSecondTrap
  BY DEF Init, Underway, Settled, NoSecondTrap
<1>2. Settled /\ NoSecondTrap /\ UNCHANGED vars => Settled' /\ NoSecondTrap'
  BY DEF vars, csrVars, trapVars, Settled, NoSecondTrap
<1>. QED BY <1>1, <1>2, SettledStep, TypeCorrect, PTL DEF Spec

(* The assertion of raise_trap never fails: on every path through exec it  *)
(* is called at most once, and never after mret or sret.                   *)
THEOREM TrapsNeverCollide == Spec => []NoSecondTrap
BY SettledAlways, PTL

-----------------------------------------------------------------------------
(* Interrupts. *)

LEMMA NotPassedStep ==
  ASSUME TypeOK, NoInstructionPastInterrupt, Next
  PROVE  NoInstructionPastInterrupt'
<1>1. ASSUME NEW pins \in SUBSET Pin, PreExec(pins), phase' = "fetch"
      PROVE  NoInstructionPastInterrupt'
  <2>1. ip' \in SUBSET Irq /\ ie \in SUBSET Irq /\ cur_priv' \in {U, M}
    BY <1>1, IrqAssumption DEF TypeOK, PreExec, Sampled
  <2>2. FinalInt(ip', cur_priv') = NoInterrupt /\ status' = status /\ ie' = ie
    BY <1>1 DEF PreExec, AfterCheck, RaiseTrap
  <2>. QED BY <2>1, <2>2, FinalIntFacts DEF NoInstructionPastInterrupt
<1>2. ASSUME NEW pins \in SUBSET Pin, PreExec(pins), phase' # "fetch"
      PROVE  NoInstructionPastInterrupt'
  <2>1. phase' = "exception"
    BY <1>2 DEF PreExec, AfterCheck
  <2>. QED BY <2>1 DEF NoInstructionPastInterrupt
<1>3. CASE FetchAligned \/ VaIf
  BY <1>3 DEF FetchAligned, VaIf, Continue, Goto, csrVars, NoInstructionPastInterrupt
<1>4. CASE FetchMisaligned \/ VaIfFault \/ Exec \/ RaiseIllegal \/ NotIllegal \/ PostExec
  <2>1. phase' \in {"pre", "access", "exception", "post"}
    BY <1>4
       DEF FetchMisaligned, VaIfFault, Exec, Plain, Jump, JumpMisaligned, Illegal, Ecall, Ebreak,
           MemMisaligned, MemAligned, AccessFault, Access, Mret, Sret, WriteMstatus, WriteMie,
           WriteMip, WriteMepc, CsrWrites, Executes, RaiseIllegal, NotIllegal, PostExec,
           Raise, Continue, Goto
  <2>. QED BY <2>1 DEF NoInstructionPastInterrupt
<1>. QED BY <1>1, <1>2, <1>3, <1>4 DEF Next, Fetch

(* No instruction is fetched or executed past a pending interrupt that is  *)
(* enabled in its mode.                                                    *)
THEOREM InterruptsFirst == Spec => []NoInstructionPastInterrupt
<1>1. Init => NoInstructionPastInterrupt
  BY DEF Init, NoInstructionPastInterrupt
<1>2. NoInstructionPastInterrupt /\ UNCHANGED vars => NoInstructionPastInterrupt'
  BY DEF vars, csrVars, NoInstructionPastInterrupt
<1>. QED BY <1>1, <1>2, NotPassedStep, TypeCorrect, PTL DEF Spec

-----------------------------------------------------------------------------
(* Handlers. *)

LEMMA FrameStep == ASSUME TypeOK, FrameKept, Next PROVE FrameKept'
<1>1. ASSUME NEW cause, NEW mode, NEW under_way, RaiseTrap(cause, mode, under_way)
      PROVE  FrameKept'
  <2>1. status'.mpp = mode /\ status'.mpie = status.mie
    BY <1>1 DEF RaiseTrap, TypeOK, Status
  <2>2. mepc' = pc /\ frame'.pc = pc /\ frame'.priv = mode /\ frame'.mie = status.mie
    BY <1>1 DEF RaiseTrap
  <2>. QED BY <2>1, <2>2 DEF FrameKept
<1>2. ASSUME NEW pins \in SUBSET Pin, PreExec(pins) PROVE FrameKept'
  BY <1>1, <1>2 DEF PreExec, FrameKept
<1>3. ASSUME NEW from, NEW to, NEW code, Raise(from, to, code) PROVE FrameKept'
  BY <1>1, <1>3 DEF Raise
<1>4. CASE FetchMisaligned \/ VaIfFault \/ JumpMisaligned \/ Ecall \/ Ebreak \/ MemMisaligned
           \/ AccessFault \/ RaiseIllegal
  BY <1>3, <1>4
     DEF FetchMisaligned, VaIfFault, JumpMisaligned, Ecall, Ebreak, MemMisaligned, AccessFault,
         RaiseIllegal
<1>5. CASE Mret \/ (\E new \in Writable : WriteMstatus(new)) \/ (\E addr \in Addr : WriteMepc(addr))
  <2>1. ~frame'.valid
    BY <1>5 DEF Mret, WriteMstatus, WriteMepc, NoFrame
  <2>. QED BY <2>1 DEF FrameKept
<1>6. CASE Sret
  <2>1. status'.mpp = status.mpp /\ status'.mpie = status.mpie
    BY <1>6 DEF Sret, SretStatus, TypeOK, Status
  <2>. QED BY <1>6, <2>1 DEF Sret, FrameKept
<1>7. CASE \/ FetchAligned \/ VaIf \/ Plain \/ MemAligned \/ Access \/ NotIllegal \/ Illegal
           \/ \E npc \in Pc : Jump(npc)
           \/ \E mask \in SUBSET Irq : WriteMie(mask)
           \/ \E mask \in SUBSET Irq : WriteMip(mask)
           \/ PostExec
  BY <1>7 DEF FetchAligned, VaIf, Plain, MemAligned, Access, NotIllegal, Continue, Illegal, Jump,
              WriteMie, WriteMip, CsrWrites, PostExec, csrVars, trapVars, FrameKept
<1>. QED BY <1>2, <1>4, <1>5, <1>6, <1>7 DEF Next, Fetch, Exec

LEMMA FrameAlways == Spec => []FrameKept
<1>1. Init => FrameKept
  BY DEF Init, NoFrame, FrameKept
<1>2. FrameKept /\ UNCHANGED vars => FrameKept'
  BY DEF vars, csrVars, trapVars, FrameKept
<1>. QED BY <1>1, <1>2, FrameStep, TypeCorrect, PTL DEF Spec

(* A handler that leaves mepc and mstatus alone returns to exactly what    *)
(* the trap broke into.                                                    *)
THEOREM HandlersReturn == Spec => ReturnRestores
<1>1. ASSUME TypeOK, FrameKept, Mret, frame.valid
      PROVE  trap_pc' = frame.pc /\ next_priv' = frame.priv /\ status'.mie = frame.mie
  <2>1. status'.mie = status.mpie
    BY <1>1 DEF Mret, MretStatus, TypeOK, Status
  <2>. QED BY <1>1, <2>1 DEF Mret, FrameKept
<1>2. TypeOK /\ FrameKept /\ [Next]_vars =>
        [Mret /\ frame.valid =>
           trap_pc' = frame.pc /\ next_priv' = frame.priv /\ status'.mie = frame.mie]_vars
  BY <1>1
<1>. QED BY <1>2, FrameAlways, TypeCorrect, PTL DEF Spec, ReturnRestores

-----------------------------------------------------------------------------
(* Modified privilege. *)

LEMMA MprvStep ==
  ASSUME TypeOK, Settled, MprvOnlyInMachineMode, Next
  PROVE  MprvOnlyInMachineMode'
<1>1. ASSUME NEW cause, NEW mode, NEW under_way, RaiseTrap(cause, mode, under_way)
      PROVE  MprvOnlyInMachineMode'
  BY <1>1, ModeFacts DEF RaiseTrap, MprvOnlyInMachineMode
<1>2. ASSUME NEW pins \in SUBSET Pin, PreExec(pins) PROVE MprvOnlyInMachineMode'
  BY <1>1, <1>2 DEF PreExec, MprvOnlyInMachineMode
<1>3. CASE FetchMisaligned \/ VaIfFault \/ JumpMisaligned \/ Ecall \/ Ebreak \/ MemMisaligned
           \/ AccessFault \/ RaiseIllegal
  BY <1>1, <1>3
     DEF FetchMisaligned, VaIfFault, JumpMisaligned, Ecall, Ebreak, MemMisaligned, AccessFault,
         RaiseIllegal, Raise
<1>4. CASE Mret
  <2>1. status.mpp = U => status'.mprv = 0
    BY <1>4, ModeFacts DEF Mret, MretStatus, TypeOK, Status
  <2>. QED BY <1>4, <2>1 DEF Mret, MprvOnlyInMachineMode
<1>5. CASE Sret
  BY <1>5 DEF Sret, SretStatus, TypeOK, Status, MprvOnlyInMachineMode
<1>6. ASSUME NEW new \in Writable, WriteMstatus(new) PROVE MprvOnlyInMachineMode'
  <2>1. next_priv' = M
    BY <1>6 DEF WriteMstatus, CsrWrites, Executes, Goto, Underway, Settled
  <2>. QED BY <2>1, ModeFacts DEF MprvOnlyInMachineMode
<1>7. CASE \/ FetchAligned \/ VaIf \/ Plain \/ MemAligned \/ Access \/ NotIllegal \/ Illegal
           \/ \E npc \in Pc : Jump(npc)
           \/ \E mask \in SUBSET Irq : WriteMie(mask)
           \/ \E mask \in SUBSET Irq : WriteMip(mask)
           \/ \E addr \in Addr : WriteMepc(addr)
           \/ PostExec
  BY <1>7 DEF FetchAligned, VaIf, Plain, MemAligned, Access, NotIllegal, Continue, Illegal, Jump,
              WriteMie, WriteMip, WriteMepc, CsrWrites, PostExec, csrVars, trapVars,
              MprvOnlyInMachineMode
<1>. QED BY <1>2, <1>3, <1>4, <1>5, <1>6, <1>7 DEF Next, Fetch, Exec

(* mprv is never set on the way to user mode.                              *)
THEOREM MprvCleared == Spec => []MprvOnlyInMachineMode
<1>1. Init => MprvOnlyInMachineMode
  BY DEF Init, MprvOnlyInMachineMode
<1>2. MprvOnlyInMachineMode /\ UNCHANGED vars => MprvOnlyInMachineMode'
  BY DEF vars, csrVars, trapVars, MprvOnlyInMachineMode
<1>. QED BY <1>1, <1>2, MprvStep, SettledAlways, PTL DEF Spec
=============================================================================
