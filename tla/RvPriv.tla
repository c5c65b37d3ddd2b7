-------------------------------- MODULE RvPriv --------------------------------
(***************************************************************************)
(* The reference's privilege unit (rv_priv.hpp) as rv_core::exec steps it: *)
(* interrupts, traps, returns and the CSRs they depend on.  RvCore has the *)
(* instructions; here an instruction is what it asks of this unit.         *)
(*                                                                         *)
(* exec runs from one of its tests to the next in each step here, with its *)
(* own flags ri and new_pc:                                                *)
(*   "pre"       pre_exec with the interrupt lines                         *)
(*   "fetch"     the alignment of pc                                       *)
(*   "va_if"     the fetch itself                                          *)
(*   "exec"      the instruction                                           *)
(*   "access"    its access, when it has one                               *)
(*   "exception" the label: an illegal instruction, flagged on the way     *)
(*   "post"      the next pc and post_exec                                 *)
(* What the bus answers is left open.  mideleg, medeleg and satp are never *)
(* written and stay 0: no trap goes to an S mode, no address is translated.*)
(***************************************************************************)
EXTENDS Integers

CONSTANTS
  Irq,        \* interrupts in play, by their bit in ip and ie
  Pin,        \* those with a line: MEI, MSI, MTI and SEI; SSI and STI have none
  PcCount     \* instruction addresses, counted in instructions; 0 is the handler

VARIABLES
  only_modeM, \* the command line's choice of a core with machine mode alone
  phase,      \* where exec is
  pc,
  new_pc,     \* the instruction has set pc itself
  ri,         \* the instruction is illegal
  cur_priv, next_priv,
  status,     \* mstatus
  ie, ip,     \* mie and mip
  mepc, mcause,
  cur_need_trap, trap_pc,
  aborted,    \* the assertion of raise_trap has failed
  frame       \* history: what the last trap interrupted

csrVars == <<status, ie, ip, mepc, mcause>>
trapVars == <<cur_need_trap, trap_pc, next_priv, aborted, frame>>
vars == <<only_modeM, phase, pc, new_pc, ri, cur_priv, csrVars, trapVars>>

U == 0
M == 3
Bit == 0..1
Pc == 0 .. PcCount - 1
Misaligned == PcCount   \* any address between two instructions
Addr == Pc \cup {Misaligned}

(* The order of int2index.                                                  *)
Priority == <<11, 3, 7, 9, 1, 5>>
NoInterrupt == 24   \* exc_custom_ok
InstrMisalign == 0
InstrAccFault == 1
IllegalInstr == 2
Breakpoint == 3
MemMisalign == {4, 6}   \* of a load and of a store
MemAccFault == {5, 7}
EcallFrom(mode) == mode + 8
Causes == [interrupt: {0}, code: 0..11] \cup [interrupt: {1}, code: Irq]
Exc(code) == [interrupt |-> 0, code |-> code]

Status == [mie: Bit, mpie: Bit, mpp: {U, M}, mprv: Bit, sie: Bit, spie: Bit]
NoFrame == [valid |-> FALSE, pc |-> 0, priv |-> M, mie |-> 0]

(* reset(): a core with machine mode alone starts with mpp M.               *)
Init ==
  /\ only_modeM \in BOOLEAN
  /\ phase = "pre"
  /\ pc \in Pc /\ new_pc = FALSE /\ ri = FALSE
  /\ cur_priv = M /\ next_priv = M
  /\ status = [mie |-> 0, mpie |-> 0, mpp |-> IF only_modeM THEN M ELSE U, mprv |-> 0,
               sie |-> 0, spie |-> 0]
  /\ ie = {} /\ ip = {}
  /\ mepc = 0 /\ mcause = Exc(0)
  /\ cur_need_trap = FALSE /\ trap_pc = 0
  /\ aborted = FALSE
  /\ frame = NoFrame

-----------------------------------------------------------------------------

(* int2index.                                                               *)
Int2Index(int_mask) ==
  IF int_mask = {} THEN NoInterrupt
  ELSE Priority[CHOOSE k \in DOMAIN Priority :
                  Priority[k] \in int_mask /\ \A j \in 1 .. k - 1 : Priority[j] \notin int_mask]

(* check_and_raise_int's choice, for pending bits and a mode.               *)
FinalInt(pending, mode) ==
  IF mode = M /\ status.mie = 0 THEN NoInterrupt ELSE Int2Index(pending \cap ie)

(* raise_trap to M, while a trap is under way or not.  The vector is a      *)
(* matter of RvCore.                                                        *)
RaiseTrap(cause, mode, under_way) ==
  /\ aborted' = (aborted \/ under_way)
  /\ cur_need_trap' = TRUE
  /\ mcause' = cause
  /\ mepc' = pc
  /\ status' = [status EXCEPT !.mpie = status.mie, !.mie = 0, !.mpp = mode]
  /\ trap_pc' = 0
  /\ next_priv' = M
  /\ frame' = [valid |-> TRUE, pc |-> pc, priv |-> mode, mie |-> status.mie]

-----------------------------------------------------------------------------
(* Before the instruction. *)

(* The lines overwrite their bits, whatever a program wrote there.          *)
Sampled(pins) == (ip \ Pin) \cup pins

(* if (priv.need_trap()) goto exception.                                    *)
AfterCheck == IF cur_need_trap' THEN "exception" ELSE "fetch"

(* A mutant: the check comes before the mode changes.                       *)
PreExecOldMode(pins) ==
  /\ phase = "pre"
  /\ ip' = Sampled(pins)
  /\ cur_priv' = next_priv
  /\ new_pc' = FALSE /\ ri' = FALSE
  /\ LET int == FinalInt(ip', cur_priv)
     IN  IF int # NoInterrupt
         THEN RaiseTrap([interrupt |-> 1, code |-> int], cur_priv', FALSE)
         ELSE /\ cur_need_trap' = FALSE
              /\ UNCHANGED <<mcause, mepc, status, trap_pc, next_priv, aborted, frame>>
  /\ phase' = AfterCheck
  /\ UNCHANGED <<only_modeM, pc, ie>>

(* pre_exec forgets a trap before it checks for an interrupt.               *)
PreExec(pins) ==
  /\ phase = "pre"
  /\ ip' = Sampled(pins)
  /\ cur_priv' = next_priv
  /\ new_pc' = FALSE /\ ri' = FALSE
  /\ LET int == FinalInt(ip', cur_priv')
     IN  IF int # NoInterrupt
         THEN RaiseTrap([interrupt |-> 1, code |-> int], cur_priv', FALSE)
         ELSE /\ cur_need_trap' = FALSE
              /\ UNCHANGED <<mcause, mepc, status, trap_pc, next_priv, aborted, frame>>
  /\ phase' = AfterCheck
  /\ UNCHANGED <<only_modeM, pc, ie>>

-----------------------------------------------------------------------------

(* From one test of exec to the next.                                       *)
Goto(from, to) == phase = from /\ phase' = to /\ UNCHANGED <<only_modeM, cur_priv>>

Continue(from, to) == Goto(from, to) /\ UNCHANGED <<pc, new_pc, ri, csrVars, trapVars>>

Raise(from, to, code) ==
  /\ Goto(from, to)
  /\ RaiseTrap(Exc(code), cur_priv, cur_need_trap)
  /\ UNCHANGED <<ie, ip, pc, ri>>

(* The fetch. *)

FetchMisaligned ==
  pc = Misaligned /\ Raise("fetch", "exception", InstrMisalign) /\ UNCHANGED new_pc
FetchAligned == pc # Misaligned /\ Continue("fetch", "va_if")

VaIfFault == Raise("va_if", "exception", InstrAccFault) /\ UNCHANGED new_pc
VaIf == Continue("va_if", "exec")

Fetch == FetchMisaligned \/ FetchAligned \/ VaIfFault \/ VaIf

-----------------------------------------------------------------------------
(* The instruction, as what it asks of this unit. *)

Executes == Goto("exec", "exception") /\ UNCHANGED ri

Plain == Continue("exec", "exception")

(* jal, jalr and a branch that is taken.  A branch sets new_pc before it    *)
(* looks at the target.                                                     *)
Jump(npc) ==
  /\ Executes
  /\ pc' = npc /\ new_pc' = TRUE
  /\ UNCHANGED <<csrVars, trapVars>>
JumpMisaligned == Raise("exec", "exception", InstrMisalign) /\ new_pc' \in BOOLEAN

(* Nothing is raised where the instruction is decoded as illegal or this    *)
(* unit refuses it: csr_op_permission_check, csr_read, csr_write, mret and  *)
(* sret return false.                                                       *)
Illegal ==
  /\ Goto("exec", "exception")
  /\ ri' = TRUE
  /\ UNCHANGED <<pc, new_pc, csrVars, trapVars>>

Ecall == Raise("exec", "exception", EcallFrom(cur_priv)) /\ UNCHANGED new_pc
Ebreak == Raise("exec", "exception", Breakpoint) /\ UNCHANGED new_pc

(* A mutant: no return after a misaligned address.                          *)
MemMisalignedGoesOn ==
  \E code \in MemMisalign : Raise("exec", "access", code) /\ UNCHANGED new_pc

(* mem_read and mem_write return once an address is misaligned.  An atomic  *)
(* access skips the test.                                                   *)
MemMisaligned ==
  \E code \in MemMisalign : Raise("exec", "exception", code) /\ UNCHANGED new_pc
MemAligned == Continue("exec", "access")
AccessFault ==
  \E code \in MemAccFault : Raise("access", "exception", code) /\ UNCHANGED new_pc
Access == Continue("access", "exception")

(* A mutant: mret does not restore mie.                                     *)
MretStatusMasked ==
  [status EXCEPT !.mpie = 1, !.mpp = U, !.mprv = IF status.mpp # M THEN 0 ELSE @]

MretStatus ==
  [status EXCEPT !.mie = status.mpie, !.mpie = 1, !.mpp = U,
                 !.mprv = IF status.mpp # M THEN 0 ELSE @]

Mret ==
  /\ cur_priv = M
  /\ Executes
  /\ status' = MretStatus
  /\ next_priv' = status.mpp
  /\ cur_need_trap' = TRUE
  /\ trap_pc' = mepc
  /\ frame' = NoFrame
  /\ UNCHANGED <<ie, ip, mepc, mcause, aborted, pc, new_pc>>

(* A mutant: sret leaves mprv as it is.                                     *)
SretStatusMprv == [status EXCEPT !.sie = status.spie, !.spie = 1]
SretStatus == [status EXCEPT !.sie = status.spie, !.spie = 1, !.mprv = 0]

(* spp has one bit and nothing sets it: sret in M goes to U, and sepc is 0. *)
Sret ==
  /\ cur_priv = M
  /\ Executes
  /\ status' = SretStatus
  /\ next_priv' = U
  /\ cur_need_trap' = TRUE
  /\ trap_pc' = 0
  /\ UNCHANGED <<ie, ip, mepc, mcause, aborted, pc, new_pc, frame>>

(* A mutant: reserved values of mpp are stored.                             *)
SetMstatusAnyMpp(new) ==
  IF only_modeM
  THEN [status EXCEPT !.mie = new.mie, !.mpie = new.mpie]
  ELSE [status EXCEPT !.mie = new.mie, !.mpie = new.mpie, !.mprv = new.mprv, !.mpp = new.mpp]

(* csr_write of mstatus: a core with M alone has only mie and mpie.         *)
SetMstatus(new) ==
  IF only_modeM
  THEN [status EXCEPT !.mie = new.mie, !.mpie = new.mpie]
  ELSE [status EXCEPT !.mie = new.mie, !.mpie = new.mpie, !.mprv = new.mprv,
                      !.mpp = IF new.mpp \in {U, M} THEN new.mpp ELSE @]

(* What a program can put into these bits, reserved values of mpp included. *)
Writable == [mie: Bit, mpie: Bit, mpp: 0..3, mprv: Bit]

CsrWrites == cur_priv = M /\ Executes /\ UNCHANGED <<pc, new_pc, cur_need_trap, trap_pc,
                                                     next_priv, aborted, mcause>>

WriteMstatus(new) ==
  /\ CsrWrites
  /\ status' = SetMstatus(new)
  /\ frame' = NoFrame
  /\ UNCHANGED <<ie, ip, mepc>>

WriteMie(mask) == CsrWrites /\ ie' = mask /\ UNCHANGED <<ip, status, mepc, frame>>
WriteMip(mask) == CsrWrites /\ ip' = mask /\ UNCHANGED <<ie, status, mepc, frame>>

WriteMepc(addr) ==
  /\ CsrWrites
  /\ mepc' = addr
  /\ frame' = NoFrame
  /\ UNCHANGED <<ie, ip, status>>

-----------------------------------------------------------------------------
(* After the instruction. *)

(* At the label exception.                                                  *)
RaiseIllegal == ri /\ Raise("exception", "post", IllegalInstr) /\ UNCHANGED new_pc
NotIllegal == ~ri /\ Continue("exception", "post")

PostExec ==
  /\ Goto("post", "pre")
  /\ pc' = IF cur_need_trap THEN trap_pc
           ELSE IF new_pc THEN pc ELSE (pc + 1) % PcCount
  /\ cur_need_trap' = FALSE
  /\ UNCHANGED <<new_pc, ri, csrVars, trap_pc, next_priv, aborted, frame>>

Exec ==
  \/ Plain \/ (\E npc \in Pc : Jump(npc)) \/ JumpMisaligned
  \/ Illegal \/ Ecall \/ Ebreak
  \/ MemMisaligned \/ MemAligned \/ AccessFault \/ Access
  \/ Mret \/ Sret
  \/ \E new \in Writable : WriteMstatus(new)
  \/ \E mask \in SUBSET Irq : WriteMie(mask)
  \/ \E mask \in SUBSET Irq : WriteMip(mask)
  \/ \E addr \in Addr : WriteMepc(addr)

Next ==
  \/ \E pins \in SUBSET Pin : PreExec(pins)
  \/ Fetch
  \/ Exec
  \/ RaiseIllegal \/ NotIllegal
  \/ PostExec

Spec == Init /\ [][Next]_vars

-----------------------------------------------------------------------------

TypeOK ==
  /\ only_modeM \in BOOLEAN
  /\ phase \in {"pre", "fetch", "va_if", "exec", "access", "exception", "post"}
  /\ pc \in Addr /\ new_pc \in BOOLEAN /\ ri \in BOOLEAN
  /\ cur_priv \in {U, M} /\ next_priv \in {U, M}
  /\ status \in Status
  /\ ie \subseteq Irq /\ ip \subseteq Irq
  /\ mepc \in Addr /\ mcause \in Causes
  /\ cur_need_trap \in BOOLEAN /\ trap_pc \in Addr
  /\ aborted \in BOOLEAN
  /\ frame \in [valid: BOOLEAN, pc: Addr, priv: {U, M}, mie: Bit]

(* raise_trap asserts that no trap is under way.  On no path through exec   *)
(* is it called twice, or after a return: not for an interrupt and a fetch  *)
(* or an instruction behind it, not for an address and the access that      *)
(* follows it, not for an instruction that is found illegal after it has    *)
(* raised a trap or redirected the core.                                    *)
NoSecondTrap == ~aborted

(* No instruction is fetched or executed while an interrupt is pending,     *)
(* enabled and unmasked in the mode it executes in, whichever earlier       *)
(* instruction, return or line has made it so.                              *)
NoInstructionPastInterrupt ==
  phase \in {"fetch", "va_if", "exec"} =>
    \/ ip \cap ie = {}
    \/ cur_priv = M /\ status.mie = 0

(* A return from a handler that wrote neither mepc nor mstatus goes on      *)
(* exactly where the trap broke in, in the same mode with the same mie,     *)
(* however many traps and returns, sret among them, went before.            *)
ReturnRestores ==
  [][Mret /\ frame.valid =>
       trap_pc' = frame.pc /\ next_priv' = frame.priv /\ status'.mie = frame.mie]_vars

(* mprv is only ever set in machine mode, so that no trap from user mode    *)
(* enters a handler whose loads and stores act with user privilege.         *)
MprvOnlyInMachineMode == next_priv = U => status.mprv = 0

ASSUME IrqAssumption == Pin \subseteq Irq /\ Irq \subseteq {11, 3, 7, 9, 1, 5}
ASSUME PcAssumption == PcCount \in Nat \ {0}
=============================================================================
