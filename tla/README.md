# TLA+ development for riscv-lab

riscv-lab is a five-stage, single-issue RV64 pipeline written in Chisel
(`src/chisel/playground/src`) and a C++ differential-test simulator
(`src/difftest/src`) that runs the generated RTL in lockstep with a reference
core and stops at the first commit on which the two disagree.  This directory
specifies both sides, the loop that compares them and the memories, bus, privilege
unit and translation behind them.  TLC checks every property on small instances;
TLAPS proves all the safety properties, and that the pipeline implements the
reference core, for every value of the constants.

Contents: [inventory](#1-inventory), [modules](#2-modules-and-their-correspondence-to-the-code),
[assumptions](#3-modelling-assumptions), [runs](#4-runs-bounds-and-what-they-show),
[known departures](#5-where-rtl-and-reference-disagree), [proofs](#6-proofs),
[gaps](#7-what-is-only-model-checked-and-what-is-not-modelled), [plan](#8-plan).

## 1. Inventory

`P/` stands for `src/chisel/playground/src/pipeline/`, `D/` for `src/difftest/src/`.

| Component | State | Operations | Talks to |
|---|---|---|---|
| Fetch (`P/fetch/FetchUnit.scala`) | FSM boot/send/receive, pc | next pc, fetch request, nop at a misaligned address | instruction SRAM; flush and target from Execute; stall from control |
| Decode (`P/decode/*.scala`) | stage register, 32 registers | decode, operand forwarding, exceptions found in decode, attaching interrupts | forwards from Execute, Memory, WriteBack; interrupt request and mode from the CSR unit |
| Execute (`P/execute/**`) | stage register | ALU, MDU, LSU address, BRU, CSR, chained exceptions, flush and target | data SRAM (request), Fetch, Decode, control |
| CSR unit (`P/execute/fu/Csr.scala`) | machine CSRs, mstatus, mip, mode, cycle | read, write, set, clear, trap, mret, interrupt request | interrupt pins, Execute, Decode |
| Memory, WriteBack (`P/memory/*`, `P/writeback/*`) | stage registers | take the load data, register write, the debug port of the simulator | data SRAM (answer), register file |
| Control (`P/ctrl/CtrlUnit.scala`) | none | stall on load-use, flush on redirect | every stage |
| Reference core (`D/rv_core.hpp`) | pc, GPRs, debug port | `exec`: one instruction per `step` | privilege unit |
| Reference privilege unit (`D/rv_priv.hpp`) | all CSRs, mode, TLB | `csr_*`, `raise_trap`, `mret`/`sret`, `pre_exec`/`post_exec`, `va_*` | bus, Sv39 |
| Lockstep simulator (`D/sim_mycpu.cpp`) | ticks, last commit, delay-slot state | clock and reset, step the reference at each commit, compare, time out | both sides |
| SRAM slave, crossbar, memory (`D/nscscc_sram*.hpp`, `D/mmio_mem.hpp`) | port registers, device map, bytes | per-edge read and strobed write | the RTL's two ports |
| System bus (`D/rv_systembus.hpp`) | device map, LR reservation | read, write, LR, SC, AMO | reference core |
| CLINT (`D/rv_clint.hpp`) | mtime, mtimecmp, msip | tick, register access, irq levels | (not attached here) |
| PLIC (`D/rv_plic.hpp`) | pending, enable, claimed, priorities | source levels, claim, complete | (not attached here) |
| Sv39 (`D/rv_sv39.hpp`) | TLB entries | translate, fill, `sfence.vma` | privilege unit |

What makes the system hard, and what correctness means for each part:

* **Pipeline.** Five instructions act at once.  Operands come from four places;
  a load's result is late by a cycle; a redirect kills two younger instructions
  while the load-use stall holds the same two.  Correct means: every instruction
  sees the operands an unpipelined machine would give it, none is skipped,
  repeated, or has an effect after it was killed, and the pipeline always
  reaches another commit (the simulator gives up after `commit_timeout` ticks).
* **CSR unit.** One instruction may at once write a CSR, raise several
  exceptions and carry an interrupt that was requested a cycle earlier, under
  another mstatus.  Correct means: traps are precise and prioritised, only a
  trap raises the privilege, an enabled interrupt is taken and a disabled one is
  not.
* **Reference and simulator.** The reference is the oracle of every test: where
  it differs from the RTL, one of them is wrong.  The comparison looks at pc and
  destination register only; memory and CSRs are seen once they reach a
  register.
  Correct means for the loop: no divergence of a register goes unnoticed except
  where the comparison does not look, the loop looks away for two commits at most,
  it tolerates exactly as many mismatches as it was told to, and neither calls a
  live core stuck nor runs forever on a dead one.
* **Reference privilege unit.** Interrupt check, fetch, instruction, its access,
  the illegal flag and returns share one trap state on one path through `exec`, and
  the mode changes one step after the trap.  Correct means: no path raises two
  traps, no interrupt is passed over, a handler returns to what it interrupted.
* **Memory behind the ports.** The RTL stores lanes and strobes through a
  crossbar, the reference bytes through a bus; memory is never compared.  Correct
  means: the same accesses leave the same memory, and the same answers where the
  reference has one.
* **Bus.** The device map must stay disjoint and complete over any sequence of
  `add_dev`, up to the end of the address space; an SC must not succeed over another
  write; an atomic must do what it is called, although it computes on registers.
* **TLB.** Pages of three sizes, global or of one address space, in one array: a
  fenced translation must be the one the tables give, and found once.

`PROJECT.json` lists the same components with their status, and under `hazards`
each place at which the code could go wrong without a test noticing.

## 2. Modules and their correspondence to the code

```
Isa ── Csr ── Core ── Lockstep ┄┄ INSTANCE RvCore (abstract)
 │              │          │
MCPrograms ── MCCore    MCLockstep
                           └── PipelineProofs

Alu ── MCAlu                         DiffTest ── DiffTestProofs
MmioMem ─┬─ MemPath ── MCMemPath     RvPriv ── PrivProofs
         └─ SystemBus ── MCSystemBus Sv39 ── MCSv39

Arithmetic ─┬─ AluProofs      (EXTENDS Alu)
            ├─ MemPathProofs  (EXTENDS MemPath)
            ├─ BusProofs      (EXTENDS SystemBus)
            └─ Sv39Proofs     (EXTENDS Sv39)
```

The pipeline group describes the RTL and the reference as `sim_mycpu` runs them.
`DiffTest` describes the loop of `sim_mycpu` around any RTL, `MemPath` the two
ways to memory, `RvPriv`, `SystemBus` and `Sv39` the parts of the reference in more
detail than `RvCore` needs.

* **`Isa`**: vocabulary: words (`0..Modulus-1`), instruction records, operand
  rules of the decode tables (`SrcOneRead`, `SrcTwoRead`, `RegWen`), CSR
  addresses, causes, modes.
* **`Csr`**: the CSR unit as a Mealy machine.  `CsrTick(e, exc, pins)` is the
  clock edge for execute-stage content `e`, incoming exceptions `exc` and
  interrupt pins.  Outputs (`CsrExc`, `CsrFlush`, `CsrTarget`, `CsrRead`,
  `InterruptRequest`) are operators of the state.  It keeps the code's order: a
  CSR write takes effect even under a trap, which then overrides mcause, mepc,
  mtval and mstatus; mret comes after traps.
* **`Core`**: the pipeline.  One variable per stage register (`id`, `ex`,
  `mem`, `wb`), the fetch FSM and pc, the SRAM answers (`irdata`, `drdata`), the
  register file, program and data memory.  Each combinational unit is an
  operator (`LsuExc`, `BruTarget`, `Forward`, `ExeConflict`, ...) and `Tick` is
  one rising edge, the conjunction of what each stage latches.  `Next` divides
  the edge by the control unit's verdict: `Advance`, `LoadUse`, `Redirect`.
  `Redirect` covers the edge in which a stall and a flush coincide.
* **`RvCore`**: the reference, `rv_core::exec` with `rv_priv`: one instruction
  per step, one action per opcode group.  It is the abstract specification.
* **`Lockstep`**: the refinement.  The reference takes its step at the edge
  that ends the instruction's cycle in Execute, which is where the RTL changes
  memory, CSRs and mode.  The mapping `ArchPc` is the address of the oldest
  instruction that has not executed; `ArchGpr` is the register file plus what
  Memory and WriteBack still owe it.  `Departs` names the situations in which
  RTL and reference are known to disagree, `Conventions` those that the programs
  of a run avoid.  `ConformingSpec` is `Core` restricted to steps from states in
  which no listed departure happens; a program that runs into one simply stops
  there, which is why those runs have `CHECK_DEADLOCK FALSE`.
* **`Alu`**: the arithmetic units of both sides at any width.  `AluResult` and
  `MduResult` follow `Alu.scala` and `Mdu.scala` with the widths Chisel gives
  intermediate results, `AluExec` follows `alu_exec` on signed integers; a
  register on each side goes through the same operations.  `Power` tabulates the
  powers of two.
* **`DiffTest`**: one step is one iteration of `riscv_test_run` or of
  `make_cpu_trace`, half a clock cycle.  `CommitCompared` is a commit with its
  reference step, in the code's order: `step` may end a `-rvtest` run before the
  commit is compared; then the comparison, the mismatch report with its two
  decrements of `delay`, the delay-slot counter, `last_commit`.  `CommitSkipped`
  is a commit taken for a delay slot, `NoCommit` any other iteration with the
  timeout.  The RTL's register file and three histories (`unseen`, `blind`,
  `silent`) exist to state what the loop can miss.
* **`MmioMem`**: `mmio_mem` as bytes (`do_read`, `do_write`), and the map of ranges that
  crossbar and bus keep: `add_dev`'s search for neighbours and the bus's lookup, with an
  end address that wraps as the code's `uint64_t` does.
* **`MemPath`**: one access made by both sides.  The RTL side composes
  `Lsu.scala` (lanes, strobes), the slave's run of strobes, the crossbar and the
  load extension of `Lsu'.scala`; the reference side `rv_core`'s cases, the
  `va_*` functions of the privilege unit without translation, and the bus.
* **`SystemBus`**: `add_dev`, `pa_read`, `pa_write`, `pa_lr`, `pa_sc`, `pa_amo_op`,
  one action per call, for any set of accesses, overlapping ones included; `last`
  remembers the last LR, what it read and whether a write from another start address
  has touched it since.
* **`RvPriv`**: one path through `rv_core::exec` in steps from test to test, each with
  its gotos, returns and flags (`ri`, `new_pc`): `pre_exec`, the alignment of pc, the
  fetch, the instruction as the privilege unit sees it, its access, the label
  `exception`, `post_exec`.
* **`Sv39`**: `sv39_tlb` with page walk, `local_tlbe_get`, `local_tlbe_insert` and
  `sfence_vma` while software rewrites the tables; a history marks translations
  that no fence has covered since their tables changed.
* **`MCPrograms`, `MC...`**: program families and constants for TLC.
* **`PipelineProofs`, `AluProofs`, `MemPathProofs`, `BusProofs`, `Sv39Proofs`,
  `PrivProofs`, `DiffTestProofs`**: the proofs (section 6), and **`Arithmetic`**: what
  they need to know of numbers.

`PROJECT.json` maps each definition to the lines it stands for.

## 3. Modelling assumptions

* **Words.** `Modulus` is 2^64 in the code.  Only addition, subtraction,
  multiplication, comparison and the CSR bit operations are used on words; the
  bit operations are parameters (`BitOr`, `BitClear`).
* **Instructions** are records of their fields.  Each format and functional
  unit is represented: all six branches, all six CSR operations, jal/jalr,
  lui/auipc, one or more ALU operations per format, `mul`, `ld`/`sd`, ecall,
  ebreak, mret, fence.  The rest of the ALU and MDU operations differ in data
  only, which `Alu` covers; the narrow loads and stores differ in lanes, which
  `MemPath` covers.  wfi is not in the vocabulary.
* **Memory in `Core`.** Data accesses are doublewords.  Program and data are separate, so
  a store never changes an instruction; every address is backed.
* **CSR layout.** The five mstatus bits and the three machine interrupt bits
  are packed into low bits of a word.  `mhartid` stands for all four identity
  registers, `misa` for a constant one, `none` for an address that neither side
  implements.  CSRs that only the reference has (`medeleg`, `mideleg`,
  `mcycle`, `minstret`, supervisor CSRs) are left out: the RTL traps on them.
* **Reset.** `Init` is the state the simulator's ten reset half-cycles leave.
  It drops reset in the same evaluation in which it raises the clock, so the
  instruction SRAM is still disabled at the first edge (`fstate = "boot"`).
* **Interrupt pins** are free at each edge within `Pins`.  The simulator never
  raises one (`Pins = {{}}`): all lockstep runs use that; the interrupt runs
  drive one pin.
* **Reference.** As `sim_mycpu` drives it: interrupts 0, `satp` 0, no
  `-rvtest` exit.  A read of `cycle` returns any word, because the two sides
  count different things.  Its assertion on reserved mtvec modes is modelled as
  the absence of a step.
* **The loop (`DiffTest`).** The program is any sequence of what the reference
  can do with a register or with the run, the RTL commits anything at any rising
  edge out of reset.  Nothing sets `dual_issue`, so the second commit port is left
  out, as is `-initgprs`.  The debug port has no write enable: `wen` is what the RTL
  does with its own register.  A program that rewrites mcycle under `-rvtest` could
  postpone the cycle limit; that is not modelled.
  `DelayAssumption` records that both tolerances (1500, 10) and the place of the
  dump (10) are even: with a pc history the count goes down in twos and the dump
  makes it odd, so that `delay-- == 0` is met and not stepped over.
* **Memory (`MemPath`).** `MemSize` is a multiple of the port's width; were it not, the
  crossbar, which looks at the first byte, and the bus, which looks at the whole
  access, would disagree at the end.  The RTL drops address bits 32 and up (left
  out).  `byte_mode` devices, address masks, warping and the `diff_mem` comparison of
  `mmio_mem` are set by no program here.
* **Bus.** Nobody adds a range that ends at 2^64, whose end `add_dev` would keep as 0.
  A word is any number of bytes, a register two words.  Accesses and operands are
  whatever a run puts into `Accesses` and `Operands`.
* **Privilege unit.** What no instruction here can change stays put: `medeleg`,
  `mideleg`, `satp`.  Both settings of `-onlymodem` are possible.  Vectored targets
  are in `RvCore`.  One address stands for all that are not aligned; what the bus
  answers and what an instruction is are open; writes of mcause and mtval, which
  nothing here reads, and the `-rvtest` exits are left out.
* **Sv39.** The class's contract with its callers: a canonical address (the code
  asserts it), and global pages mapped alike in every address space.

## 4. Runs, bounds and what they show

Bounds common to the runs of the pipeline
(`lockstep`, `core_*`, and the violations): `Modulus = 32` (the smallest width that holds the packed
mstatus and the cause numbers; addresses are slots 0..28 and four data cells, so
wrap-around, sign and misalignment all occur), `Reg = {0, 1, 2}` (x0 and two
more: enough for every pattern of two sources against three producers),
`PcInit = 8`, `CycleModulus = 1` (the counter is constant).  A program has a
two-instruction handler at the reset trap vector 0, three free slots chosen from
a menu of 8 to 16 instructions, a fourth that reads what they left, and a loop
back.  That puts every menu entry next to, and one instruction away from, every
other, a consumer of both registers behind all of them, and everything before and
after redirects of every kind.  Every run, of the pipeline or not, explores its
whole state space.

| Run | Checks | Shows |
|---|---|---|
| `lockstep` | `RefinesRvCore`, `OperandsArchitectural`, `InProgramOrder` | all mixes of 12 producers, loads, stores, branches and jumps; exceptions of every stage with handlers that rewrite mepc, store or compute; CSR accesses legal and illegal in both modes, with mret in and out: forwarding, stalls, redirects, traps and CSR effects are right in every combination |
| `alu` | `SameRegister` | 28 operations on all pairs of 8-bit words (4-bit word forms): the two implementations agree, division by zero, overflow and shift amounts included |
| `core` | `TypeOK`, `UserStaysUser`, `OnlyTrapsRaisePrivilege`, `CommitWithinThree`, `StaleOnlyBehindCsrWrite`, `AlwaysCommits`, `RequestHonoured` | a timer pin at any edge, over programs that change modes and trap in both (mret is unchecked in the RTL, and yet user mode cannot climb) and over programs that enable and mask it around loads, stores and branches |
| `difftest` | `TypeOK`, `DivergenceIsUnseen`, `BlindAtMostTwo`, `DelayNotOvershot`, `StuckMeansSilent`, `RvTestTerminates` | all 32 combinations of options against an RTL that commits anything: what a divergence can hide behind, and that the loop neither gives up early nor never |
| `memory` | `TypeOK`, `MemoriesAgree`, `OutcomesAgree` | accesses of every size at every address of the window and around it leave both memories equal, and give equal answers wherever the reference does not fault (section 5 has the others) |
| `systembus` | `TypeOK`, `DevicesDisjoint`, `DecodeExact`, `NoLostUpdate`, `AmoExact` | 5 requests that nest, cross and touch, in any order; two harts with LR, SC, stores and every atomic on two words, the pair they form and the word at the end of the address space |
| `sv39` | `TypeOK`, `HitsAgreeWithTables`, `AtMostOneMatch` | two address spaces over 4K, 2M, 1G and global pages while software turns pages into tables and back, every form of sfence.vma |
| `priv` | `TypeOK`, `NoSecondTrap`, `NoInstructionPastInterrupt`, `MprvOnlyInMachineMode`, `ReturnRestores` | every path through `exec` with interrupt lines, faults of fetch and access, CSR writes, traps and returns in both modes |
| `trap_forward`, `interrupt_disabled`, `interrupt_cause` | one departure each | section 5 |
| `sc_overlap` | `ScFindsWhatLrRead` | an error of the bus, section 5 |

Bounds of the others:

* `difftest`: two registers (x0 and a0), two values; `CommitTimeout = 8`,
  `RstTicks = 2`, `CycleLimit = 3`, tolerances 4 and 2 with the dump at 2, so that
  the timeout, the limit, the dump before, at and after the tolerance, and their
  races are all reached.  39,744 states.  At the code's numbers the timeout
  after a commit is 1,499 clock cycles and 1,495 at boot; its message speaks of
  `commit_timeout/2`, 1,500.
* `memory`: a doubleword of four one-bit bytes, two words in the window, one of them
  backed, unmapped words on both sides; every memory image, three stored patterns.
  1,593 states.
* `systembus`: two-bit bytes, a word of one, so that registers are numbers below 16;
  16 addresses, 5 ranges and 4 accesses, the last of which ends where the address space
  does.  Operands 7 and -2: -2 is a sign-extended word, 7 is a word -1 under an upper
  half of its own; every value of a pair occurs in memory.  26,479 states.
  `sc_overlap` has the same constants.
* `sv39`: tables of two entries and three levels, eight pages, a TLB of two entries,
  three addresses.  The number of changes is unbounded.  78,480 states.  A lookup
  that finds two entries, possible while a fence is owed, ends the program at its
  assertion, so `CHECK_DEADLOCK` is off.
* `priv`: interrupts 1 (settable by software only) and 7 (a line), two aligned addresses
  and a misaligned one, at which instructions wrap around.  2,159,993 states.

**Fairness.** `WF_vars(Next)`: the harness toggles the clock for as long as it
runs, and nothing else schedules the core.  The environment's choice of pins has
no fairness: mip bits are sticky, so a request that has been latched needs none.
`AlwaysCommits` and `RequestHonoured` rest on this alone.  In `DiffTest` it is
`WF_vars(RiscvTestRun \/ MakeCpuTrace)`: the `while` loop goes on as long as it is
not told to stop; a stop from outside may come, but need not.

Every property has a mutant in `PROJECT.json`: a definition changed as a
plausible bug would change it (forwarding from the oldest producer, a load-use
check on one operand only, mepc one instruction late, ...), under which TLC finds
the property violated.  The mutated bodies are kept next to the definition they
vary.

## 5. Where RTL and reference disagree

The refinement holds under ten conventions (`Lockstep!Convention`).  One is kept
as a run that breaks it (`trap_forward`); the others can be seen in the same way,
with `lockstep`'s constants and `Conventions` without the one in question.

| Convention | What happens |
|---|---|
| `trap_forward` | An instruction that traps keeps `reg_wen`, and the forwarding network looks at that alone: the first instruction of the handler, in Decode while the trapped one is in WriteBack, reads the result that must not be delivered.  RTL bug. |
| `jalr_odd` | The reference clears bit 0 of jalr's immediate instead of the sum: with an odd base it traps.  Reference bug. |
| `vectored_exception` | The reference adds 4*cause to a vectored mtvec for exceptions as well.  Reference bug. |
| `mret_user` | mret executes in user mode in the RTL.  RTL bug; `UserStaysUser` says why it does not raise the privilege. |
| `readonly_set` | csrrs on a read-only CSR with a source register that holds 0 is legal in the RTL (it tests the value, not the register number).  RTL bug. |
| `cycle_user` | The RTL lets user mode read `cycle`; a comment of the reference says it always traps. |
| `reserved_mtvec` | The reference asserts on a reserved mtvec mode; the RTL stores it. |
| `wide_mie`, `mcounteren_write`, `satp_access` | Different sets of implemented bits or registers. |

Two more concern interrupts, on which the lockstep test is blind because the
simulator drives none: an interrupt sampled in Decode traps a cycle later
although the CSR write ahead of it disabled it (`interrupt_disabled`), and the
msi and mei pins are crossed on their way into mip (`interrupt_cause`).
`StaleOnlyBehindCsrWrite` bounds the former: it happens behind a write of
mstatus or mie one instruction ahead, and nowhere else.

Accesses on which the reference faults (an address outside the devices or past the
backed part of one) are where the two memories' answers part: the RTL raises no access
fault at all.  The crossbar answers an unmapped read with the marker `0xdec0dee3`, a
read past the backed part leaves the word that was there before, and the instruction
goes on, where the reference traps.  `OutcomesAgree` leaves those out; `MemoriesAgree`
covers them: such a store changes neither memory.

Two errors are the reference bus's own, on operations that the RTL, which has no
atomics, cannot run:

* `pa_write` asks whether `lr_pa + size <= start_addr + size`, with the
  size of the write on both sides, which holds for a write from `lr_pa` or above; with
  the other half of the test it comes down to `start_addr == lr_pa`.  A write from
  another start that changes a reserved byte leaves the reservation, and the SC
  succeeds over it (run `sc_overlap`).  `NoLostUpdate` says what the bus does guarantee.
* max, min, maxu and minu of words compare the whole register (`rv_core.hpp:679` passes
  `GPR[rs2]`) with the sign-extended word (`rv_systembus.hpp:132` to 141).  With an
  operand that is not sign-extended, say 2^32 against a word 1, amomax.w stores 0, the
  lower half of the larger register, where the larger word is 1.  `AmoExact` says how
  far it goes: the other operations are right for every register, these four for
  sign-extended ones, and for the rest they leave one of the two words.  Asked to be
  right there as well, TLC refutes it as soon as there is a device.

The end of an access is computed in 64 bits: one that ends at the end of the address space
or past it, such as `ld -8(x0)`, has an end near 0 and passes the test
`rv_systembus.hpp:35` of the last device, wherever that ends (`DecodeExact`, first
case).  In `sim_mycpu` the device is [2^31, 2^32) with 128 MiB behind it, the
offset `2^31 - 8` is not backed, and the access faults after all.

Three differences between comments and code of the reference, found while modelling
and not run against the RTL: `rv_systembus.hpp:73` says that the core checks the
alignment of LR, SC and atomics, and `rv_core.hpp:621` to 690 does not;
`rv_priv.hpp:46` says that `-onlymodem` leaves machine mode only, and mret then
sets mpp to U, so that a second mret leaves it; the permission checks at
`rv_priv.hpp:418` and 539 test `!X` where mxr calls for `X` (mxr is never set
here).  mret and sret are not counted in minstret.

## 6. Proofs

Every safety property that a passing run checks, and the refinement, is a theorem: it
holds for every value of the constants that satisfies the named assumptions.

| Module | Assumptions |
|---|---|
| `PipelineProofs` | `ModulusAssumption` (a multiple of 8, at least 32), `RegAssumption`, `PcInitAssumption`, `ProgramAssumption`, `CycleModulusAssumption`, `PinsAssumption`, `ConventionsAssumption`; `BitAssumption`: setting and clearing bits gives words, and neither changes anything with no bit to set or clear |
| `AluProofs` | `WidthAssumption`: XLEN and HLEN are powers of two, HLEN the smaller; `BitwiseAssumption`: and, or, xor of words are words |
| `MemPathProofs` | `LanesAssumption`, `ImageAssumption`, `RadixAssumption`, `MemSizeAssumption`, `AddrLimitAssumption` (section 3) |
| `BusProofs` | `RadixAssumption`, `MemSizeAssumption`, `AddrLimitAssumption`; `BusAssumption`: the sets of ranges, accesses and operands have their types, at least one hart; `BitwiseAssumption`: the low bits of and, or, xor are those of the low bits of the operands |
| `Sv39Proofs` | `Sv39Assumption`: at least two entries in a table, at least one entry in the TLB, global pages mapped alike |
| `PrivProofs` | `IrqAssumption`, `PcAssumption` |
| `DiffTestProofs` | `RegAssumption`, `WordAssumption`, `TickAssumption`, `DelayAssumption` |

Each inductive invariant named below was checked by TLC, as an invariant of the run of
its module, before it was proved.

### The pipeline (`PipelineProofs`)

* `TypeCorrect`: `TypeOK` is inductive; one lemma per unit and stage.
  It carries facts that are not about shapes: a memory access that is not
  reported misaligned hits a cell, a fetch that is made hits a slot, and MPP is
  a mode that exists.
* `UserMppIsUser` and `PrivilegeRaisedByTrap`: `UserStaysUser` is
  inductive together with `TypeOK`.  A CSR write in user mode is illegal
  (every mstatus address needs M), a trap goes to M, and mret leaves U in MPP.
  The action property follows: mret in user mode sets the mode to MPP, which is
  U.
* `PipelineNeverDrains`: `CommitWithinThree` needs to know that the
  slot Fetch hands on is a real instruction.  The strengthening `Flowing` says
  so: once anything is in Decode, Execute or Memory, the fetch FSM has left its
  start-up states for good.  Then a redirect, which empties the two youngest
  slots, comes from a valid instruction that goes on to Memory, and a stall, which
  empties one, keeps Decode occupied.
* `StaleInterruptBounded`: the sampled request is compared with the
  present one; only a CSR write in Memory, or a trap or mret, which empties
  Execute, can have changed it downwards.
* `ProgramOrder`: `InProgramOrder` is inductive together with `Flowing`.
* `OperandsCorrect`: with `"trap_forward"` among the
  conventions, the operands in Execute are the architectural ones.  Forwarding
  asks for `reg_wen` alone; the strengthening `ForwardingSafe` says why that is
  enough in Execute and Memory: an empty slot writes no register but x0
  (`Quiet`), and an instruction that trapped has nothing behind it in Decode
  while it is in Memory.  In WriteBack it may have, which is the bug of
  section 5 and the reason for the convention.  Lemma `ForwardIsArch` compares
  the youngest-first search of `Forward` with what `ArchGpr` will hold after the
  edge, stage by stage.
* `PipelineRefines`: with all conventions and quiet pins, `ConformingSpec`
  implements `RvCore`.  `Lockstepped` adds to the invariants above what an
  instruction carries (`InFlight`): what was fetched and decoded is what the program has
  at its address, and its exceptions are those its address, its encoding and the mode
  call for, and no interrupt is among them.  Then
  an edge that leaves an empty Execute stage is a stutter (`StutterStep`: Memory and
  WriteBack only pay what `ArchGpr` already counts), and one that ends an
  instruction's cycle is the reference's step for it: one lemma per opcode group
  (`ComputeStep`, `LoadStoreStep`, `BranchStep`, `JumpStep`, `CsrStep`,
  `MretStep`, `FenceStep`) and per source of exceptions
  (`FetchMisalignedStep`, `DecodeTrapStep`).  `SamePermission`,
  `CsrReadAgrees` and `CsrWriteAgrees` compare the two CSR files address by
  address; each of the conventions is used at the place where the two would part.

### Arithmetic and memory

* `AluProofs!RegistersAgree`: `SameSigned` (also: the reference's register is a signed
  word) is inductive.  One lemma per group of operations shows both results congruent
  modulo the width that is cut to; `PlainResult`, `WholeResult` and `HalfResult` turn
  that into equality of the bits.  `DivSignedFacts` is why the RTL's extra bit makes the
  overflowing division right, `ShiftFacts` why shift amounts may be taken from the cut
  operand, and needs widths that are powers of two.
* `MemPathProofs`: `MemoriesStayEqual` and `AccessesAgree` are inductive with
  `TypesCorrect`.  `LowFacts` says that an aligned access lies in one word, `RunOne` that
  its strobes are then one run, so that `DataChannelWrite`, a fold over runs, is one
  `do_write` (`WriteOne`); `StoreAgrees`, `LoadAgrees` and `FetchAgrees` compare bytes.
* `BusProofs!MapDisjoint` and `LookupExact`: `WellMapped` (accepted requests, disjoint,
  each aligned to its length) is inductive, because in a disjoint map whatever overlaps
  a new range overlaps one of its two neighbours; and the last range that starts
  at or before an address is the only one that can hold it.
* `BusProofs!UpdatesKept`: `Tracked` says of a valid reservation that it is the last
  LR's, and that where this LR read something from a place that does not wrap, and no
  write from another start has touched it since, a device still answers there with what
  was read (`Current`).  A write from the same start ends the reservation, whatever its
  size (`DropsSameStart`); one from another start either touches it, which `last` notes,
  or leaves its bytes alone (`ValueElsewhere`); a device that is added cannot take
  over an address that one already answers.
* `BusProofs!AtomicsExact`: the lemmas below it take numbers to bytes and back (`Bytes`,
  `Number`, at both sizes: `NumberOfBytes`, `ReadBack`) and follow each atomic through
  sign extension and cut (`AmoAgrees`); `ComparisonPicks` is the rest of the comparing ones.
* `Sv39Proofs!HitsCorrect` and `OneMatch`: `Coherent` ties the two to each other (a
  refill is made where nothing matched) and to `GlobalsAgree`: a global entry that is not
  stale agrees with the tables of every address space, and is the only global one at
  its address.  Without that a fence for one address space could seem to cover
  an entry it leaves.

### Privilege unit and comparison loop

* `PrivProofs`: `TypeCorrect`, then two strengthenings.  `Settled` says that from the
  interrupt check to the label `exception` no trap is under way, nothing is illegal yet
  and the mode is the one chosen for the instruction, and that at the label an illegal
  instruction has raised nothing.  It gives `TrapsNeverCollide`: every raise on the way
  leads to the label (`RaiseSettled`), and the one at the label finds no trap.
  `InterruptsFirst` rests on lemma `Int2IndexFacts`: the priority search finds a member of
  every set that is not empty.  `FrameKept` (mepc, mpp and mpie still hold what the last
  trap saved, until something overwrites them) gives the action property
  `HandlersReturn`.  `MprvCleared` is inductive with `Settled`.
* `DiffTestProofs`: `TypeCorrect` with `InTime` (while the loop runs the timeout is
  not reached).  `UnseenOnly`: `DivergenceIsUnseen` is inductive; the case that
  matters is the compared write.  `AtMostTwoSlots` needs `SlotsCounted`: while slots
  are left `delayslot_flag` is down, and the slots passed and left are two.
  `NoFalseAlarm` needs `SilenceCounted`, which ties silent clock cycles to half
  cycles since the last commit, through the reset, where clock and reset counter
  have the same parity.  `ToleranceEnds` needs `DelayParity`: even down to the dump,
  odd below it.

### Numbers (`Arithmetic`)

The provers have no theory of products, quotients and remainders of variables.
`DivisionUnique` (one quotient and remainder), `RemainderTwice`, `RemainderUpper` and
the calculus of `Congruent` supply it.  Induction over a number is stated for a set
(`Induction`, from the least member of its complement), which avoids
theorems with operator parameters; `Recursion` gives the existence of functions defined by
recursion on a number, and with it that `Power` of `Alu` and `SystemBus` and `Number` of
`SystemBus` are what their definitions say.

## 7. What is only model-checked, and what is not modelled

Only model-checked: the liveness properties `AlwaysCommits`, `RequestHonoured` and
`RvTestTerminates` (liveness under fairness is beyond the prover here), and the
departures of section 5, which are counterexamples.  `PipelineRefines` assumes quiet pins
and all conventions, like the run: with a departure allowed it is false.  How the steps of
two modules compose (that the accesses `Core` makes go through `MemPath`'s lanes) is
neither checked nor proved; section 8.

Not modelled, with the reason:

* **CLINT and PLIC** (`rv_clint.hpp`, `rv_plic.hpp`): class templates that no program
  of the repository instantiates, so no member function is compiled and no
  caller fixes the order of calls, the ticks, or the number of sources.  Reading them
  shows why that matters: `set_cmp` of the CLINT would not compile, and the PLIC
  tests `pending >> i` without `& 1`, counts contexts from one in one place and from
  zero in another, and indexes its enable words by a byte position.  A model would
  have to choose what they were meant to do.
* **Compressed instructions** (`rv_core.hpp:889` to 1222): `hasCExt` is false.
* **Supervisor traps and delegation** in `rv_priv.hpp`, and the translated branches of
  `va_read`, `va_write`, `va_if` and the atomics there: nothing sets `mideleg`,
  `medeleg` or `satp` in this simulator.
* **Instruction encodings**, among them the reserved ones on which RTL and
  reference decoding differ, such as a `slli` whose immediate is negative, which
  the reference executes (`rv_core.hpp:400` tests `imm >= 64` on a signed value) and
  the RTL's pattern rejects.
* **Test programs, build files, trace output**: no behaviour of the system.

Two effects of interrupts are modelled but have no property: a store or CSR
write with an interrupt attached takes effect and is executed again after the
handler, and a read of `cycle` loses a tick.

## 8. Plan

1. Done: `Isa`, `Csr`, `Core`, `RvCore`, `Lockstep`, `Alu`, `DiffTest`, `RvPriv`,
   `MmioMem`, `MemPath`, `SystemBus`, `Sv39` and their runs.
2. Done: proofs of every safety property of the runs, and of the refinement.
3. Lanes: a refinement from the one-cell memory of `Core` to `MemPath`, proved with
   the lemmas of `MemPathProofs`.
4. The refinement without `trap_forward` for handlers that do not read the trapped
   instruction's register, so that the convention constrains fewer programs.
