------------------------------- MODULE DiffTest -------------------------------
(***************************************************************************)
(* The lockstep harness of sim_mycpu.cpp: the loop that toggles the clock, *)
(* lets the reference take one step for each instruction the RTL commits,  *)
(* compares the two and decides how the run ends.                          *)
(*                                                                         *)
(* One step is one iteration of the loop, that is half a clock cycle.  The *)
(* program is any sequence of instructions, seen as what the reference     *)
(* does with a register or with the run.  The RTL is not trusted: what it  *)
(* commits is arbitrary.                                                   *)
(***************************************************************************)
EXTENDS Integers

CONSTANTS
  Reg,            \* register numbers
  Word,           \* register contents, 0 among them
  A0,             \* the register that holds a test's verdict
  RstTicks,       \* half cycles of reset (10)
  CommitTimeout,  \* commit_timeout (3000)
  RiscvDelay,     \* mismatches -delay tolerates in riscv_test_run (1500)
  TraceDelay,     \* and in make_cpu_trace (10)
  DumpAt,         \* the count at which the pc history is dumped (10)
  CycleLimit      \* reference cycles a -rvtest run may take (2e6)

VARIABLES
  opts,           \* the command line
  outcome,        \* "running", or how the run ended
  clock,          \* top->clock
  rst_ticks,      \* half cycles of reset left
  idle,           \* ticks - last_commit
  delay,          \* mismatches left to tolerate
  delayslot_cnt,  \* commits left that are taken for delay slots
  delayslot_flag, \* whether a branch may open delay slots
  is_branch,      \* debug_is_branch of the last reference step
  mcycle,         \* the reference's cycle count, up to CycleLimit
  gpr,            \* the reference's registers
  rtl,            \* the RTL's registers
  unseen,         \* history: registers last written without a comparison
  blind,          \* history: consecutive commits without a comparison
  silent          \* history: clock cycles without a commit

slotVars == <<delayslot_cnt, delayslot_flag>>
refVars == <<is_branch, mcycle, gpr>>
vars == <<opts, outcome, clock, rst_ticks, idle, delay, slotVars, refVars, rtl,
          unseen, blind, silent>>

(* What main makes of its arguments; every combination can be asked for.   *)
(* -initgprs, for a core whose registers start that way, is left out.       *)
Options == [run_mode: {"RISCV_TEST", "CPU_TRACE"}, run_riscv_test: BOOLEAN,
            should_delay: BOOLEAN, dump_pc_history: BOOLEAN,
            has_delayslot: BOOLEAN]

(* What an instruction means to the harness.  "exit" is an ecall with a7 =  *)
(* 93, "tohost" the store of 1 to the tohost address, "branch" a taken      *)
(* branch, "none" whatever else writes no register.                         *)
Instr == [kind: {"write"}, rd: Reg, val: Word]
           \cup [kind: {"branch", "none", "exit", "ebreak", "tohost"}, rd: {0}, val: {0}]

(* The debug port at a commit.  pc_ok says whether debug_pc is the          *)
(* reference's; wen does not appear on the port.                            *)
Commit == [pc_ok: BOOLEAN, wnum: Reg, wdata: Word, wen: BOOLEAN]

Ends == {"error", "stuck", "pass", "fail", "timeout", "stopped"}

DelayStart(run_mode) == IF run_mode = "CPU_TRACE" THEN TraceDelay ELSE RiscvDelay

Init ==
  /\ opts \in Options
  /\ outcome = "running"
  /\ clock = 0
  /\ rst_ticks = RstTicks
  /\ idle = 0
  /\ delay = DelayStart(opts.run_mode)
  /\ delayslot_cnt = 0
  /\ delayslot_flag = TRUE
  /\ is_branch = FALSE
  /\ mcycle = 0
  /\ gpr = [r \in Reg |-> 0]
  /\ rtl = gpr
  /\ unseen = {}
  /\ blind = 0
  /\ silent = 0

-----------------------------------------------------------------------------
(* The reference's step. *)

Writes(i) == i.kind = "write" /\ i.rd # 0

(* A mutant: the cycle limit is not checked.                                *)
ExitOfNoLimit(i) ==
  CASE ~opts.run_riscv_test                    -> "running"
    [] i.kind = "tohost"                       -> "pass"
    [] i.kind = "exit"                         -> IF gpr[A0] = 0 THEN "pass" ELSE "fail"
    [] i.kind = "ebreak" /\ gpr[A0] = 0        -> "pass"
    [] OTHER                                   -> "running"

(* step() calls exit() itself in a -rvtest run.                             *)
ExitOf(i) ==
  CASE ~opts.run_riscv_test                    -> "running"
    [] mcycle >= CycleLimit                    -> "timeout"
    [] i.kind = "tohost"                       -> "pass"
    [] i.kind = "exit"                         -> IF gpr[A0] = 0 THEN "pass" ELSE "fail"
    [] i.kind = "ebreak" /\ gpr[A0] = 0        -> "pass"
    [] OTHER                                   -> "running"

(* mcycle only matters to ExitOf and stops at its limit.                    *)
Step(i) ==
  /\ is_branch' = (i.kind = "branch")
  /\ mcycle' = IF opts.run_riscv_test /\ mcycle < CycleLimit THEN mcycle + 1 ELSE mcycle
  /\ gpr' = IF Writes(i) THEN [gpr EXCEPT ![i.rd] = i.val] ELSE gpr

(* A mutant: the written value is not compared.                             *)
MismatchNoData(i, c) == ~c.pc_ok \/ (Writes(i) /\ c.wnum # i.rd)

(* debug_reg_num is 0 both for x0 and for an instruction that writes none.  *)
Mismatch(i, c) ==
  \/ ~c.pc_ok
  \/ Writes(i) /\ (c.wnum # i.rd \/ c.wdata # i.val)

(* A mutant: the dump does not take the place of the count-down.            *)
ReportMismatchAfterDump ==
  IF ~opts.should_delay
  THEN outcome' = "error" /\ UNCHANGED delay
  ELSE LET left == IF opts.dump_pc_history THEN delay - 1 ELSE delay
       IN  /\ delay' = left - 1
           /\ outcome' = IF left = 0 THEN "error" ELSE outcome

(* The branches of the mismatch report.  The test for the dump decrements   *)
(* the count as well, so with a pc history it goes down by two.             *)
ReportMismatch ==
  IF ~opts.should_delay
  THEN outcome' = "error" /\ UNCHANGED delay
  ELSE IF opts.dump_pc_history /\ delay = DumpAt
  THEN delay' = delay - 1 /\ UNCHANGED outcome
  ELSE LET left == IF opts.dump_pc_history THEN delay - 1 ELSE delay
       IN  /\ delay' = left - 1
           /\ outcome' = IF left = 0 THEN "error" ELSE outcome

(* Mutants: a delay slot may open further ones; the count has no floor.     *)
DelaySlotsReopened(stepped, branch) ==
  IF ~opts.has_delayslot THEN UNCHANGED slotVars
  ELSE LET left == IF delayslot_cnt > 0 THEN delayslot_cnt - 1 ELSE 0
       IN  IF branch
           THEN delayslot_cnt' = 2 /\ delayslot_flag' = FALSE
           ELSE delayslot_cnt' = left /\ delayslot_flag' = (stepped \/ delayslot_flag)

DelaySlotsNoFloor(stepped, branch) ==
  IF ~opts.has_delayslot THEN UNCHANGED slotVars
  ELSE LET flag == stepped \/ delayslot_flag
       IN  IF branch /\ flag
           THEN delayslot_cnt' = 2 /\ delayslot_flag' = FALSE
           ELSE delayslot_cnt' = delayslot_cnt - 1 /\ delayslot_flag' = flag

(* After the comparison: two commits behind a branch count as delay slots,  *)
(* and only a reference step can open them again.                           *)
DelaySlots(stepped, branch) ==
  IF ~opts.has_delayslot THEN UNCHANGED slotVars
  ELSE LET flag == stepped \/ delayslot_flag
           left == IF delayslot_cnt > 0 THEN delayslot_cnt - 1 ELSE 0
       IN  IF branch /\ flag
           THEN delayslot_cnt' = 2 /\ delayslot_flag' = FALSE
           ELSE delayslot_cnt' = left /\ delayslot_flag' = flag

RtlWritten(c) == IF c.wen THEN {c.wnum} \ {0} ELSE {}
RtlWrites(c)  == rtl' = [r \in Reg |-> IF r \in RtlWritten(c) THEN c.wdata ELSE rtl[r]]

-----------------------------------------------------------------------------
(* One iteration of the loop. *)

Toggle ==
  /\ outcome = "running"
  /\ clock' = 1 - clock
  /\ rst_ticks' = IF rst_ticks > 0 THEN rst_ticks - 1 ELSE 0

(* The rising edge out of reset: where the RTL and its memories move.       *)
RisingEdge == clock = 0 /\ rst_ticks = 0

(* A mutant: last_commit is not set.                                        *)
LastCommitKept == idle' = idle /\ silent' = 0
LastCommitNow == idle' = 1 /\ silent' = 0

(* A commit the reference follows.                                          *)
CommitCompared(i, c) ==
  /\ Toggle
  /\ RisingEdge
  /\ delayslot_cnt = 0
  /\ IF ExitOf(i) # "running"
     THEN /\ outcome' = ExitOf(i)
          /\ UNCHANGED <<idle, silent, delay, slotVars, refVars, blind>>
          /\ unseen' = unseen \cup RtlWritten(c)
     ELSE /\ Step(i)
          /\ IF Mismatch(i, c) THEN ReportMismatch ELSE UNCHANGED <<outcome, delay>>
          /\ DelaySlots(TRUE, i.kind = "branch")
          /\ LastCommitNow
          /\ blind' = 0
          /\ unseen' = IF Writes(i)
                       THEN IF c.wen THEN unseen \ {i.rd} ELSE unseen \cup {i.rd}
                       ELSE unseen \cup RtlWritten(c)
  /\ RtlWrites(c)
  /\ UNCHANGED opts

(* A commit taken for a delay slot: no step, no comparison.                 *)
CommitSkipped(c) ==
  /\ Toggle
  /\ RisingEdge
  /\ delayslot_cnt > 0
  /\ DelaySlots(FALSE, is_branch)
  /\ LastCommitNow
  /\ RtlWrites(c)
  /\ blind' = IF blind < 3 THEN blind + 1 ELSE blind
  /\ unseen' = unseen \cup RtlWritten(c)
  /\ UNCHANGED <<opts, outcome, delay, refVars>>

(* An iteration without a commit, up to the timeout.                        *)
NoCommit ==
  /\ Toggle
  /\ idle' = idle + 1
  /\ outcome' = IF idle' >= CommitTimeout THEN "stuck" ELSE outcome
  /\ silent' = IF RisingEdge THEN silent + 1 ELSE silent
  /\ UNCHANGED <<opts, delay, slotVars, refVars, rtl, unseen, blind>>

(* Between two iterations, the signal handler clears running, or the        *)
(* waveform's budget, any number on the command line, is used up.           *)
StopFromOutside ==
  /\ outcome = "running"
  /\ outcome' = "stopped"
  /\ UNCHANGED <<opts, clock, rst_ticks, idle, delay, slotVars, refVars, rtl,
                 unseen, blind, silent>>

Iteration ==
  \/ \E i \in Instr, c \in Commit : CommitCompared(i, c)
  \/ \E c \in Commit : CommitSkipped(c)
  \/ NoCommit

(* The two loops; make_cpu_trace also writes a line for each commit.        *)
RiscvTestRun == opts.run_mode = "RISCV_TEST" /\ Iteration
MakeCpuTrace == opts.run_mode = "CPU_TRACE" /\ Iteration

Next == RiscvTestRun \/ MakeCpuTrace \/ StopFromOutside

(* The loop runs as long as it is not told to stop.                         *)
Spec == Init /\ [][Next]_vars /\ WF_vars(RiscvTestRun \/ MakeCpuTrace)

-----------------------------------------------------------------------------

TypeOK ==
  /\ opts \in Options
  /\ outcome \in Ends \cup {"running"}
  /\ clock \in 0..1
  /\ rst_ticks \in 0..RstTicks
  /\ idle \in 0..CommitTimeout
  /\ delay \in Int
  /\ delayslot_cnt \in 0..2
  /\ delayslot_flag \in BOOLEAN
  /\ is_branch \in BOOLEAN
  /\ mcycle \in 0..CycleLimit
  /\ gpr \in [Reg -> Word]
  /\ rtl \in [Reg -> Word]
  /\ unseen \subseteq Reg
  /\ blind \in 0..3
  /\ silent \in Nat

(* Unless mismatches are tolerated, whatever the RTL does, its registers    *)
(* and the reference's agree while the run goes on and when it ends with a  *)
(* pass, except for registers written where the harness does not look: by   *)
(* an instruction that writes none in the reference, with the write enable  *)
(* lost, in a delay slot, or by the instruction the reference exits at.     *)
DivergenceIsUnseen ==
  outcome # "error" /\ ~opts.should_delay =>
    \A r \in Reg : rtl[r] # gpr[r] => r \in unseen

(* At most two commits in a row escape the comparison: delay slots are not  *)
(* opened again by the branch that opened them.                             *)
BlindAtMostTwo == blind <= 2

(* A run that tolerates mismatches stops when the count is used up, with    *)
(* and without the dump that decrements it twice: it is never stepped over. *)
DelayNotOvershot == outcome = "running" => delay >= 0

(* A core is only called stuck after it had, reset excluded, the time that  *)
(* the timeout promises: no false alarm for one that commits more often.    *)
StuckMeansSilent == outcome = "stuck" => 2 * silent >= CommitTimeout - RstTicks

(* Every run with -rvtest ends, whatever the RTL does: it passes or fails,  *)
(* diverges, exceeds the cycle limit or falls silent.                       *)
RvTestTerminates == opts.run_riscv_test ~> outcome # "running"

ASSUME RegAssumption == Reg \subseteq Nat /\ {0, A0} \subseteq Reg
ASSUME WordAssumption == 0 \in Word
ASSUME TickAssumption ==
  /\ RstTicks \in Nat /\ CommitTimeout \in Nat /\ CycleLimit \in Nat
  /\ RstTicks > 1 /\ RstTicks % 2 = 0 /\ CommitTimeout > 1
(* Why DelayNotOvershot holds: all three counts are even in the code.       *)
ASSUME DelayAssumption ==
  /\ DumpAt \in Nat /\ DumpAt > 0 /\ DumpAt % 2 = 0
  /\ RiscvDelay \in Nat /\ RiscvDelay % 2 = 0 /\ RiscvDelay >= DumpAt
  /\ TraceDelay \in Nat /\ TraceDelay % 2 = 0 /\ TraceDelay >= DumpAt
=============================================================================
