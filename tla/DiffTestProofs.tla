---------------------------- MODULE DiffTestProofs ----------------------------
(***************************************************************************)
(* Theorems about the comparison loop, for every set of registers and      *)
(* words and every timeout, reset time and tolerance the assumptions       *)
(* allow.                                                                  *)
(***************************************************************************)
EXTENDS DiffTest, TLAPS

(* While the loop runs, the timeout has not been reached.                  *)
InTime ==
  /\ outcome = "running" => idle < CommitTimeout
  /\ outcome = "stuck" => idle >= CommitTimeout

(* The cases of Iteration, with the program's and the RTL's choice named.  *)
LEMMA NextCases ==
  ASSUME Next
  PROVE  \/ \E i \in Instr, c \in Commit : CommitCompared(i, c)
         \/ \E c \in Commit : CommitSkipped(c)
         \/ NoCommit
         \/ StopFromOutside
BY DEF Next, RiscvTestRun, MakeCpuTrace, Iteration

-----------------------------------------------------------------------------
(* Types. *)

LEMMA InitType == Init => TypeOK /\ InTime
<1>. SUFFICES ASSUME Init PROVE TypeOK /\ InTime
  OBVIOUS
<1>1. delay \in Int
  <2>1. RiscvDelay \in Int /\ TraceDelay \in Int
    BY DelayAssumption
  <2>. QED BY <2>1 DEF Init, DelayStart
<1>2. gpr \in [Reg -> Word] /\ rtl \in [Reg -> Word]
  BY WordAssumption DEF Init
<1>3. /\ rst_ticks \in 0..RstTicks /\ idle \in 0..CommitTimeout /\ mcycle \in 0..CycleLimit
      /\ outcome = "running" /\ idle < CommitTimeout
  BY TickAssumption DEF Init
<1>4. clock \in 0..1 /\ delayslot_cnt \in 0..2 /\ blind \in 0..3 /\ silent \in Nat
  BY DEF Init
<1>5. opts \in Options /\ delayslot_flag \in BOOLEAN /\ is_branch \in BOOLEAN /\ unseen \subseteq Reg
  BY Zenon DEF Init
<1>. QED BY <1>1, <1>2, <1>3, <1>4, <1>5 DEF TypeOK, InTime

LEMMA ToggleType ==
  ASSUME TypeOK, Toggle
  PROVE  clock' \in 0..1 /\ rst_ticks' \in 0..RstTicks
BY TickAssumption DEF TypeOK, Toggle

LEMMA DelaySlotsType ==
  ASSUME TypeOK, NEW stepped \in BOOLEAN, NEW branch \in BOOLEAN, DelaySlots(stepped, branch)
  PROVE  delayslot_cnt' \in 0..2 /\ delayslot_flag' \in BOOLEAN
<1>. DEFINE flag == stepped \/ delayslot_flag
            left == IF delayslot_cnt > 0 THEN delayslot_cnt - 1 ELSE 0
<1>1. delayslot_cnt \in 0..2 /\ delayslot_flag \in BOOLEAN /\ left \in 0..2 /\ flag \in BOOLEAN
  BY DEF TypeOK
<1>2. CASE ~opts.has_delayslot
  <2>1. delayslot_cnt' = delayslot_cnt /\ delayslot_flag' = delayslot_flag
    BY <1>2 DEF DelaySlots, slotVars
  <2>2. delayslot_cnt \in 0..2 /\ delayslot_flag \in BOOLEAN
    BY <1>1
  <2>. QED BY <2>1, <2>2, Zenon
<1>3. CASE opts.has_delayslot /\ branch /\ flag
  <2>1. delayslot_cnt' = 2 /\ delayslot_flag' = FALSE
    BY <1>3, Zenon DEF DelaySlots
  <2>2. delayslot_cnt' \in 0..2
    BY <2>1
  <2>. QED BY <2>1, <2>2, Zenon
<1>4. CASE opts.has_delayslot /\ ~(branch /\ flag)
  <2>1. delayslot_cnt' = left /\ delayslot_flag' = flag
    BY <1>4 DEF DelaySlots
  <2>. QED BY <1>1, <2>1
<1>. QED BY <1>2, <1>3, <1>4

LEMMA StepType ==
  ASSUME TypeOK, NEW i \in Instr, Step(i)
  PROVE  is_branch' \in BOOLEAN /\ mcycle' \in 0..CycleLimit /\ gpr' \in [Reg -> Word]
<1>1. i.rd \in Reg /\ i.val \in Word
  BY RegAssumption, WordAssumption DEF Instr
<1>. QED BY <1>1, TickAssumption DEF TypeOK, Step

LEMMA RtlWritesType ==
  ASSUME TypeOK, NEW c \in Commit, RtlWrites(c)
  PROVE  rtl' \in [Reg -> Word] /\ RtlWritten(c) \subseteq Reg
BY DEF TypeOK, RtlWrites, RtlWritten, Commit

LEMMA ReportMismatchType ==
  ASSUME TypeOK, ReportMismatch
  PROVE  delay' \in Int /\ outcome' \in {outcome, "error"}
BY DEF TypeOK, ReportMismatch

(* A run only exits in one of the three ways step() knows.                 *)
LEMMA ExitOfType ==
  ASSUME NEW i \in Instr
  PROVE  ExitOf(i) \in {"running", "timeout", "pass", "fail"}
BY DEF ExitOf

LEMMA CommitComparedType ==
  ASSUME TypeOK, NEW i \in Instr, NEW c \in Commit, CommitCompared(i, c)
  PROVE  TypeOK' /\ InTime'
<1>1. /\ clock' \in 0..1 /\ rst_ticks' \in 0..RstTicks
      /\ rtl' \in [Reg -> Word] /\ RtlWritten(c) \subseteq Reg
      /\ opts' \in Options /\ outcome = "running"
  BY ToggleType, RtlWritesType DEF CommitCompared, Toggle, TypeOK
<1>2. CASE ExitOf(i) # "running"
  <2>1. outcome' \in {"timeout", "pass", "fail"}
    BY <1>2, ExitOfType DEF CommitCompared
  <2>2. UNCHANGED <<idle, silent, delay, slotVars, refVars, blind>>
    BY <1>2 DEF CommitCompared
  <2>3. unseen' \subseteq Reg
    BY <1>1, <1>2 DEF CommitCompared, TypeOK
  <2>. QED BY <1>1, <2>1, <2>2, <2>3 DEF TypeOK, InTime, Ends, slotVars, refVars
<1>3. CASE ExitOf(i) = "running"
  <2>1. outcome' \in {"running", "error"} /\ delay' \in Int
    BY <1>1, <1>3, ReportMismatchType DEF CommitCompared, TypeOK
  <2>2. delayslot_cnt' \in 0..2 /\ delayslot_flag' \in BOOLEAN
    BY <1>3, DelaySlotsType DEF CommitCompared
  <2>3. is_branch' \in BOOLEAN /\ mcycle' \in 0..CycleLimit /\ gpr' \in [Reg -> Word]
    BY <1>3, StepType DEF CommitCompared
  <2>4. idle' = 1 /\ silent' = 0 /\ blind' = 0
    BY <1>3 DEF CommitCompared, LastCommitNow
  <2>5. unseen' \subseteq Reg
    BY <1>1, <1>3, RegAssumption DEF CommitCompared, TypeOK, Instr
  <2>. QED BY <1>1, <2>1, <2>2, <2>3, <2>4, <2>5, TickAssumption DEF TypeOK, InTime, Ends
<1>. QED BY <1>2, <1>3

LEMMA CommitSkippedType ==
  ASSUME TypeOK, NEW c \in Commit, CommitSkipped(c)
  PROVE  TypeOK' /\ InTime'
<1>1. /\ clock' \in 0..1 /\ rst_ticks' \in 0..RstTicks
      /\ rtl' \in [Reg -> Word] /\ RtlWritten(c) \subseteq Reg
      /\ opts' \in Options /\ outcome' = "running"
  BY ToggleType, RtlWritesType DEF CommitSkipped, Toggle, TypeOK
<1>2. delayslot_cnt' \in 0..2 /\ delayslot_flag' \in BOOLEAN
  BY DelaySlotsType DEF CommitSkipped, TypeOK
<1>3. idle' = 1 /\ silent' = 0 /\ blind' \in 0..3 /\ unseen' \subseteq Reg
  BY <1>1 DEF CommitSkipped, LastCommitNow, TypeOK
<1>. QED BY <1>1, <1>2, <1>3, TickAssumption DEF CommitSkipped, TypeOK, InTime, refVars

LEMMA NoCommitType == ASSUME TypeOK, InTime, NoCommit PROVE TypeOK' /\ InTime'
<1>1. clock' \in 0..1 /\ rst_ticks' \in 0..RstTicks /\ outcome = "running"
  BY ToggleType DEF NoCommit, Toggle
<1>2. idle' = idle + 1 /\ idle < CommitTimeout /\ idle \in Nat
  BY <1>1 DEF NoCommit, TypeOK, InTime
<1>3. outcome' = IF idle' >= CommitTimeout THEN "stuck" ELSE "running"
  BY <1>1 DEF NoCommit
<1>4. silent' \in Nat
  BY DEF NoCommit, TypeOK
<1>. QED BY <1>1, <1>2, <1>3, <1>4, TickAssumption
         DEF NoCommit, TypeOK, InTime, Ends, slotVars, refVars

LEMMA NextType == ASSUME TypeOK, InTime, Next PROVE TypeOK' /\ InTime'
<1>1. CASE StopFromOutside
  BY <1>1 DEF StopFromOutside, TypeOK, InTime, Ends, slotVars, refVars
<1>. QED BY <1>1, NextCases, CommitComparedType, CommitSkippedType, NoCommitType

(* Every variable keeps to its values; in particular the delay slots left  *)
(* never fall below zero, and the loop ends at the timeout.                *)
THEOREM TypeCorrect == Spec => [](TypeOK /\ InTime)
<1>1. TypeOK /\ InTime /\ UNCHANGED vars => TypeOK' /\ InTime'
  BY DEF vars, slotVars, refVars, TypeOK, InTime
<1>. QED BY InitType, NextType, <1>1, PTL DEF Spec

-----------------------------------------------------------------------------
(* Delay slots. *)

(* While delay slots are left no branch can open further ones, and those   *)
(* left and the ones already passed are two together.                      *)
SlotsCounted ==
  /\ blind <= 2
  /\ delayslot_cnt > 0 =>
       opts.has_delayslot /\ ~delayslot_flag /\ blind + delayslot_cnt <= 2

LEMMA ComparedKeepsSlots ==
  ASSUME TypeOK, SlotsCounted, NEW i \in Instr, NEW c \in Commit, CommitCompared(i, c)
  PROVE  SlotsCounted'
<1>1. CASE ExitOf(i) # "running"
  <2>1. UNCHANGED <<blind, delayslot_cnt, delayslot_flag>> /\ opts' = opts
    BY <1>1 DEF CommitCompared, slotVars
  <2>. QED BY <2>1 DEF SlotsCounted
<1>2. CASE ExitOf(i) = "running"
  <2>1. blind' = 0 /\ delayslot_cnt = 0 /\ opts' = opts /\ DelaySlots(TRUE, i.kind = "branch")
    BY <1>2 DEF CommitCompared
  <2>2. CASE opts.has_delayslot /\ i.kind = "branch"
    <3>1. delayslot_cnt' = 2 /\ delayslot_flag' = FALSE
      BY <2>1, <2>2, Zenon DEF DelaySlots
    <3>2. blind' + delayslot_cnt' <= 2
      BY <2>1, <3>1
    <3>. QED BY <2>1, <2>2, <3>1, <3>2 DEF SlotsCounted
  <2>3. CASE ~(opts.has_delayslot /\ i.kind = "branch")
    <3>1. delayslot_cnt' = 0
      BY <2>1, <2>3 DEF DelaySlots, slotVars
    <3>. QED BY <2>1, <3>1 DEF SlotsCounted
  <2>. QED BY <2>2, <2>3
<1>. QED BY <1>1, <1>2

LEMMA SkippedKeepsSlots ==
  ASSUME TypeOK, SlotsCounted, NEW c \in Commit, CommitSkipped(c)
  PROVE  SlotsCounted'
<1>1. /\ delayslot_cnt > 0 /\ delayslot_cnt \in 0..2 /\ blind \in 0..3
      /\ opts.has_delayslot /\ ~delayslot_flag /\ blind + delayslot_cnt <= 2
      /\ opts' = opts
  BY DEF CommitSkipped, SlotsCounted, TypeOK
<1>2. DelaySlots(FALSE, is_branch)
  BY DEF CommitSkipped
<1>3. delayslot_cnt' = delayslot_cnt - 1 /\ ~delayslot_flag'
  BY <1>1, <1>2 DEF DelaySlots
<1>4. blind' = blind + 1
  BY <1>1 DEF CommitSkipped
<1>. QED BY <1>1, <1>3, <1>4 DEF SlotsCounted

(* Whatever the program and the RTL do, after at most two commits without  *)
(* a comparison the next one is compared.                                  *)
THEOREM AtMostTwoSlots == Spec => []BlindAtMostTwo
<1>1. Init => SlotsCounted
  BY DEF Init, SlotsCounted
<1>2. ASSUME TypeOK, SlotsCounted, [Next]_vars PROVE SlotsCounted'
  <2>1. CASE NoCommit
    BY <2>1, <1>2 DEF NoCommit, SlotsCounted, slotVars
  <2>2. CASE StopFromOutside
    BY <2>2, <1>2 DEF StopFromOutside, SlotsCounted, slotVars
  <2>3. CASE UNCHANGED vars
    BY <2>3, <1>2 DEF vars, SlotsCounted, slotVars
  <2>. QED BY <1>2, <2>1, <2>2, <2>3, NextCases, ComparedKeepsSlots, SkippedKeepsSlots
<1>3. SlotsCounted => BlindAtMostTwo
  BY DEF SlotsCounted, BlindAtMostTwo
<1>. QED BY TypeCorrect, <1>1, <1>2, <1>3, PTL DEF Spec

-----------------------------------------------------------------------------
(* The comparison. *)

(* A comparison that finds nothing leaves the two sides in agreement at    *)
(* the register it compared.                                               *)
LEMMA ComparedAgrees ==
  ASSUME TypeOK, DivergenceIsUnseen, NEW i \in Instr, NEW c \in Commit, CommitCompared(i, c)
  PROVE  DivergenceIsUnseen'
<1>. SUFFICES ASSUME outcome' # "error", ~opts.should_delay, NEW r \in Reg, rtl'[r] # gpr'[r]
              PROVE  r \in unseen'
  BY DEF CommitCompared, DivergenceIsUnseen
<1>1. /\ rtl'[r] = IF r \in RtlWritten(c) THEN c.wdata ELSE rtl[r]
      /\ outcome = "running"
  BY DEF CommitCompared, Toggle, RtlWrites
<1>2. rtl[r] # gpr[r] => r \in unseen
  BY <1>1 DEF DivergenceIsUnseen
<1>3. CASE ExitOf(i) # "running"
  <2>1. gpr' = gpr /\ unseen' = unseen \cup RtlWritten(c)
    BY <1>3 DEF CommitCompared, refVars
  <2>. QED BY <1>1, <1>2, <2>1
<1>4. CASE ExitOf(i) = "running"
  <2>1. gpr' = IF Writes(i) THEN [gpr EXCEPT ![i.rd] = i.val] ELSE gpr
    BY <1>4 DEF CommitCompared, Step
  <2>2. ~Mismatch(i, c)
    BY <1>4 DEF CommitCompared, ReportMismatch
  <2>3. CASE ~Writes(i)
    BY <1>1, <1>2, <1>4, <2>1, <2>3 DEF CommitCompared
  <2>4. CASE Writes(i)
    <3>1. c.wnum = i.rd /\ c.wdata = i.val /\ i.rd # 0
      BY <2>2, <2>4 DEF Mismatch, Writes
    <3>2. unseen' = IF c.wen THEN unseen \ {i.rd} ELSE unseen \cup {i.rd}
      BY <1>4, <2>4 DEF CommitCompared
    <3>3. RtlWritten(c) = IF c.wen THEN {i.rd} ELSE {}
      BY <3>1 DEF RtlWritten
    <3>4. gpr'[r] = IF r = i.rd THEN i.val ELSE gpr[r]
      BY <2>1, <2>4 DEF TypeOK
    <3>. QED BY <1>1, <1>2, <3>1, <3>2, <3>3, <3>4
  <2>. QED BY <2>3, <2>4
<1>. QED BY <1>3, <1>4

LEMMA SkippedAgrees ==
  ASSUME TypeOK, DivergenceIsUnseen, NEW c \in Commit, CommitSkipped(c)
  PROVE  DivergenceIsUnseen'
<1>. SUFFICES ASSUME ~opts.should_delay, NEW r \in Reg, rtl'[r] # gpr'[r]
              PROVE  r \in unseen'
  BY DEF CommitSkipped, DivergenceIsUnseen
<1>1. /\ rtl'[r] = IF r \in RtlWritten(c) THEN c.wdata ELSE rtl[r]
      /\ outcome = "running" /\ gpr' = gpr
      /\ unseen' = unseen \cup RtlWritten(c)
  BY DEF CommitSkipped, Toggle, RtlWrites, refVars
<1>. QED BY <1>1 DEF DivergenceIsUnseen

(* A run that tolerates no mismatch ends at the first one it can see.      *)
THEOREM UnseenOnly == Spec => []DivergenceIsUnseen
<1>1. Init => DivergenceIsUnseen
  BY DEF Init, DivergenceIsUnseen
<1>2. ASSUME TypeOK, DivergenceIsUnseen, [Next]_vars PROVE DivergenceIsUnseen'
  <2>1. CASE NoCommit
    BY <2>1, <1>2 DEF NoCommit, Toggle, DivergenceIsUnseen, refVars
  <2>2. CASE StopFromOutside
    BY <2>2, <1>2 DEF StopFromOutside, DivergenceIsUnseen, refVars
  <2>3. CASE UNCHANGED vars
    BY <2>3, <1>2 DEF vars, DivergenceIsUnseen, refVars
  <2>. QED BY <1>2, <2>1, <2>2, <2>3, NextCases, ComparedAgrees, SkippedAgrees
<1>. QED BY TypeCorrect, <1>1, <1>2, PTL DEF Spec

-----------------------------------------------------------------------------
(* The timeout. *)

(* The clock cycles without a commit account for the half cycles since the *)
(* last one, reset excluded; reset starts on an even half cycle.           *)
SilenceCounted ==
  outcome \in {"running", "stuck"} =>
    /\ 2 * silent >= idle - RstTicks + clock
    /\ rst_ticks > 0 => clock = rst_ticks % 2 /\ idle = RstTicks - rst_ticks

LEMMA InitSilence == Init => SilenceCounted
BY TickAssumption DEF Init, SilenceCounted

(* A commit only happens out of reset, at a rising edge.                   *)
LEMMA CommitSilence ==
  ASSUME TypeOK, Toggle, RisingEdge, LastCommitNow
  PROVE  SilenceCounted'
<1>1. clock' = 1 /\ rst_ticks' = 0
  BY DEF Toggle, RisingEdge, TypeOK
<1>2. idle' = 1 /\ silent' = 0
  BY DEF LastCommitNow
<1>. QED BY <1>1, <1>2, TickAssumption DEF SilenceCounted

LEMMA ComparedSilence ==
  ASSUME TypeOK, SilenceCounted, NEW i \in Instr, NEW c \in Commit, CommitCompared(i, c)
  PROVE  SilenceCounted'
<1>1. CASE ExitOf(i) # "running"
  <2>1. outcome' \in {"timeout", "pass", "fail"}
    BY <1>1, ExitOfType DEF CommitCompared
  <2>. QED BY <2>1 DEF SilenceCounted
<1>2. CASE ExitOf(i) = "running"
  <2>1. Toggle /\ RisingEdge /\ LastCommitNow
    BY <1>2 DEF CommitCompared
  <2>. QED BY <2>1, CommitSilence
<1>. QED BY <1>1, <1>2

LEMMA NoCommitSilence ==
  ASSUME TypeOK, SilenceCounted, NoCommit
  PROVE  SilenceCounted'
<1>1. /\ clock \in 0..1 /\ rst_ticks \in 0..RstTicks /\ idle \in Nat /\ silent \in Nat
      /\ outcome = "running" /\ clock' = 1 - clock /\ idle' = idle + 1
      /\ rst_ticks' = IF rst_ticks > 0 THEN rst_ticks - 1 ELSE 0
      /\ RstTicks \in Nat
  BY TickAssumption DEF TypeOK, NoCommit, Toggle
<1>2. silent' = IF clock = 0 /\ rst_ticks = 0 THEN silent + 1 ELSE silent
  BY DEF NoCommit, RisingEdge
<1>3. CASE rst_ticks > 0
  <2>1. clock = rst_ticks % 2 /\ idle = RstTicks - rst_ticks
    BY <1>1, <1>3 DEF SilenceCounted
  <2>2. clock' = rst_ticks' % 2 /\ rst_ticks' = rst_ticks - 1 /\ clock' <= rst_ticks'
    BY <1>1, <1>3, <2>1
  <2>3. idle' = RstTicks - rst_ticks' /\ silent' = silent
    BY <1>1, <1>2, <1>3, <2>1, <2>2
  <2>4. 2 * silent' >= idle' - RstTicks + clock'
    BY <1>1, <2>2, <2>3
  <2>. QED BY <2>2, <2>3, <2>4 DEF SilenceCounted
<1>4. CASE ~(rst_ticks > 0)
  <2>1. rst_ticks = 0 /\ rst_ticks' = 0 /\ 2 * silent >= idle - RstTicks + clock
    BY <1>1, <1>4 DEF SilenceCounted
  <2>2. 2 * silent' >= idle' - RstTicks + clock'
    BY <1>1, <1>2, <2>1
  <2>. QED BY <2>1, <2>2 DEF SilenceCounted
<1>. QED BY <1>3, <1>4

(* No core that commits in time is called stuck.                           *)
THEOREM NoFalseAlarm == Spec => []StuckMeansSilent
<1>1. ASSUME TypeOK, SilenceCounted, [Next]_vars PROVE SilenceCounted'
  <2>1. ASSUME NEW c \in Commit, CommitSkipped(c) PROVE SilenceCounted'
    BY <1>1, <2>1, CommitSilence DEF CommitSkipped
  <2>2. CASE StopFromOutside
    BY <2>2 DEF StopFromOutside, SilenceCounted
  <2>3. CASE UNCHANGED vars
    BY <2>3, <1>1 DEF vars, SilenceCounted
  <2>. QED BY <1>1, <2>1, <2>2, <2>3, NextCases, ComparedSilence, NoCommitSilence
<1>2. TypeOK /\ InTime /\ SilenceCounted => StuckMeansSilent
  BY TickAssumption DEF TypeOK, InTime, SilenceCounted, StuckMeansSilent
<1>. QED BY TypeCorrect, InitSilence, <1>1, <1>2, PTL DEF Spec

-----------------------------------------------------------------------------
(* The mismatches that are tolerated. *)

(* With a pc history the count goes down in twos, through even numbers as  *)
(* far as the dump, whose own decrement makes it odd: from there it meets  *)
(* 1, and the double decrement tests 0.                                    *)
DelayParity ==
  outcome = "running" =>
    /\ delay >= 0
    /\ opts.dump_pc_history =>
         \/ delay % 2 = 0 /\ delay >= DumpAt
         \/ delay % 2 = 1 /\ delay < DumpAt

LEMMA InitParity == Init => DelayParity
<1>. SUFFICES ASSUME Init PROVE DelayParity
  OBVIOUS
<1>1. delay = RiscvDelay \/ delay = TraceDelay
  BY DEF Init, DelayStart
<1>. QED BY <1>1, DelayAssumption DEF DelayParity

LEMMA MismatchParity ==
  ASSUME TypeOK, DelayParity, outcome = "running", ReportMismatch, opts' = opts
  PROVE  DelayParity'
<1>. SUFFICES ASSUME outcome' = "running" PROVE DelayParity'
  BY DEF DelayParity
<1>1. /\ delay \in Int /\ delay >= 0
      /\ opts.dump_pc_history =>
           \/ delay % 2 = 0 /\ delay >= DumpAt
           \/ delay % 2 = 1 /\ delay < DumpAt
  BY DEF TypeOK, DelayParity
<1>2. opts.should_delay
  BY DEF ReportMismatch
<1>3. CASE ~opts.dump_pc_history
  <2>1. delay' = delay - 1 /\ delay # 0
    BY <1>2, <1>3 DEF ReportMismatch
  <2>. QED BY <1>1, <1>3, <2>1 DEF DelayParity
<1>4. CASE opts.dump_pc_history /\ delay = DumpAt
  <2>1. delay' = delay - 1
    BY <1>2, <1>4 DEF ReportMismatch
  <2>2. delay' >= 0 /\ delay' % 2 = 1 /\ delay' < DumpAt
    BY <1>4, <2>1, DelayAssumption
  <2>. QED BY <2>2 DEF DelayParity
<1>5. CASE opts.dump_pc_history /\ delay # DumpAt
  <2>1. delay' = delay - 2 /\ delay # 1
    BY <1>1, <1>2, <1>5 DEF ReportMismatch
  <2>2. CASE delay % 2 = 0 /\ delay >= DumpAt
    <3>1. delay' >= 0 /\ delay' % 2 = 0 /\ delay' >= DumpAt
      BY <1>1, <1>5, <2>1, <2>2, DelayAssumption
    <3>. QED BY <3>1 DEF DelayParity
  <2>3. CASE delay % 2 = 1 /\ delay < DumpAt
    <3>1. delay' >= 0 /\ delay' % 2 = 1 /\ delay' < DumpAt
      BY <1>1, <2>1, <2>3, DelayAssumption
    <3>. QED BY <3>1 DEF DelayParity
  <2>. QED BY <1>1, <1>5, <2>2, <2>3
<1>. QED BY <1>3, <1>4, <1>5

LEMMA ComparedParity ==
  ASSUME TypeOK, DelayParity, NEW i \in Instr, NEW c \in Commit, CommitCompared(i, c)
  PROVE  DelayParity'
<1>1. opts' = opts /\ outcome = "running"
  BY DEF CommitCompared, Toggle
<1>2. CASE ExitOf(i) # "running"
  <2>1. outcome' # "running"
    BY <1>2 DEF CommitCompared
  <2>. QED BY <2>1 DEF DelayParity
<1>3. CASE ExitOf(i) = "running" /\ Mismatch(i, c)
  <2>1. ReportMismatch
    BY <1>3 DEF CommitCompared
  <2>. QED BY <1>1, <2>1, MismatchParity
<1>4. CASE ExitOf(i) = "running" /\ ~Mismatch(i, c)
  <2>1. delay' = delay
    BY <1>4 DEF CommitCompared
  <2>. QED BY <1>1, <2>1 DEF DelayParity
<1>. QED BY <1>2, <1>3, <1>4

(* A run that tolerates mismatches ends at the first beyond its count, for *)
(* every even count and every even place of the dump.                      *)
THEOREM ToleranceEnds == Spec => []DelayNotOvershot
<1>1. ASSUME TypeOK, DelayParity, [Next]_vars PROVE DelayParity'
  <2>1. ASSUME NEW c \in Commit, CommitSkipped(c) PROVE DelayParity'
    BY <1>1, <2>1 DEF CommitSkipped, DelayParity
  <2>2. CASE NoCommit
    BY <1>1, <2>2 DEF NoCommit, Toggle, DelayParity
  <2>3. CASE StopFromOutside
    BY <2>3 DEF StopFromOutside, DelayParity
  <2>4. CASE UNCHANGED vars
    BY <2>4, <1>1 DEF vars, DelayParity
  <2>. QED BY <1>1, <2>1, <2>2, <2>3, <2>4, NextCases, ComparedParity
<1>2. DelayParity => DelayNotOvershot
  BY DEF DelayParity, DelayNotOvershot
<1>. QED BY TypeCorrect, InitParity, <1>1, <1>2, PTL DEF Spec
=============================================================================
