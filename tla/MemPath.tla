-------------------------------- MODULE MemPath --------------------------------
(***************************************************************************)
(* The two ways from an instruction to memory, side by side.  The RTL goes *)
(* through the lanes of its load/store unit, the SRAM port, the slave's    *)
(* strobe ranges and the crossbar to rtl_mem; the reference goes through   *)
(* mem_read and mem_write, rv_priv and the system bus to cemu_mem.  Both   *)
(* memories were loaded from the same file, and the harness never compares *)
(* them.                                                                   *)
(*                                                                         *)
(* One step is one instruction at its memory access; in which cycle the    *)
(* pipeline makes it is the business of Core.  Translation is off.         *)
(***************************************************************************)
EXTENDS MmioMem, FiniteSetsExt

CONSTANTS
  Lanes,      \* bytes of a register and of the data port (8)
  Base,       \* the address memory is mapped at (0x80000000)
  Span,       \* and the length of its window (0x80000000)
  SramSpan,   \* addresses of the SRAM port (2^32)
  Marker,     \* the half word the crossbar answers with where nothing is mapped
  Image,      \* memory contents a file may hold
  Stored      \* register values programs store

VARIABLES
  rtl_mem,    \* the crossbar's memory
  cemu_mem,   \* the system bus's memory
  data_rdata, \* data_sram_rdata
  inst_rdata, \* inst_sram_rdata
  rtl,        \* what the last instruction came to in the RTL ...
  cemu        \* ... and in the reference

vars == <<rtl_mem, cemu_mem, data_rdata, inst_rdata, rtl, cemu>>

Lane == 0 .. Lanes - 1
Word == [Lane -> Byte]
Half == Lanes \div 2
Size == {n \in 1 .. Lanes : Lanes % n = 0}   \* 1, 2, 4 and 8 bytes
Addr == 0 .. SramSpan - 1
InstWord == [0 .. Half - 1 -> Byte]

Zero == [l \in Lane |-> 0]
Outcome == [trap: {"none", "misaligned", "fault"}, value: Word \cup InstWord]
Done == [trap |-> "none", value |-> Zero]
Loaded(v) == [trap |-> "none", value |-> v]
Trap(kind) == [trap |-> kind, value |-> Zero]

(* riscv_test_run maps one memory, on both sides.                           *)
Devices == {[lo |-> Base, hi |-> Base + Span]}

DeviceOf(start, size) == CHOOSE d \in Decode(Devices, start, size) : TRUE

Init ==
  /\ cemu_mem \in Image
  /\ rtl_mem = cemu_mem
  /\ data_rdata = Zero
  /\ inst_rdata = [l \in 0 .. Half - 1 |-> 0]
  /\ rtl = Done
  /\ cemu = Done

(* A load of n bytes in lane order, extended to a register.                 *)
Extend(bytes, n, signed) ==
  LET top == bytes[n - 1]
      fill == IF signed /\ 2 * top >= Radix THEN Radix - 1 ELSE 0
  IN  [l \in Lane |-> IF l < n THEN bytes[l] ELSE fill]

-----------------------------------------------------------------------------
(* The RTL's path. *)

LsuMisaligned(a, n) == a % n # 0
LowAddr(a) == a % Lanes

(* The mask of the size shifted to the lane, cut to the width of wen.       *)
Wen(a, n) == {l \in Lane : l \in LowAddr(a) .. LowAddr(a) + n - 1}

(* The low bytes of the register in every lane of their size.               *)
Wdata(src, n) == [l \in Lane |-> src[l % n]]

(* A mutant: a run that reaches the last lane is dropped.                   *)
StrbToRangeOpen(wen) ==
  {run \in Lane \X (1 .. Lanes) :
     LET first == run[1]
         last == run[1] + run[2] - 1
     IN  /\ first .. last \subseteq wen
         /\ first - 1 \notin wen /\ last + 1 \in Lane \ wen}

(* strb_to_range: the maximal runs of strobes, as first lane and length.    *)
StrbToRange(wen) ==
  {run \in Lane \X (1 .. Lanes) :
     LET first == run[1]
         last == run[1] + run[2] - 1
     IN  /\ first .. last \subseteq wen
         /\ first - 1 \notin wen /\ last + 1 \notin wen}

(* do_write of the crossbar; outside every device memory stays as it is.    *)
XbarWrite(m, start, size, buffer) ==
  IF Decode(Devices, start, size) = {} THEN m
  ELSE DoWrite(m, DevOffset(DeviceOf(start, size), start), size, buffer)

(* A mutant: the buffer is cut to the marker.                               *)
XbarReadShort(m, start, size, buffer) ==
  IF Decode(Devices, start, 1) = {}
  THEN Marker
  ELSE LET at == DevOffset(DeviceOf(start, 1), start - (start % size))
       IN  IF Backed(at, size) THEN DoRead(m, at, size) ELSE buffer

(* do_read of the crossbar: the first byte decides whether a device is hit, *)
(* the read is aligned down, and a device that refuses leaves the buffer as *)
(* it is.                                                                   *)
XbarRead(m, start, size, buffer) ==
  IF Decode(Devices, start, 1) = {}
  THEN [l \in 0 .. size - 1 |-> IF l < Half THEN Marker[l] ELSE buffer[l]]
  ELSE LET at == DevOffset(DeviceOf(start, 1), start - (start % size))
       IN  IF Backed(at, size) THEN DoRead(m, at, size) ELSE buffer

(* The write half of data_channel, one do_write per run.                    *)
DataChannelWrite(m, a, wen, wdata) ==
  LET word == a - LowAddr(a)
      WriteRun(run, acc) == XbarWrite(acc, word + run[1], run[2],
                                      [k \in 0 .. run[2] - 1 |-> wdata[run[1] + k]])
  IN  FoldSet(WriteRun, m, StrbToRange(wen))

(* A mutant: the word is not shifted to lane 0.                             *)
LsuMemUnshifted(rdata, a, n, signed) == Extend([l \in 0 .. n - 1 |-> rdata[l]], n, signed)

(* The memory unit's end of a load: shift to lane 0, cut and extend.        *)
LsuMem(rdata, a, n, signed) ==
  Extend([l \in 0 .. n - 1 |-> rdata[LowAddr(a) + l]], n, signed)

-----------------------------------------------------------------------------
(* The reference's path. *)

(* pa_read and pa_write: the device must hold the whole access.             *)
BusHit(a, n) ==
  \E d \in Decode(Devices, a, n) : Backed(DevOffset(d, a), n)
BusRead(a, n) == DoRead(cemu_mem, DevOffset(DeviceOf(a, n), a), n)
BusWrite(a, n, src) == DoWrite(cemu_mem, DevOffset(DeviceOf(a, n), a), n, src)

(* mem_read checks the alignment; va_read without translation turns what    *)
(* the bus refuses into an access fault.                                    *)
MemRead(a, n, signed) ==
  IF a % n # 0 THEN Trap("misaligned")
  ELSE IF BusHit(a, n) THEN Loaded(Extend(BusRead(a, n), n, signed))
  ELSE Trap("fault")

MemWrite(a, n) ==
  IF a % n # 0 THEN Trap("misaligned")
  ELSE IF BusHit(a, n) THEN Done
  ELSE Trap("fault")

(* va_if: an instruction is half a data word.                               *)
InstFetch(a) == IF BusHit(a, Half) THEN Loaded(BusRead(a, Half)) ELSE Trap("fault")

-----------------------------------------------------------------------------

(* The port is enabled unless the instruction is misaligned, and each beat  *)
(* with the port enabled reads, after it wrote.                             *)
Beat(a, wen, wdata) ==
  /\ rtl_mem' = DataChannelWrite(rtl_mem, a, wen, wdata)
  /\ data_rdata' = XbarRead(rtl_mem', a, Lanes, data_rdata)

NoBeat == UNCHANGED <<rtl_mem, data_rdata>>

Load(a, n, signed) ==
  /\ IF LsuMisaligned(a, n)
     THEN NoBeat /\ rtl' = Trap("misaligned")
     ELSE Beat(a, {}, Zero) /\ rtl' = Loaded(LsuMem(data_rdata', a, n, signed))
  /\ cemu' = MemRead(a, n, signed)
  /\ UNCHANGED <<cemu_mem, inst_rdata>>

Store(a, n, src) ==
  /\ IF LsuMisaligned(a, n)
     THEN NoBeat /\ rtl' = Trap("misaligned")
     ELSE Beat(a, Wen(a, n), Wdata(src, n)) /\ rtl' = Done
  /\ cemu' = MemWrite(a, n)
  /\ cemu_mem' = IF cemu' = Done THEN BusWrite(a, n, src) ELSE cemu_mem
  /\ UNCHANGED inst_rdata

(* Any other instruction: its operands address the port, and it reads.      *)
Other(a) ==
  /\ Beat(a, {}, Zero)
  /\ rtl' = Done
  /\ cemu' = Done
  /\ UNCHANGED <<cemu_mem, inst_rdata>>

Fetch(a) ==
  /\ a % Half = 0
  /\ inst_rdata' = XbarRead(rtl_mem, a, Half, inst_rdata)
  /\ rtl' = Loaded(inst_rdata')
  /\ cemu' = InstFetch(a)
  /\ UNCHANGED <<rtl_mem, cemu_mem, data_rdata>>

Next ==
  \E a \in Addr :
    \/ \E n \in Size, signed \in BOOLEAN : Load(a, n, signed)
    \/ \E n \in Size, src \in Stored : Store(a, n, src)
    \/ Other(a)
    \/ Fetch(a)

Spec == Init /\ [][Next]_vars

-----------------------------------------------------------------------------

TypeOK ==
  /\ rtl_mem \in Memory
  /\ cemu_mem \in Memory
  /\ data_rdata \in Word
  /\ inst_rdata \in InstWord
  /\ rtl \in Outcome
  /\ cemu \in Outcome

(* Whatever is stored, to any lane and also where nothing or only part of   *)
(* the access is mapped, both memories keep the same contents: a difference *)
(* would stay until a load happens to meet it.                              *)
MemoriesAgree == rtl_mem = cemu_mem

(* Where the reference does not fault, loads and fetches deliver the same   *)
(* to both, and both find the same accesses misaligned.                     *)
OutcomesAgree == cemu.trap # "fault" => rtl = cemu

ASSUME LanesAssumption ==
  /\ Lanes \in Nat /\ Lanes > 1 /\ Lanes % 2 = 0
  /\ Base \in Nat /\ Span \in Nat \ {0}
  /\ Base % Span = 0 /\ Span % Lanes = 0 /\ MemSize <= Span
  /\ MemSize % Lanes = 0   \* else a word at the end is mapped for one side only
  /\ SramSpan \in Nat
  \* 32-bit addresses of the port in the bus's 64-bit space: no access wraps
  /\ SramSpan + Lanes < AddrLimit
ASSUME ImageAssumption ==
  Image \subseteq Memory /\ Stored \subseteq Word /\ Marker \in InstWord
=============================================================================
