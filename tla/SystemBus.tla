------------------------------- MODULE SystemBus -------------------------------
(***************************************************************************)
(* The reference's system bus (rv_systembus.hpp): devices are added to the *)
(* map, harts read and write through it, and the bus keeps the one         *)
(* reservation behind LR and SC and performs the atomic operations.        *)
(*                                                                         *)
(* Each device is a memory of its own (mmio_mem), of MemSize bytes behind  *)
(* a window that may be longer.  A register has two words; LR, SC and the  *)
(* atomics work on one word or on two.                                     *)
(***************************************************************************)
EXTENDS MmioMem

CONSTANTS
  Hart,           \* harts on the bus
  WordBytes,      \* bytes of a word (4)
  Requests,       \* the ranges someone asks to add, as [lo, hi]
  Accesses,       \* what harts access, as [pa, size]: apart, nested or crossing
  Operands,       \* register values they store or hand to atomics
  BitAnd(_, _), BitOr(_, _), BitXor(_, _)

VARIABLES
  devices,        \* the map
  mem,            \* the memory of each device, by the address it starts at
  lr,             \* the reservation: valid, pa, size and hart
  last            \* history: the last LR, what it read and what happened there

vars == <<devices, mem, lr, last>>

Addr == 0 .. AddrLimit - 1
(* Nobody adds a range that ends at 2^64; its end would be kept as 0.       *)
Range == {d \in [lo: Addr, hi: Addr] : d.lo < d.hi}
Sizes == {WordBytes, 2 * WordBytes}
Power[k \in Nat] == IF k = 0 THEN 1 ELSE Radix * Power[k - 1]
Cap(size) == Power[size]
Word(size) == 0 .. Cap(size) - 1
RegCap == Cap(2 * WordBytes)
Register == 0 .. RegCap - 1

(* Numbers as two's complement, and back at a register's width.             *)
Signed(x, cap) == IF 2 * x >= cap THEN x - cap ELSE x
SignExtend(x, size) == Signed(x, Cap(size)) % RegCap

(* A mutant: bytes are not cut to their width.                              *)
BytesUncut(x, size) == [k \in 0 .. size - 1 |-> x \div Power[k]]

(* A number of so many bytes, little-endian, and its bytes.                 *)
Number(bytes, size) ==
  LET sum[k \in 0 .. size] ==
        IF k = 0 THEN 0 ELSE sum[k - 1] + bytes[k - 1] * Power[k - 1]
  IN  sum[size]
Bytes(x, size) == [k \in 0 .. size - 1 |-> (x \div Power[k]) % Radix]

SomeHart == CHOOSE h \in Hart : TRUE
NoReservation == [valid |-> FALSE, pa |-> 0, size |-> WordBytes, hart |-> SomeHart]
NoLoad == [hart |-> SomeHart, pa |-> 0, size |-> WordBytes,
           read |-> FALSE, value |-> 0, overlaid |-> FALSE]

Init ==
  /\ devices = {}
  /\ mem = [lo \in {d.lo : d \in Requests} |-> [b \in Offset |-> 0]]
  /\ lr = NoReservation
  /\ last = NoLoad

-----------------------------------------------------------------------------
(* The bus's operations, as operators on the memories. *)

Hit(pa, size) == \E d \in Decode(devices, pa, size) : Backed(DevOffset(d, pa), size)
Device(pa, size) == CHOOSE d \in Decode(devices, pa, size) : TRUE

(* pa_read; only when it hits.                                              *)
ReadFrom(memory, pa, size) ==
  LET d == Device(pa, size)
  IN  Number(DoRead(memory[d.lo], DevOffset(d, pa), size), size)
PaRead(pa, size) == ReadFrom(mem, pa, size)

(* A mutant: a store that starts at the reserved address leaves it.        *)
DropsReservationBefore(pa, size) ==
  pa < lr.pa /\ (lr.pa + size) % AddrLimit <= (pa + size) % AddrLimit

(* pa_write drops the reservation first, also when no device takes the      *)
(* write.  Where no sum wraps the test comes down to the two starting at    *)
(* the same address: it uses the size of the write for both.                *)
DropsReservation(pa, size) ==
  pa <= lr.pa /\ (lr.pa + size) % AddrLimit <= (pa + size) % AddrLimit

Unreserved == [lr EXCEPT !.valid = FALSE]

Written(pa, size, x) ==
  IF ~Hit(pa, size) THEN mem
  ELSE LET d == Device(pa, size)
       IN  [mem EXCEPT ![d.lo] = DoWrite(@, DevOffset(d, pa), size, Bytes(x, size))]

PaWrite(pa, size, x) ==
  /\ lr' = IF DropsReservation(pa, size) THEN Unreserved ELSE lr
  /\ mem' = Written(pa, size, x)

(* pa_amo_op: a word is sign-extended when read, the operand is the whole   *)
(* register, and the result is cut to the size when written.                *)
Comparing == {"max", "min", "maxu", "minu"}
AmoFunct == Comparing \cup {"swap", "add", "and", "or", "xor"}

Larger(a, b) == IF a < b THEN b ELSE a
Smaller(a, b) == IF b < a THEN b ELSE a

(* A mutant: the unsigned forms compare signed.                             *)
AmoResultSigned(op, src, res) ==
  CASE op = "swap" -> src
    [] op = "add"  -> (src + res) % RegCap
    [] op = "and"  -> BitAnd(src, res)
    [] op = "or"   -> BitOr(src, res)
    [] op = "xor"  -> BitXor(src, res)
    [] op \in {"max", "maxu"} -> Larger(Signed(src, RegCap), Signed(res, RegCap)) % RegCap
    [] op \in {"min", "minu"} -> Smaller(Signed(src, RegCap), Signed(res, RegCap)) % RegCap

AmoResult(op, src, res) ==
  CASE op = "swap" -> src
    [] op = "add"  -> (src + res) % RegCap
    [] op = "and"  -> BitAnd(src, res)
    [] op = "or"   -> BitOr(src, res)
    [] op = "xor"  -> BitXor(src, res)
    [] op = "max"  -> Larger(Signed(src, RegCap), Signed(res, RegCap)) % RegCap
    [] op = "min"  -> Smaller(Signed(src, RegCap), Signed(res, RegCap)) % RegCap
    [] op = "maxu" -> Larger(src, res)
    [] op = "minu" -> Smaller(src, res)

AmoStores(op, pa, size, src) == AmoResult(op, src, SignExtend(PaRead(pa, size), size))

-----------------------------------------------------------------------------
(* The operation an atomic stands for, on words of the size it works on.    *)
AmoMeaning(op, src, old, size) ==
  LET cap == Cap(size)
      a == src % cap
  IN  CASE op = "swap" -> a
        [] op = "add"  -> (a + old) % cap
        [] op = "and"  -> BitAnd(a, old)
        [] op = "or"   -> BitOr(a, old)
        [] op = "xor"  -> BitXor(a, old)
        [] op = "max"  -> IF Signed(a, cap) > Signed(old, cap) THEN a ELSE old
        [] op = "min"  -> IF Signed(a, cap) < Signed(old, cap) THEN a ELSE old
        [] op = "maxu" -> IF a > old THEN a ELSE old
        [] op = "minu" -> IF a < old THEN a ELSE old

Wraps(pa, size) == pa + size >= AddrLimit

(* Two accesses meet in a byte of a memory.                                 *)
Touches(pa, size, qa, n) ==
  /\ Hit(pa, size) /\ Hit(qa, n)
  /\ LET d == Device(pa, size)
         e == Device(qa, n)
     IN  /\ d = e
         /\ DevOffset(d, pa) < DevOffset(e, qa) + n
         /\ DevOffset(e, qa) < DevOffset(d, pa) + size

(* The history after a write: a store from another start has touched what   *)
(* the last LR read.                                                        *)
Overlaid(pa, size) ==
  [last EXCEPT !.overlaid = @ \/ (pa # last.pa /\ Touches(pa, size, last.pa, last.size))]

-----------------------------------------------------------------------------
(* Actions: one call each that changes something. *)

AddDev(d) ==
  /\ Accepts(devices, d)
  /\ devices' = devices \cup {d}
  /\ UNCHANGED <<mem, lr, last>>

(* A store hands over as many low bytes of a register as it is long.        *)
Write(pa, size, x) ==
  /\ PaWrite(pa, size, x)
  /\ last' = Overlaid(pa, size)
  /\ UNCHANGED devices

(* pa_lr makes the reservation before it knows whether the read succeeds.   *)
LoadReserved(h, pa, size) ==
  /\ lr' = [valid |-> TRUE, pa |-> pa, size |-> size, hart |-> h]
  /\ last' = [hart |-> h, pa |-> pa, size |-> size, read |-> Hit(pa, size),
              value |-> IF Hit(pa, size) THEN PaRead(pa, size) ELSE 0,
              overlaid |-> FALSE]
  /\ UNCHANGED <<devices, mem>>

Reserved(h, pa, size) == lr = [valid |-> TRUE, pa |-> pa, size |-> size, hart |-> h]

(* pa_sc.  It fails without a reservation of just that hart, address and    *)
(* size; a failure ends a reservation the hart has elsewhere.               *)
StoreConditional(h, pa, size, x) ==
  /\ IF Reserved(h, pa, size)
     THEN /\ lr' = Unreserved
          /\ mem' = Written(pa, size, x)
          /\ last' = Overlaid(pa, size)
     ELSE /\ lr' = IF lr.hart = h THEN Unreserved ELSE lr
          /\ UNCHANGED <<mem, last>>
  /\ UNCHANGED devices

(* pa_amo_op: nothing is written when the read fails.                       *)
Amo(op, pa, size, src) ==
  /\ Hit(pa, size)
  /\ PaWrite(pa, size, AmoStores(op, pa, size, src))
  /\ last' = Overlaid(pa, size)
  /\ UNCHANGED devices

Next ==
  \/ \E d \in Requests : AddDev(d)
  \/ \E a \in Accesses :
       \/ \E op \in AmoFunct, src \in Operands : Amo(op, a.pa, a.size, src)
       \/ \E x \in Operands : Write(a.pa, a.size, x)
       \/ \E h \in Hart : LoadReserved(h, a.pa, a.size)
       \/ \E h \in Hart, x \in Operands : StoreConditional(h, a.pa, a.size, x)

Spec == Init /\ [][Next]_vars

-----------------------------------------------------------------------------

TypeOK ==
  /\ devices \subseteq Requests
  /\ mem \in [{d.lo : d \in Requests} -> Memory]
  /\ lr \in [valid: BOOLEAN, pa: Addr, size: Sizes, hart: Hart]
  /\ last \in [hart: Hart, pa: Addr, size: Sizes,
               read: BOOLEAN, value: Register, overlaid: BOOLEAN]

(* add_dev compares a new range with its two neighbours in the map only;    *)
(* yet no two ranges of the map ever overlap, in whatever order they come.  *)
DevicesDisjoint == \A d, e \in devices : d # e => ~Overlap(d, e)

(* The one candidate the lookup considers is the right one: an access that  *)
(* lies in a device reaches it, and no other access reaches any, up to the  *)
(* end of the address space.  An access that runs to that end or past it is *)
(* in no device; whoever answers it all the same is the last device before  *)
(* it.                                                                      *)
DecodeExact ==
  \A pa \in Addr, size \in Sizes :
    LET reached == Decode(devices, pa, size)
    IN  IF Wraps(pa, size)
        THEN \A d \in reached, e \in devices : e.lo <= pa => e.lo <= d.lo /\ d.lo <= pa
        ELSE reached = {d \in devices : d.lo <= pa /\ pa + size <= d.hi}

(* A store-conditional that would succeed now follows the very LR of its    *)
(* hart, the last LR of all, and finds what that LR read: no store, atomic  *)
(* or store-conditional of any hart to that address came between, whatever  *)
(* their sizes.  Left out is what the bus does not see, a write from        *)
(* another start that touched the bytes (ScFindsWhatLrRead), and what runs  *)
(* to the end of the address space, where a new device can step in between. *)
NoLostUpdate ==
  \A h \in Hart, a \in Accesses :
    Reserved(h, a.pa, a.size) =>
      /\ last.hart = h /\ last.pa = a.pa /\ last.size = a.size
      /\ last.read /\ ~last.overlaid /\ ~Wraps(a.pa, a.size) =>
           PaRead(a.pa, a.size) = last.value

(* What programs rely on: a store-conditional that would succeed now finds  *)
(* what its LR read.                                                        *)
ScFindsWhatLrRead ==
  \A h \in Hart, a \in Accesses :
    Reserved(h, a.pa, a.size) /\ last.read /\ ~Wraps(a.pa, a.size) =>
      PaRead(a.pa, a.size) = last.value

(* An atomic would do to a word what its name says, although it computes on *)
(* registers.  Only a comparison on words is decided by more than them, by  *)
(* the whole register it is given; with one a load of the size would not    *)
(* deliver it may leave the wrong one of the two words.                     *)
AmoExact ==
  \A a \in Accesses, op \in AmoFunct, src \in Operands :
    Hit(a.pa, a.size) =>
      LET old == PaRead(a.pa, a.size)
          new == ReadFrom(Written(a.pa, a.size, AmoStores(op, a.pa, a.size, src)), a.pa, a.size)
          word == src % Cap(a.size)
      IN  IF op \in Comparing /\ src # SignExtend(word, a.size)
          THEN new \in {word, old}
          ELSE new = AmoMeaning(op, src, old, a.size)

ASSUME BusAssumption ==
  /\ WordBytes \in Nat \ {0}
  /\ Requests \subseteq Range
  /\ Accesses \subseteq [pa: Addr, size: Sizes]
  /\ Operands \subseteq Register
  /\ Hart # {}
(* The bits of a result below a word are those of the operands.             *)
ASSUME BitwiseAssumption ==
  \A a, b \in Register, size \in Sizes :
    /\ BitAnd(a, b) \in Nat /\ BitAnd(a, b) % Cap(size) = BitAnd(a % Cap(size), b % Cap(size))
    /\ BitOr(a, b) \in Nat /\ BitOr(a, b) % Cap(size) = BitOr(a % Cap(size), b % Cap(size))
    /\ BitXor(a, b) \in Nat /\ BitXor(a, b) % Cap(size) = BitXor(a % Cap(size), b % Cap(size))
=============================================================================
