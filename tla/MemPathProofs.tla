---------------------------- MODULE MemPathProofs ----------------------------
(***************************************************************************)
(* Theorems about the two ways to memory, for every number of lanes, every *)
(* memory and window, and every contents.                                  *)
(***************************************************************************)
EXTENDS MemPath, Arithmetic

-----------------------------------------------------------------------------
(* Alignment. *)

LEMMA LaneFacts ==
  /\ Lanes \in Nat \ {0, 1} /\ Half \in Nat \ {0} /\ Lanes = 2 * Half /\ Half < Lanes
  /\ Span \in Nat \ {0} /\ Base \in Nat /\ MemSize \in Nat
BY LanesAssumption, MemSizeAssumption DEF Half

LEMMA SizeFacts ==
  ASSUME NEW n \in Size
  PROVE  n \in Nat \ {0} /\ n \in 1 .. Lanes /\ n <= Lanes /\ Lanes % n = 0 /\ 0 .. n - 1 \subseteq Lane
BY LaneFacts DEF Size, Lane

(* A multiple below a multiple is at least one unit below it.              *)
LEMMA MultiplesApart ==
  ASSUME NEW n \in Nat \ {0}, NEW a \in Nat, NEW b \in Nat, a % n = 0, b % n = 0, a < b
  PROVE  a + n <= b
<1>. DEFINE p == a \div n
            q == b \div n
<1>1. p \in Nat /\ p * n = a /\ q \in Nat /\ q * n = b
  BY DivisionParts
<1>. HIDE DEF p, q
<1>2. p < q
  <2>1. p >= q => b <= a
    BY <1>1, TimesMonotone
  <2>. QED BY <1>1, <2>1
<1>3. (p + 1) * n <= q * n /\ (p + 1) * n = p * n + n
  <2>1. (p + 1) * n <= q * n
    BY <1>1, <1>2, TimesMonotone
  <2>2. (p + 1) * n = p * n + n
    BY <1>1
  <2>. QED BY <2>1, <2>2
<1>. QED BY <1>1, <1>3

(* An aligned access lies in one data word.                                *)
LEMMA LowFacts ==
  ASSUME NEW a \in Nat, NEW n \in Size, a % n = 0
  PROVE  /\ LowAddr(a) \in Lane /\ LowAddr(a) % n = 0 /\ LowAddr(a) + n <= Lanes
         /\ a - LowAddr(a) \in Nat /\ (a - LowAddr(a)) % Lanes = 0
<1>. DEFINE low == LowAddr(a)
            q == a \div Lanes
<1>1. n \in Nat \ {0} /\ n <= Lanes /\ Lanes % n = 0
  BY SizeFacts
<1>2. low \in 0 .. Lanes - 1 /\ a = q * Lanes + low /\ q * Lanes = a - low /\ q \in Nat
  BY LaneFacts, DivisionParts DEF LowAddr
<1>3. low % n = 0
  <2>. DEFINE m == Lanes \div n
  <2>1. m \in Nat /\ Lanes = m * n
    <3>1. Lanes \div n \in Nat /\ (Lanes \div n) * n = Lanes - (Lanes % n)
      BY <1>1, LaneFacts, DivisionParts
    <3>. QED BY <1>1, <3>1, LaneFacts
  <2>. HIDE DEF m
  <2>2. m # 0
    <3>1. 0 * n = 0
      BY <1>1
    <3>. QED BY <2>1, <3>1, LaneFacts
  <2>3. (a % (m * n)) % n = a % n
    <3>1. m \in Nat \ {0} /\ a \in Int
      BY <2>1, <2>2
    <3>. QED BY <1>1, <3>1, RemainderTwice, Zenon
  <2>. QED BY <2>1, <2>3 DEF LowAddr
<1>4. low + n <= Lanes
  <2>. HIDE DEF low
  <2>. QED BY <1>1, <1>2, <1>3, LaneFacts, MultiplesApart
<1>5. a - low \in Nat /\ (a - low) % Lanes = 0
  <2>1. (q * Lanes) % Lanes = 0
    <3>1. q \in Int /\ Lanes \in Nat \ {0}
      BY <1>2, LaneFacts
    <3>. QED BY <3>1, DivisionExact, Zenon
  <2>2. a - low \in Nat
    <3>1. low <= a
      <4>1. 0 * Lanes <= q * Lanes /\ q * Lanes \in Int
        BY <1>2, LaneFacts, TimesMonotone
      <4>. HIDE DEF low, q
      <4>. QED BY <1>2, <4>1, LaneFacts
    <3>. HIDE DEF low
    <3>. QED BY <1>2, <3>1
  <2>. QED BY <1>2, <2>1, <2>2
<1>. QED BY <1>2, <1>3, <1>4, <1>5 DEF Lane

-----------------------------------------------------------------------------
(* Strobes. *)

LEMMA RunNone == StrbToRange({}) = {}
<1>. SUFFICES ASSUME NEW run \in StrbToRange({}) PROVE FALSE
  OBVIOUS
<1>1. run[1] \in Nat /\ run[2] \in Nat \ {0} /\ run[1] .. run[1] + run[2] - 1 \subseteq {}
  BY LaneFacts DEF StrbToRange, Lane
<1>2. run[1] \in run[1] .. run[1] + run[2] - 1
  BY <1>1
<1>. QED BY <1>1, <1>2

(* The strobes of an aligned store are one run.                            *)
LEMMA RunOne ==
  ASSUME NEW a \in Nat, NEW n \in Size, a % n = 0
  PROVE  StrbToRange(Wen(a, n)) = {<<LowAddr(a), n>>}
<1>. DEFINE low == LowAddr(a)
            wen == low .. low + n - 1
<1>1. low \in Lane /\ low \in Nat /\ low + n <= Lanes /\ n \in Nat \ {0} /\ n \in 1..Lanes
  BY LowFacts, LaneFacts, SizeFacts DEF Lane, Size
<1>2. Wen(a, n) = wen
  BY <1>1, LaneFacts DEF Wen, Lane
<1>. HIDE DEF low
<1>3. <<low, n>> \in StrbToRange(wen)
  BY <1>1 DEF StrbToRange
<1>4. ASSUME NEW run \in StrbToRange(wen) PROVE run = <<low, n>>
  <2>1. run \in Lane \X (1..Lanes)
    BY <1>4 DEF StrbToRange
  <2>. DEFINE f == run[1]
              l == run[2]
  <2>2. f \in Nat /\ l \in Nat \ {0}
    BY <2>1, LaneFacts DEF Lane
  <2>3. f .. f + l - 1 \subseteq wen /\ f - 1 \notin wen /\ (f + l - 1) + 1 \notin wen
    BY <1>4 DEF StrbToRange
  <2>4. f \in wen /\ f + l - 1 \in wen
    BY <2>2, <2>3
  <2>5. f = low
    BY <1>1, <2>2, <2>3, <2>4
  <2>6. l = n
    BY <1>1, <2>2, <2>3, <2>4, <2>5
  <2>. QED BY <2>1, <2>5, <2>6
<1>. QED BY <1>2, <1>3, <1>4 DEF low

LEMMA WriteNone == ASSUME NEW m, NEW a, NEW wdata PROVE DataChannelWrite(m, a, {}, wdata) = m
<1>. DEFINE Runs == StrbToRange({})
            Body(s, w) ==
              IF s = {} THEN m
              ELSE LET x == CHOOSE y \in s : TRUE
                   IN  XbarWrite(w[s \ {x}], (a - LowAddr(a)) + x[1], x[2],
                                 [k \in 0 .. x[2] - 1 |-> wdata[x[1] + k]])
            F(w) == [s \in SUBSET Runs |-> Body(s, w)]
            iter == CHOOSE w : w = F(w)
<1>1. DataChannelWrite(m, a, {}, wdata) = iter[Runs]
  BY Zenon DEF DataChannelWrite, FoldSet, MapThenFoldSet
<1>2. Runs = {}
  BY RunNone
<1>. HIDE DEF Runs
<1>3. \A w : Body({}, w) = m
  OBVIOUS
<1>. HIDE DEF Body
<1>4. \A w : F(w) = [s \in {{}} |-> m]
  BY <1>2, <1>3
<1>5. iter = F(iter)
  <2>1. [s \in {{}} |-> m] = F([s \in {{}} |-> m])
    BY <1>4
  <2>. HIDE DEF F
  <2>. QED BY <2>1
<1>. HIDE DEF iter, F
<1>. QED BY <1>1, <1>2, <1>4, <1>5

LEMMA WriteOne ==
  ASSUME NEW m, NEW a, NEW wdata, NEW wen, NEW first, NEW size, StrbToRange(wen) = {<<first, size>>}
  PROVE  DataChannelWrite(m, a, wen, wdata) =
           XbarWrite(m, (a - LowAddr(a)) + first, size, [k \in 0 .. size - 1 |-> wdata[first + k]])
<1>. DEFINE Runs == StrbToRange(wen)
            run == <<first, size>>
            Result == XbarWrite(m, (a - LowAddr(a)) + first, size,
                                [k \in 0 .. size - 1 |-> wdata[first + k]])
            Step(x, acc) == XbarWrite(acc, (a - LowAddr(a)) + x[1], x[2],
                                      [k \in 0 .. x[2] - 1 |-> wdata[x[1] + k]])
            Body(s, w) ==
              IF s = {} THEN m
              ELSE LET x == CHOOSE y \in s : TRUE IN  Step(x, w[s \ {x}])
            F(w) == [s \in SUBSET Runs |-> Body(s, w)]
            iter == CHOOSE w : w = F(w)
<1>1. DataChannelWrite(m, a, wen, wdata) = iter[Runs]
  BY Zenon DEF DataChannelWrite, FoldSet, MapThenFoldSet
<1>2. Runs = {run}
  OBVIOUS
<1>3. Step(run, m) = Result
  OBVIOUS
<1>. HIDE DEF Runs, run, Result, Step
<1>4. \A w : Body({}, w) = m
  OBVIOUS
<1>5. \A w : Body({run}, w) = Step(run, w[{}])
  <2>1. (CHOOSE y \in {run} : TRUE) = run /\ {run} \ {run} = {} /\ {run} # {}
    OBVIOUS
  <2>. QED BY <2>1
<1>. HIDE DEF Body
<1>. DEFINE W == [s \in SUBSET Runs |-> IF s = {} THEN m ELSE Result]
<1>6. \A s \in SUBSET Runs : s = {} \/ s = {run}
  BY <1>2
<1>7. {} \in SUBSET Runs /\ {run} \in SUBSET Runs /\ {run} # {}
  BY <1>2
<1>8. W = F(W)
  <2>1. W[{}] = m
    BY <1>7
  <2>2. \A s \in SUBSET Runs : Body(s, W) = IF s = {} THEN m ELSE Result
    <3>. HIDE DEF W
    <3>. QED BY <1>3, <1>4, <1>5, <1>6, <1>7, <2>1
  <2>. QED BY <2>2
<1>9. iter = F(iter)
  <2>. HIDE DEF F, W
  <2>. QED BY <1>8
<1>. HIDE DEF iter
<1>10. \A s \in SUBSET Runs : iter[s] = Body(s, iter)
  BY <1>9
<1>11. iter[{run}] = Result
  BY <1>3, <1>4, <1>5, <1>7, <1>10
<1>. QED BY <1>1, <1>2, <1>11 DEF Result

-----------------------------------------------------------------------------
(* Both buses. *)

Device == [lo |-> Base, hi |-> Base + Span]

(* No access through the port wraps.                                       *)
LEMMA AddrFacts ==
  ASSUME NEW a \in Addr
  PROVE  a \in Nat /\ \A n \in 1 .. Lanes : n \in Nat \ {0} /\ (a + n) % AddrLimit = a + n
<1>1. a \in Nat /\ a < SramSpan /\ SramSpan + Lanes < AddrLimit /\ SramSpan \in Nat
  BY LanesAssumption DEF Addr
<1>2. AddrLimit \in Nat \ {0} /\ Lanes \in Nat
  BY AddrLimitAssumption, LaneFacts
<1>3. ASSUME NEW n \in 1 .. Lanes PROVE (a + n) % AddrLimit = a + n
  <2>1. a + n \in 0 .. AddrLimit - 1
    BY <1>1, <1>2
  <2>. QED BY <1>2, <2>1, RemainderSmall
<1>. QED BY <1>1, <1>3

LEMMA DecodeDevice ==
  ASSUME NEW start \in Addr, NEW size \in 1 .. Lanes
  PROVE  /\ Decode(Devices, start, size) = IF Base <= start /\ start + size <= Base + Span
                                           THEN {Device} ELSE {}
         /\ Decode(Devices, start, size) # {} => DeviceOf(start, size) = Device
<1>. DEFINE D == Decode(Devices, start, size)
<1>1. \A d : d \in Devices <=> d = Device
  BY DEF Devices, Device
<1>2. Device.lo = Base /\ Device.hi = Base + Span /\ ~Precedes(Device, Device)
  BY LaneFacts DEF Device, Precedes
<1>. HIDE DEF Device
<1>3. \A d : d \in D <=> d = Device /\ Base <= start /\ start + size <= Base + Span
  BY <1>1, <1>2, AddrFacts DEF Decode, Candidates
<1>4. D = IF Base <= start /\ start + size <= Base + Span THEN {Device} ELSE {}
  <2>. HIDE DEF D
  <2>. QED BY <1>3
<1>5. D # {} => DeviceOf(start, size) = Device
  <2>. HIDE DEF D
  <2>1. DeviceOf(start, size) = CHOOSE d \in D : TRUE
    BY Zenon DEF DeviceOf, D
  <2>. QED BY <1>3, <2>1
<1>. QED BY <1>4, <1>5

(* The window starts at a multiple of its length.                          *)
LEMMA OffsetFacts ==
  ASSUME NEW start \in Nat
  PROVE  /\ DevOffset(Device, start) \in Nat
         /\ Base <= start /\ start < Base + Span => DevOffset(Device, start) = start - Base
<1>1. Device.hi - Device.lo = Span
  BY LaneFacts DEF Device
<1>2. DevOffset(Device, start) = start % Span
  BY <1>1 DEF DevOffset
<1>3. start % Span \in Nat
  BY LaneFacts
<1>4. ASSUME Base <= start, start < Base + Span PROVE start % Span = start - Base
  <2>. DEFINE q == Base \div Span
              r == start - Base
  <2>1. q \in Nat /\ q * Span = Base - (Base % Span)
    BY LaneFacts, DivisionParts
  <2>2. q * Span = Base
    BY <2>1, LaneFacts, LanesAssumption
  <2>3. q \in Int /\ Span \in Nat \ {0} /\ r \in 0 .. Span - 1 /\ start = Base + r
    BY <1>4, <2>1, LaneFacts
  <2>. HIDE DEF q, r
  <2>4. (q * Span + r) % Span = r
    BY <2>3, DivisionUnique, Zenon
  <2>. QED BY <2>2, <2>3, <2>4 DEF r
<1>. QED BY <1>2, <1>3, <1>4

LEMMA BusHitFacts ==
  ASSUME NEW a \in Addr, NEW n \in 1 .. Lanes
  PROVE  /\ BusHit(a, n) <=> /\ Base <= a /\ a + n <= Base + Span
                             /\ Backed(DevOffset(Device, a), n)
         /\ BusHit(a, n) => /\ DeviceOf(a, n) = Device /\ DevOffset(Device, a) = a - Base
                            /\ a - Base \in Nat /\ a - Base + n <= MemSize
<1>1. BusHit(a, n) <=> /\ Base <= a /\ a + n <= Base + Span
                      /\ Backed(DevOffset(Device, a), n)
  BY DecodeDevice DEF BusHit
<1>2. BusHit(a, n) => DeviceOf(a, n) = Device
  BY DecodeDevice DEF BusHit
<1>3. BusHit(a, n) => DevOffset(Device, a) = a - Base /\ a - Base \in Nat
  BY <1>1, LaneFacts, OffsetFacts, AddrFacts
<1>. QED BY <1>1, <1>2, <1>3 DEF Backed

(* The crossbar writes as the bus does.                                    *)
LEMMA XbarWriteFacts ==
  ASSUME NEW m, NEW a \in Addr, NEW n \in 1 .. Lanes, NEW buffer
  PROVE  XbarWrite(m, a, n, buffer) = IF BusHit(a, n)
                                      THEN DoWrite(m, DevOffset(DeviceOf(a, n), a), n, buffer)
                                      ELSE m
<1>1. CASE BusHit(a, n)
  BY <1>1 DEF BusHit, XbarWrite
<1>2. CASE ~BusHit(a, n)
  <2>1. CASE Decode(Devices, a, n) = {}
    BY <1>2, <2>1 DEF XbarWrite
  <2>2. CASE Decode(Devices, a, n) # {}
    <3>1. DeviceOf(a, n) = Device /\ ~Backed(DevOffset(Device, a), n)
      BY <1>2, <2>2, DecodeDevice DEF BusHit
    <3>. QED BY <1>2, <2>2, <3>1 DEF XbarWrite, DoWrite
  <2>. QED BY <2>1, <2>2
<1>. QED BY <1>1, <1>2

(* Only so many bytes of a buffer count.                                   *)
LEMMA BufferCut ==
  ASSUME NEW m, NEW start, NEW n, NEW b1, NEW b2, \A k \in 0 .. n - 1 : b1[k] = b2[k]
  PROVE  DoWrite(m, start, n, b1) = DoWrite(m, start, n, b2)
BY DEF DoWrite

(* An aligned store reaches both memories alike.                           *)
LEMMA StoreAgrees ==
  ASSUME NEW m, NEW a \in Addr, NEW n \in Size, a % n = 0, NEW src
  PROVE  DataChannelWrite(m, a, Wen(a, n), Wdata(src, n)) =
           IF BusHit(a, n) THEN DoWrite(m, DevOffset(DeviceOf(a, n), a), n, src) ELSE m
<1>. DEFINE low == LowAddr(a)
            buffer == [k \in 0 .. n - 1 |-> Wdata(src, n)[low + k]]
<1>1. low \in Nat /\ low % n = 0 /\ low + n <= Lanes /\ n \in Nat \ {0} /\ n \in 1 .. Lanes
      /\ a \in Nat /\ (a - low) + low = a
  BY LowFacts, SizeFacts, LaneFacts, AddrFacts DEF Lane
<1>2. DataChannelWrite(m, a, Wen(a, n), Wdata(src, n)) = XbarWrite(m, (a - low) + low, n, buffer)
  <2>1. a \in Nat
    BY AddrFacts
  <2>. QED BY <2>1, RunOne, WriteOne
<1>. HIDE DEF low
<1>3. \A k \in 0 .. n - 1 : buffer[k] = src[k]
  <2>. TAKE k \in 0 .. n - 1
  <2>1. buffer[k] = Wdata(src, n)[low + k] /\ low + k \in Lane
    BY <1>1, LaneFacts DEF Lane
  <2>2. Wdata(src, n)[low + k] = src[(low + k) % n]
    BY <2>1 DEF Wdata
  <2>3. (low + k) % n = k
    <3>. DEFINE q == low \div n
    <3>1. q \in Nat /\ q * n = low - (low % n)
      BY <1>1, DivisionParts
    <3>2. q * n = low
      BY <1>1, <3>1
    <3>3. q \in Int
      BY <3>1
    <3>. HIDE DEF q
    <3>4. (q * n + k) % n = k
      BY <1>1, <3>3, DivisionUnique, Zenon
    <3>. QED BY <3>2, <3>4
  <2>. QED BY <2>1, <2>2, <2>3
<1>. HIDE DEF buffer
<1>4. XbarWrite(m, a, n, buffer) = IF BusHit(a, n)
                                   THEN DoWrite(m, DevOffset(DeviceOf(a, n), a), n, buffer)
                                   ELSE m
  BY <1>1, XbarWriteFacts
<1>5. DoWrite(m, DevOffset(DeviceOf(a, n), a), n, buffer) =
        DoWrite(m, DevOffset(DeviceOf(a, n), a), n, src)
  BY <1>3, BufferCut
<1>. QED BY <1>1, <1>2, <1>4, <1>5

-----------------------------------------------------------------------------
(* Reads. *)

LEMMA ReadType ==
  ASSUME NEW m \in Memory, NEW start \in Nat, NEW size \in Nat, Backed(start, size)
  PROVE  DoRead(m, start, size) \in [0 .. size - 1 -> Byte]
<1>1. \A k \in 0 .. size - 1 : start + k \in Offset
  BY MemSizeAssumption DEF Backed, Offset
<1>. QED BY <1>1 DEF DoRead, Memory

LEMMA WriteType ==
  ASSUME NEW m \in Memory, NEW start \in Nat, NEW size \in Nat, NEW buffer,
         \A k \in 0 .. size - 1 : buffer[k] \in Byte
  PROVE  DoWrite(m, start, size, buffer) \in Memory
BY DEF DoWrite, Memory

LEMMA XbarReadType ==
  ASSUME NEW m \in Memory, NEW start \in Addr, NEW size \in {Half, Lanes},
         NEW buffer \in [0 .. size - 1 -> Byte]
  PROVE  XbarRead(m, start, size, buffer) \in [0 .. size - 1 -> Byte]
<1>1. size \in Nat \ {0} /\ Half \in Nat \ {0} /\ start \in Nat /\ 1 \in 1 .. Lanes
  BY LaneFacts, AddrFacts
<1>2. CASE Decode(Devices, start, 1) = {}
  <2>1. \A l \in 0 .. size - 1 : (IF l < Half THEN Marker[l] ELSE buffer[l]) \in Byte
    BY <1>1, ImageAssumption DEF InstWord
  <2>. QED BY <1>2, <2>1 DEF XbarRead
<1>3. CASE Decode(Devices, start, 1) # {}
  <2>. DEFINE at == DevOffset(DeviceOf(start, 1), start - (start % size))
  <2>1. DeviceOf(start, 1) = Device
    BY <1>1, <1>3, DecodeDevice
  <2>2. start - (start % size) \in Nat
    <3>1. (start \div size) * size = start - (start % size) /\ start \div size \in Nat
      BY <1>1, DivisionParts
    <3>2. \A x, y \in Nat : x * y \in Nat
      OBVIOUS
    <3>3. (start \div size) * size \in Nat
      <4>1. size \in Nat
        BY <1>1
      <4>. QED BY <3>1, <3>2, <4>1, Zenon
    <3>. QED BY <3>1, <3>3
  <2>3. at \in Nat
    BY <2>1, <2>2, OffsetFacts
  <2>. HIDE DEF at
  <2>4. Backed(at, size) => DoRead(m, at, size) \in [0 .. size - 1 -> Byte]
    BY <1>1, <2>3, ReadType
  <2>. QED BY <1>3, <2>4 DEF XbarRead, at
<1>. QED BY <1>2, <1>3

LEMMA ExtendType ==
  ASSUME NEW n \in Size, NEW bytes \in [0 .. n - 1 -> Byte], NEW signed \in BOOLEAN
  PROVE  Extend(bytes, n, signed) \in Word
<1>1. n \in Nat \ {0} /\ Radix - 1 \in Byte /\ 0 \in Byte
  BY SizeFacts, RadixAssumption DEF Byte
<1>. DEFINE fill == IF signed /\ 2 * bytes[n - 1] >= Radix THEN Radix - 1 ELSE 0
<1>2. fill \in Byte
  BY <1>1
<1>. HIDE DEF fill
<1>3. Extend(bytes, n, signed) = [l \in Lane |-> IF l < n THEN bytes[l] ELSE fill]
  BY DEF Extend, fill
<1>4. \A l \in Lane : (IF l < n THEN bytes[l] ELSE fill) \in Byte
  BY <1>1, <1>2 DEF Lane
<1>. QED BY <1>3, <1>4 DEF Word

LEMMA LsuMemType ==
  ASSUME NEW rdata \in Word, NEW a \in Nat, NEW n \in Size, a % n = 0, NEW signed \in BOOLEAN
  PROVE  LsuMem(rdata, a, n, signed) \in Word
<1>1. \A l \in 0 .. n - 1 : LowAddr(a) + l \in Lane
  BY LowFacts, SizeFacts, LaneFacts DEF Lane
<1>2. [l \in 0 .. n - 1 |-> rdata[LowAddr(a) + l]] \in [0 .. n - 1 -> Byte]
  BY <1>1 DEF Word
<1>. QED BY <1>2, ExtendType DEF LsuMem

(* What the reference loads, and the RTL's data word.                      *)
LEMMA LoadAgrees ==
  ASSUME NEW m \in Memory, NEW a \in Addr, NEW n \in Size, a % n = 0, BusHit(a, n), NEW buffer,
         NEW signed
  PROVE  LsuMem(XbarRead(m, a, Lanes, buffer), a, n, signed) =
           Extend(DoRead(m, DevOffset(DeviceOf(a, n), a), n), n, signed)
<1>. DEFINE low == LowAddr(a)
            at == a - Base
            word == at - low
<1>1. /\ low \in Nat /\ low + n <= Lanes /\ n \in Nat \ {0} /\ n \in 1 .. Lanes /\ a \in Nat
      /\ a - low \in Nat /\ (a - low) % Lanes = 0
  BY LowFacts, SizeFacts, LaneFacts, AddrFacts DEF Lane
<1>2. /\ DeviceOf(a, n) = Device /\ DevOffset(Device, a) = at /\ at \in Nat
      /\ at + n <= MemSize /\ Base <= a /\ a + n <= Base + Span
  BY <1>1, BusHitFacts
<1>3. Base % Lanes = 0
  <2>. DEFINE m1 == Span \div Lanes
              m2 == Base \div Span
  <2>1. m1 \in Nat /\ m1 * Lanes = Span - (Span % Lanes) /\ m2 \in Nat /\ m2 * Span = Base - (Base % Span)
    BY LaneFacts, DivisionParts
  <2>2. m1 * Lanes = Span /\ m2 * Span = Base
    BY <2>1, LaneFacts, LanesAssumption
  <2>. HIDE DEF m1, m2
  <2>3. Base = (m2 * m1) * Lanes /\ m2 * m1 \in Int
    BY <2>1, <2>2, LaneFacts
  <2>. DEFINE q == m2 * m1
  <2>. HIDE DEF q
  <2>4. q \in Int /\ Base = q * Lanes /\ Lanes \in Nat \ {0}
    BY <2>3, LaneFacts DEF q
  <2>5. (q * Lanes) % Lanes = 0
    BY <2>4, DivisionExact, Zenon
  <2>. QED BY <2>4, <2>5
<1>4. Base <= a - low
  <2>1. Lanes \in Nat \ {0} /\ Base \in Nat
    BY LaneFacts
  <2>2. a - low < Base => (a - low) + Lanes <= Base
    BY <1>1, <1>3, <2>1, MultiplesApart
  <2>. HIDE DEF low
  <2>. QED BY <1>1, <1>2, <2>1, <2>2
<1>5. word \in Nat /\ word % Lanes = 0
  <2>. DEFINE q == (a - low) \div Lanes
              p == Base \div Lanes
  <2>1. q \in Nat /\ q * Lanes = (a - low) - ((a - low) % Lanes)
    BY <1>1, LaneFacts, DivisionParts
  <2>2. p \in Nat /\ p * Lanes = Base - (Base % Lanes)
    BY LaneFacts, DivisionParts
  <2>3. q * Lanes = a - low /\ p * Lanes = Base
    BY <1>1, <1>3, <2>1, <2>2, LaneFacts
  <2>. HIDE DEF q, p, low
  <2>4. (q - p) * Lanes = q * Lanes - p * Lanes
    BY <2>1, <2>2, LaneFacts
  <2>5. word = (q - p) * Lanes
    BY <1>1, <2>3, <2>4, LaneFacts
  <2>. DEFINE d == q - p
  <2>6. d \in Int /\ Lanes \in Nat \ {0}
    BY <2>1, <2>2, LaneFacts
  <2>. HIDE DEF d
  <2>7. (d * Lanes) % Lanes = 0
    BY <2>6, DivisionExact, Zenon
  <2>8. word % Lanes = 0
    BY <2>5, <2>7 DEF d
  <2>. QED BY <1>1, <1>4, <2>8, LaneFacts
<1>. HIDE DEF low
<1>6. word + Lanes <= MemSize
  <2>1. MemSize % Lanes = 0 /\ Lanes \in Nat \ {0} /\ MemSize \in Nat /\ Base \in Nat
    BY LanesAssumption, LaneFacts
  <2>2. word < MemSize
    BY <1>1, <1>2, <2>1
  <2>. HIDE DEF word
  <2>. QED BY <1>5, <2>1, <2>2, MultiplesApart
<1>7. XbarRead(m, a, Lanes, buffer) = DoRead(m, word, Lanes)
  <2>1. Decode(Devices, a, 1) # {} /\ DeviceOf(a, 1) = Device
    <3>1. a + 1 <= Base + Span /\ 1 \in 1 .. Lanes
      BY <1>1, <1>2, LaneFacts
    <3>. QED BY <1>2, <3>1, DecodeDevice
  <2>2. a - (a % Lanes) = a - low
    BY DEF LowAddr, low
  <2>3. DevOffset(Device, a - low) = word
    <3>1. a - low < Base + Span
      BY <1>1, <1>2, LaneFacts
    <3>2. DevOffset(Device, a - low) = (a - low) - Base
      BY <1>1, <1>4, <3>1, OffsetFacts
    <3>. QED BY <1>1, <3>2, LaneFacts
  <2>4. Backed(word, Lanes)
    BY <1>6 DEF Backed
  <2>. HIDE DEF word
  <2>. QED BY <2>1, <2>2, <2>3, <2>4 DEF XbarRead
<1>8. \A l \in 0 .. n - 1 : DoRead(m, word, Lanes)[low + l] = DoRead(m, at, n)[l]
  <2>. TAKE l \in 0 .. n - 1
  <2>1. low + l \in 0 .. Lanes - 1 /\ word + (low + l) = at + l
    BY <1>1, <1>2, LaneFacts
  <2>. HIDE DEF word, at
  <2>. QED BY <2>1 DEF DoRead
<1>9. [l \in 0 .. n - 1 |-> DoRead(m, word, Lanes)[low + l]] = DoRead(m, at, n)
  <2>. HIDE DEF word, at
  <2>. QED BY <1>8 DEF DoRead
<1>10. LsuMem(XbarRead(m, a, Lanes, buffer), a, n, signed) =
         Extend([l \in 0 .. n - 1 |-> DoRead(m, word, Lanes)[low + l]], n, signed)
  BY <1>7, Zenon DEF LsuMem, low
<1>. HIDE DEF word, at
<1>. QED BY <1>2, <1>9, <1>10, Zenon

(* What both fetch.                                                        *)
LEMMA FetchAgrees ==
  ASSUME NEW m, NEW a \in Addr, a % Half = 0, BusHit(a, Half), NEW buffer
  PROVE  XbarRead(m, a, Half, buffer) = DoRead(m, DevOffset(DeviceOf(a, Half), a), Half)
<1>1. Half \in Nat \ {0} /\ Half \in 1 .. Lanes /\ a \in Nat
  BY LaneFacts, AddrFacts
<1>2. /\ DeviceOf(a, Half) = Device /\ Base <= a /\ a + Half <= Base + Span
      /\ Backed(DevOffset(Device, a), Half)
  BY <1>1, BusHitFacts
<1>3. Decode(Devices, a, 1) # {} /\ DeviceOf(a, 1) = Device
  <2>1. a + 1 <= Base + Span /\ 1 \in 1 .. Lanes
    BY <1>1, <1>2, LaneFacts
  <2>. QED BY <1>2, <2>1, DecodeDevice
<1>4. a - (a % Half) = a
  BY <1>1
<1>. QED BY <1>2, <1>3, <1>4 DEF XbarRead

-----------------------------------------------------------------------------
(* Types. *)

LEMMA TrapFacts ==
  /\ Zero \in Word /\ Done \in Outcome
  /\ \A v \in Word \cup InstWord : Loaded(v) \in Outcome /\ Loaded(v).trap = "none"
  /\ \A kind \in {"misaligned", "fault"} :
        Trap(kind) \in Outcome /\ Trap(kind).trap = kind /\ Trap(kind) # Done
<1>1. 0 \in Byte
  BY RadixAssumption DEF Byte
<1>2. Zero \in Word
  BY <1>1 DEF Zero, Word
<1>3. \A kind : Trap(kind).trap = kind /\ Done.trap = "none"
  BY DEF Trap, Done
<1>. QED BY <1>2, <1>3 DEF Done, Loaded, Trap, Outcome

(* A beat leaves memory and the data word well formed.                     *)
LEMMA BeatType ==
  ASSUME TypeOK, NEW a \in Addr, NEW wen, NEW wdata, Beat(a, wen, wdata),
         DataChannelWrite(rtl_mem, a, wen, wdata) \in Memory
  PROVE  rtl_mem' \in Memory /\ data_rdata' \in Word
<1>1. rtl_mem' \in Memory /\ data_rdata' = XbarRead(rtl_mem', a, Lanes, data_rdata)
  BY DEF Beat
<1>2. data_rdata \in [0 .. Lanes - 1 -> Byte]
  BY DEF TypeOK, Word, Lane
<1>3. XbarRead(rtl_mem', a, Lanes, data_rdata) \in [0 .. Lanes - 1 -> Byte]
  BY <1>1, <1>2, XbarReadType
<1>. QED BY <1>1, <1>3 DEF Word, Lane

(* The memory a store leaves on the reference's side.                      *)
LEMMA BusWriteType ==
  ASSUME NEW m \in Memory, NEW a \in Addr, NEW n \in Size, NEW src \in Stored, BusHit(a, n)
  PROVE  DoWrite(m, DevOffset(DeviceOf(a, n), a), n, src) \in Memory
<1>1. n \in Nat \ {0} /\ n \in 1 .. Lanes /\ 0 .. n - 1 \subseteq Lane
  BY SizeFacts
<1>2. \A k \in 0 .. n - 1 : src[k] \in Byte
  BY <1>1, ImageAssumption DEF Word
<1>3. DevOffset(DeviceOf(a, n), a) \in Nat
  BY <1>1, BusHitFacts
<1>. QED BY <1>1, <1>2, <1>3, WriteType

(* What the reference reads.                                               *)
LEMMA BusReadType ==
  ASSUME cemu_mem \in Memory, NEW a \in Addr, NEW n \in 1 .. Lanes, BusHit(a, n)
  PROVE  BusRead(a, n) \in [0 .. n - 1 -> Byte]
<1>1. DevOffset(DeviceOf(a, n), a) \in Nat /\ Backed(DevOffset(DeviceOf(a, n), a), n)
  BY BusHitFacts
<1>. QED BY <1>1, ReadType DEF BusRead

LEMMA InitTyped == Init => TypeOK
<1>1. 0 \in Byte
  BY RadixAssumption DEF Byte
<1>2. [l \in 0 .. Half - 1 |-> 0] \in InstWord
  BY <1>1 DEF InstWord
<1>. QED BY <1>2, TrapFacts, ImageAssumption DEF Init, TypeOK

LEMMA LoadTyped ==
  ASSUME TypeOK, NEW a \in Addr, NEW n \in Size, NEW signed \in BOOLEAN, Load(a, n, signed)
  PROVE  TypeOK'
<1>1. a \in Nat /\ n \in 1 .. Lanes
  BY SizeFacts, LanesAssumption DEF Addr
<1>2. cemu' \in Outcome
  <2>1. cemu' = MemRead(a, n, signed)
    BY DEF Load
  <2>2. BusHit(a, n) => Extend(BusRead(a, n), n, signed) \in Word
    BY <1>1, BusReadType, ExtendType DEF TypeOK
  <2>. QED BY <2>1, <2>2, TrapFacts DEF MemRead
<1>3. cemu_mem' \in Memory /\ inst_rdata' \in InstWord
  BY DEF Load, TypeOK
<1>4. CASE LsuMisaligned(a, n)
  <2>1. rtl' = Trap("misaligned") /\ rtl_mem' = rtl_mem /\ data_rdata' = data_rdata
    BY <1>4 DEF Load, NoBeat
  <2>. QED BY <1>2, <1>3, <2>1, TrapFacts DEF TypeOK
<1>5. CASE ~LsuMisaligned(a, n)
  <2>1. Beat(a, {}, Zero) /\ rtl' = Loaded(LsuMem(data_rdata', a, n, signed)) /\ a % n = 0
    BY <1>5 DEF Load, LsuMisaligned
  <2>2. DataChannelWrite(rtl_mem, a, {}, Zero) \in Memory
    BY WriteNone DEF TypeOK
  <2>3. rtl_mem' \in Memory /\ data_rdata' \in Word
    BY <1>1, <2>1, <2>2, BeatType
  <2>4. LsuMem(data_rdata', a, n, signed) \in Word
    BY <1>1, <2>1, <2>3, LsuMemType
  <2>. QED BY <1>2, <1>3, <2>1, <2>3, <2>4, TrapFacts DEF TypeOK
<1>. QED BY <1>4, <1>5

LEMMA StoreTyped ==
  ASSUME TypeOK, NEW a \in Addr, NEW n \in Size, NEW src \in Stored, Store(a, n, src)
  PROVE  TypeOK'
<1>1. a \in Nat
  BY LanesAssumption DEF Addr
<1>2. cemu' = MemWrite(a, n) /\ cemu' \in Outcome
  BY TrapFacts DEF Store, MemWrite
<1>3. cemu_mem' \in Memory
  <2>1. cemu' = Done => BusHit(a, n)
    BY <1>2, TrapFacts DEF MemWrite
  <2>2. BusHit(a, n) => BusWrite(a, n, src) \in Memory
    BY <1>1, BusWriteType DEF BusWrite, TypeOK
  <2>. QED BY <2>1, <2>2 DEF Store, TypeOK
<1>4. inst_rdata' \in InstWord
  BY DEF Store, TypeOK
<1>5. CASE LsuMisaligned(a, n)
  <2>1. rtl' = Trap("misaligned") /\ rtl_mem' = rtl_mem /\ data_rdata' = data_rdata
    BY <1>5 DEF Store, NoBeat
  <2>. QED BY <1>2, <1>3, <1>4, <2>1, TrapFacts DEF TypeOK
<1>6. CASE ~LsuMisaligned(a, n)
  <2>1. Beat(a, Wen(a, n), Wdata(src, n)) /\ rtl' = Done /\ a % n = 0
    BY <1>6 DEF Store, LsuMisaligned
  <2>2. DataChannelWrite(rtl_mem, a, Wen(a, n), Wdata(src, n)) \in Memory
    BY <1>1, <2>1, StoreAgrees, BusWriteType DEF TypeOK
  <2>3. rtl_mem' \in Memory /\ data_rdata' \in Word
    BY <1>1, <2>1, <2>2, BeatType
  <2>. QED BY <1>2, <1>3, <1>4, <2>1, <2>3, TrapFacts DEF TypeOK
<1>. QED BY <1>5, <1>6

LEMMA OtherTyped ==
  ASSUME TypeOK, NEW a \in Addr, Other(a)
  PROVE  TypeOK'
<1>1. a \in Nat
  BY LanesAssumption DEF Addr
<1>2. DataChannelWrite(rtl_mem, a, {}, Zero) \in Memory
  BY WriteNone DEF TypeOK
<1>3. rtl_mem' \in Memory /\ data_rdata' \in Word
  BY <1>1, <1>2, BeatType DEF Other
<1>. QED BY <1>3, TrapFacts DEF Other, TypeOK

LEMMA FetchTyped ==
  ASSUME TypeOK, NEW a \in Addr, Fetch(a)
  PROVE  TypeOK'
<1>1. a \in Nat /\ Half \in 1 .. Lanes
  BY LaneFacts, LanesAssumption DEF Addr
<1>2. inst_rdata' = XbarRead(rtl_mem, a, Half, inst_rdata) /\ inst_rdata' \in InstWord
  <2>1. inst_rdata' = XbarRead(rtl_mem, a, Half, inst_rdata)
    BY DEF Fetch
  <2>2. inst_rdata \in [0 .. Half - 1 -> Byte] /\ rtl_mem \in Memory
    BY DEF TypeOK, InstWord
  <2>3. XbarRead(rtl_mem, a, Half, inst_rdata) \in [0 .. Half - 1 -> Byte]
    BY <1>1, <2>2, XbarReadType
  <2>. QED BY <2>1, <2>3 DEF InstWord
<1>3. rtl' \in Outcome
  BY <1>2, TrapFacts DEF Fetch
<1>4. cemu' \in Outcome
  <2>1. BusHit(a, Half) => BusRead(a, Half) \in InstWord
    BY <1>1, BusReadType DEF TypeOK, InstWord
  <2>. QED BY <2>1, TrapFacts DEF Fetch, InstFetch
<1>. QED BY <1>2, <1>3, <1>4 DEF Fetch, TypeOK

LEMMA StepTyped == TypeOK /\ [Next]_vars => TypeOK'
<1>. SUFFICES ASSUME TypeOK, [Next]_vars PROVE TypeOK'
  OBVIOUS
<1>1. ASSUME NEW a \in Addr, NEW n \in Size, NEW signed \in BOOLEAN, Load(a, n, signed)
      PROVE  TypeOK'
  BY <1>1, LoadTyped
<1>2. ASSUME NEW a \in Addr, NEW n \in Size, NEW src \in Stored, Store(a, n, src)
      PROVE  TypeOK'
  BY <1>2, StoreTyped
<1>3. ASSUME NEW a \in Addr, Other(a) PROVE TypeOK'
  BY <1>3, OtherTyped
<1>4. ASSUME NEW a \in Addr, Fetch(a) PROVE TypeOK'
  BY <1>4, FetchTyped
<1>5. CASE UNCHANGED vars
  BY <1>5 DEF vars, TypeOK
<1>. QED BY <1>1, <1>2, <1>3, <1>4, <1>5 DEF Next

(* Both memories, both read registers and both outcomes stay what they     *)
(* are declared to be: no access leaves a byte of memory or a lane of a    *)
(* register undefined.                                                     *)
THEOREM TypesCorrect == Spec => []TypeOK
<1>. QED BY InitTyped, StepTyped, PTL DEF Spec

-----------------------------------------------------------------------------
(* Agreement. *)

LEMMA StepMemories == TypeOK /\ MemoriesAgree /\ [Next]_vars => MemoriesAgree'
<1>. SUFFICES ASSUME TypeOK, MemoriesAgree, [Next]_vars PROVE MemoriesAgree'
  OBVIOUS
<1>1. ASSUME NEW a \in Addr, NEW n \in Size, NEW signed \in BOOLEAN, Load(a, n, signed)
      PROVE  MemoriesAgree'
  <2>1. cemu_mem' = cemu_mem /\ (rtl_mem' = rtl_mem \/ rtl_mem' = DataChannelWrite(rtl_mem, a, {}, Zero))
    BY <1>1 DEF Load, NoBeat, Beat
  <2>. QED BY <2>1, WriteNone DEF MemoriesAgree
<1>2. ASSUME NEW a \in Addr, NEW n \in Size, NEW src \in Stored, Store(a, n, src)
      PROVE  MemoriesAgree'
  <2>1. a \in Nat
    BY LanesAssumption DEF Addr
  <2>2. /\ cemu' = MemWrite(a, n)
        /\ cemu_mem' = IF cemu' = Done THEN BusWrite(a, n, src) ELSE cemu_mem
    BY <1>2 DEF Store
  <2>3. CASE a % n # 0
    <3>1. rtl_mem' = rtl_mem
      BY <1>2, <2>3 DEF Store, LsuMisaligned, NoBeat
    <3>2. cemu' # Done
      BY <2>2, <2>3, TrapFacts DEF MemWrite
    <3>. QED BY <2>2, <3>1, <3>2 DEF MemoriesAgree
  <2>4. CASE a % n = 0
    <3>1. rtl_mem' = DataChannelWrite(rtl_mem, a, Wen(a, n), Wdata(src, n))
      BY <1>2, <2>4 DEF Store, LsuMisaligned, Beat
    <3>2. cemu' = Done <=> BusHit(a, n)
      BY <2>2, <2>4, TrapFacts DEF MemWrite
    <3>3. rtl_mem' = IF BusHit(a, n) THEN BusWrite(a, n, src) ELSE cemu_mem
      BY <2>1, <2>4, <3>1, StoreAgrees DEF BusWrite, MemoriesAgree
    <3>. QED BY <2>2, <3>2, <3>3 DEF MemoriesAgree
  <2>. QED BY <2>3, <2>4
<1>3. ASSUME NEW a \in Addr, Other(a) PROVE MemoriesAgree'
  BY <1>3, WriteNone DEF Other, Beat, MemoriesAgree
<1>4. ASSUME NEW a \in Addr, Fetch(a) PROVE MemoriesAgree'
  BY <1>4 DEF Fetch, MemoriesAgree
<1>5. CASE UNCHANGED vars
  BY <1>5 DEF vars, MemoriesAgree
<1>. QED BY <1>1, <1>2, <1>3, <1>4, <1>5 DEF Next

(* No sequence of loads, stores and fetches, aligned or not, inside the    *)
(* window or across its end, makes the crossbar's memory and the system    *)
(* bus's differ: strb_to_range cuts no store short and neither side writes *)
(* what the other refuses.                                                 *)
THEOREM MemoriesStayEqual == Spec => []MemoriesAgree
<1>1. Init => MemoriesAgree
  BY DEF Init, MemoriesAgree
<1>. QED BY <1>1, InitTyped, StepTyped, StepMemories, PTL DEF Spec

LEMMA StepOutcomes == TypeOK /\ MemoriesAgree /\ OutcomesAgree /\ [Next]_vars => OutcomesAgree'
<1>. SUFFICES ASSUME TypeOK, MemoriesAgree, OutcomesAgree, [Next]_vars, cemu'.trap # "fault"
              PROVE  rtl' = cemu'
  BY DEF OutcomesAgree
<1>1. ASSUME NEW a \in Addr, NEW n \in Size, NEW signed \in BOOLEAN, Load(a, n, signed)
      PROVE  rtl' = cemu'
  <2>1. a \in Nat /\ cemu' = MemRead(a, n, signed)
    BY <1>1, LanesAssumption DEF Addr, Load
  <2>2. CASE a % n # 0
    BY <1>1, <2>1, <2>2 DEF Load, LsuMisaligned, MemRead
  <2>3. CASE a % n = 0
    <3>1. /\ rtl_mem' = rtl_mem /\ data_rdata' = XbarRead(rtl_mem', a, Lanes, data_rdata)
          /\ rtl' = Loaded(LsuMem(data_rdata', a, n, signed))
      BY <1>1, <2>3, WriteNone DEF Load, LsuMisaligned, Beat
    <3>2. BusHit(a, n) /\ cemu' = Loaded(Extend(BusRead(a, n), n, signed))
      BY <2>1, <2>3, TrapFacts DEF MemRead
    <3>3. LsuMem(XbarRead(cemu_mem, a, Lanes, data_rdata), a, n, signed) =
            Extend(BusRead(a, n), n, signed)
      BY <2>1, <2>3, <3>2, LoadAgrees DEF TypeOK, BusRead
    <3>. QED BY <3>1, <3>2, <3>3 DEF MemoriesAgree
  <2>. QED BY <2>2, <2>3
<1>2. ASSUME NEW a \in Addr, NEW n \in Size, NEW src \in Stored, Store(a, n, src)
      PROVE  rtl' = cemu'
  BY <1>2, TrapFacts DEF Store, LsuMisaligned, MemWrite
<1>3. ASSUME NEW a \in Addr, Other(a) PROVE rtl' = cemu'
  BY <1>3 DEF Other
<1>4. ASSUME NEW a \in Addr, Fetch(a) PROVE rtl' = cemu'
  <2>1. /\ a \in Nat /\ a % Half = 0 /\ cemu' = InstFetch(a)
        /\ rtl' = Loaded(XbarRead(rtl_mem, a, Half, inst_rdata))
    BY <1>4, LanesAssumption DEF Addr, Fetch
  <2>2. BusHit(a, Half) /\ cemu' = Loaded(BusRead(a, Half))
    BY <2>1, TrapFacts DEF InstFetch
  <2>3. XbarRead(cemu_mem, a, Half, inst_rdata) = BusRead(a, Half)
    BY <2>1, <2>2, FetchAgrees DEF BusRead
  <2>. QED BY <2>1, <2>2, <2>3 DEF MemoriesAgree
<1>5. CASE UNCHANGED vars
  BY <1>5 DEF vars, OutcomesAgree
<1>. QED BY <1>1, <1>2, <1>3, <1>4, <1>5 DEF Next

(* What a load or a fetch delivers through the lanes, the strobes and the  *)
(* crossbar is what mem_read and va_if deliver through the bus, and both   *)
(* sides find the same accesses misaligned; only where the reference       *)
(* faults, and the RTL does not, may they differ.                          *)
THEOREM AccessesAgree == Spec => []OutcomesAgree
<1>1. Init => MemoriesAgree /\ OutcomesAgree
  BY DEF Init, MemoriesAgree, OutcomesAgree
<1>. QED BY <1>1, InitTyped, StepTyped, StepMemories, StepOutcomes, PTL DEF Spec
=============================================================================
