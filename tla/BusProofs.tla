------------------------------ MODULE BusProofs ------------------------------
(***************************************************************************)
(* Theorems about the system bus, for every set of requested ranges, every *)
(* width of a byte and of a word, and any number of harts.                 *)
(***************************************************************************)
EXTENDS SystemBus, Arithmetic

-----------------------------------------------------------------------------
(* The device map. *)

Disjoint(D) == \A d, e \in D : d # e => ~Overlap(d, e)

LEMMA RangeFacts ==
  ASSUME NEW d \in Range
  PROVE  d.lo \in Nat /\ d.hi \in Nat /\ d.lo < d.hi /\ d.lo <= AddrLimit /\ d.hi < AddrLimit
BY AddrLimitAssumption DEF Range, Addr

LEMMA RangesEqual ==
  ASSUME NEW d \in Range, NEW e \in Range, d.lo = e.lo, d.hi = e.hi PROVE d = e
BY DEF Range

(* A set of ranges has a first one in the order of the map ...             *)
LEMMA FirstRange ==
  ASSUME NEW D \in SUBSET Range, D # {}
  PROVE  \E d \in D : \A e \in D : ~Precedes(e, d)
<1>1. PICK lo \in {d.lo : d \in D} : \A x \in {d.lo : d \in D} : lo <= x
  <2>1. {d.lo : d \in D} \in SUBSET Nat
    BY RangeFacts
  <2>2. {d.lo : d \in D} # {}
    OBVIOUS
  <2>. QED BY <2>1, <2>2, NatMinimum
<1>. DEFINE L == {d \in D : d.lo = lo}
<1>2. PICK hi \in {d.hi : d \in L} : \A x \in {d.hi : d \in L} : hi <= x
  <2>1. {d.hi : d \in L} \in SUBSET Nat
    BY RangeFacts
  <2>2. {d.hi : d \in L} # {}
    OBVIOUS
  <2>. QED BY <2>1, <2>2, NatMinimum
<1>3. PICK d \in L : d.hi = hi
  BY <1>2
<1>4. \A e \in D : ~Precedes(e, d)
  <2>. TAKE e \in D
  <2>1. d.lo <= e.lo /\ (e.lo = d.lo => d.hi <= e.hi)
    BY <1>1, <1>2, <1>3
  <2>. QED BY <2>1, RangeFacts DEF Precedes
<1>. QED BY <1>3, <1>4

(* ... and a last one.                                                     *)
LEMMA LastRange ==
  ASSUME NEW D \in SUBSET Range, D # {}
  PROVE  \E d \in D : \A e \in D : ~Precedes(d, e)
<1>0. AddrLimit \in Nat
  BY AddrLimitAssumption
<1>1. PICK lo \in {d.lo : d \in D} : \A x \in {d.lo : d \in D} : x <= lo
  <2>1. {d.lo : d \in D} \in SUBSET (0..AddrLimit)
    BY <1>0, RangeFacts
  <2>2. {d.lo : d \in D} # {}
    OBVIOUS
  <2>. QED BY <1>0, <2>1, <2>2, NatMaximum
<1>. DEFINE L == {d \in D : d.lo = lo}
<1>2. PICK hi \in {d.hi : d \in L} : \A x \in {d.hi : d \in L} : x <= hi
  <2>1. {d.hi : d \in L} \in SUBSET (0..AddrLimit)
    BY <1>0, RangeFacts
  <2>2. {d.hi : d \in L} # {}
    OBVIOUS
  <2>. QED BY <1>0, <2>1, <2>2, NatMaximum
<1>3. PICK d \in L : d.hi = hi
  BY <1>2
<1>4. \A e \in D : ~Precedes(d, e)
  <2>. TAKE e \in D
  <2>1. e.lo <= d.lo /\ (e.lo = d.lo => e.hi <= d.hi)
    BY <1>1, <1>2, <1>3
  <2>. QED BY <2>1, RangeFacts DEF Precedes
<1>. QED BY <1>3, <1>4

(* Comparing a new range with its two neighbours is enough.                *)
LEMMA AcceptedDisjoint ==
  ASSUME NEW D \in SUBSET Range, Disjoint(D), NEW new \in Range, Accepts(D, new)
  PROVE  Disjoint(D \cup {new})
<1>1. ASSUME NEW d \in D PROVE ~Overlap(d, new)
  <2>1. CASE Precedes(new, d)
    <3>. DEFINE Behind == {e \in D : Precedes(new, e)}
    <3>1. PICK f \in Behind : \A e \in Behind : ~Precedes(e, f)
      BY <1>1, <2>1, FirstRange
    <3>2. f \in Neighbours(D, new)
      BY <3>1 DEF Neighbours
    <3>3. ~Overlap(f, new) /\ ~Precedes(d, f) /\ Precedes(new, f)
      BY <1>1, <2>1, <3>1, <3>2 DEF Accepts
    <3>. QED BY <1>1, <3>3, RangeFacts DEF Overlap, Precedes
  <2>2. CASE ~Precedes(new, d)
    <3>. DEFINE Ahead == {e \in D : ~Precedes(new, e)}
    <3>1. PICK l \in Ahead : \A e \in Ahead : ~Precedes(l, e)
      BY <1>1, <2>2, LastRange
    <3>2. l \in Neighbours(D, new)
      BY <3>1 DEF Neighbours
    <3>3. ~Overlap(l, new) /\ ~Precedes(l, d) /\ ~Precedes(new, l)
      BY <1>1, <2>2, <3>1, <3>2 DEF Accepts
    <3>4. d = l \/ ~Overlap(d, l)
      BY <1>1 DEF Disjoint
    <3>. QED BY <1>1, <3>3, <3>4, RangeFacts DEF Overlap, Precedes
  <2>. QED BY <2>1, <2>2
<1>2. \A d, e : Overlap(d, e) <=> Overlap(e, d)
  BY DEF Overlap
<1>. QED BY <1>1, <1>2 DEF Disjoint

(* In a map of disjoint ranges the one candidate is the range that holds   *)
(* the access, if there is one, as long as the access does not wrap.       *)
LEMMA DecodeHolds ==
  ASSUME NEW D \in SUBSET Range, Disjoint(D), NEW pa \in Nat, NEW size \in Nat \ {0},
         ~Wraps(pa, size)
  PROVE  Decode(D, pa, size) = {d \in D : d.lo <= pa /\ pa + size <= d.hi}
<1>1. ASSUME NEW d \in D, d.lo <= pa, pa + size <= d.hi, NEW e \in D, e.lo <= pa
      PROVE  ~Precedes(d, e)
  <2>1. d = e \/ ~Overlap(d, e)
    BY DEF Disjoint
  <2>. QED BY <1>1, <2>1, RangeFacts DEF Overlap, Precedes
<1>2. (pa + size) % AddrLimit = pa + size
  <2>1. AddrLimit \in Nat \ {0} /\ pa + size \in 0 .. AddrLimit - 1
    BY AddrLimitAssumption DEF Wraps
  <2>. QED BY <2>1, RemainderSmall
<1>. QED BY <1>1, <1>2 DEF Decode, Candidates

(* Also of one that wraps there is at most one device, the last to start   *)
(* at the address or before it.                                            *)
LEMMA DecodeLast ==
  ASSUME NEW D \in SUBSET Range, NEW pa \in Nat, NEW size, NEW d \in Decode(D, pa, size)
  PROVE  /\ d \in D /\ d.lo <= pa
         /\ \A e \in D : e.lo <= pa => e.lo <= d.lo
         /\ \A e \in Decode(D, pa, size) : e = d
<1>1. d \in D /\ d.lo <= pa /\ \A e \in D : e.lo <= pa => ~Precedes(d, e)
  BY DEF Decode, Candidates
<1>2. ASSUME NEW e \in D, e.lo <= pa PROVE e.lo <= d.lo
  BY <1>1, <1>2, RangeFacts DEF Precedes
<1>3. ASSUME NEW e \in Decode(D, pa, size) PROVE e = d
  <2>1. e \in D /\ e.lo <= pa /\ \A f \in D : f.lo <= pa => ~Precedes(e, f)
    BY DEF Decode, Candidates
  <2>2. ~Precedes(d, e) /\ ~Precedes(e, d)
    BY <1>1, <2>1
  <2>3. d.lo = e.lo /\ d.hi = e.hi
    BY <1>1, <2>1, <2>2, RangeFacts DEF Precedes
  <2>. QED BY <1>1, <2>1, <2>3, RangesEqual
<1>. QED BY <1>1, <1>2, <1>3

-----------------------------------------------------------------------------

LEMMA SizeFacts == \A size \in Sizes : size \in Nat \ {0}
BY BusAssumption DEF Sizes

(* A map add_dev made: each range starts at a multiple of its length.      *)
WellMapped(D) ==
  /\ D \subseteq Requests /\ Disjoint(D)
  /\ \A d \in D : d.lo % (d.hi - d.lo) = 0

LEMMA MapInvariant == Spec => []WellMapped(devices)
<1>1. Init => WellMapped(devices)
  BY DEF Init, WellMapped, Disjoint
<1>2. WellMapped(devices) /\ [Next]_vars => WellMapped(devices)'
  <2>. SUFFICES ASSUME WellMapped(devices), [Next]_vars PROVE WellMapped(devices)'
    OBVIOUS
  <2>1. ASSUME NEW d \in Requests, AddDev(d) PROVE WellMapped(devices)'
    <3>1. devices' = devices \cup {d} /\ Accepts(devices, d)
      BY <2>1 DEF AddDev
    <3>2. Disjoint(devices \cup {d})
      BY <3>1, AcceptedDisjoint, BusAssumption DEF WellMapped
    <3>3. d.lo % (d.hi - d.lo) = 0
      BY <3>1 DEF Accepts
    <3>. QED BY <3>1, <3>2, <3>3 DEF WellMapped
  <2>2. CASE UNCHANGED devices
    BY <2>2 DEF WellMapped
  <2>. QED BY <2>1, <2>2 DEF Next, vars, Write, LoadReserved, StoreConditional, Amo
<1>. QED BY <1>1, <1>2, PTL DEF Spec

(* No two devices overlap, in whatever order add_dev was asked for them,   *)
(* although it compares a range with its neighbours in the map only.       *)
THEOREM MapDisjoint == Spec => []DevicesDisjoint
<1>1. WellMapped(devices) => DevicesDisjoint
  BY DEF WellMapped, Disjoint, DevicesDisjoint
<1>. QED BY <1>1, MapInvariant, PTL

(* The lookup of pa_read and pa_write, which goes to the last range that   *)
(* starts at or before the address, finds the device that holds an access, *)
(* and only that, for every access that ends before the address space      *)
(* does; one whose end wraps reaches no device but the last before it.     *)
THEOREM LookupExact == Spec => []DecodeExact
<1>1. WellMapped(devices) => DecodeExact
  <2>. SUFFICES ASSUME WellMapped(devices), NEW pa \in Addr, NEW size \in Sizes
                PROVE  LET reached == Decode(devices, pa, size)
                       IN  IF Wraps(pa, size)
                           THEN \A d \in reached, e \in devices :
                                  e.lo <= pa => e.lo <= d.lo /\ d.lo <= pa
                           ELSE reached = {d \in devices : d.lo <= pa /\ pa + size <= d.hi}
    BY DEF DecodeExact
  <2>1. devices \in SUBSET Range /\ Disjoint(devices) /\ pa \in Nat /\ size \in Nat \ {0}
    BY BusAssumption, SizeFacts DEF WellMapped, Addr
  <2>2. CASE Wraps(pa, size)
    BY <2>1, <2>2, DecodeLast
  <2>3. CASE ~Wraps(pa, size)
    BY <2>1, <2>3, DecodeHolds
  <2>. QED BY <2>2, <2>3
<1>. QED BY <1>1, MapInvariant, PTL

-----------------------------------------------------------------------------
(* Numbers and their bytes. *)

LEMMA RadixFacts == Radix \in Nat \ {0}
BY RadixAssumption

LEMMA PowerFacts ==
  /\ \A k \in Nat : Power[k] \in Nat \ {0}
  /\ Power[0] = 1
  /\ \A k \in Nat : Power[k + 1] = Radix * Power[k]
<1>1. IsPowers(Power, Radix)
  BY RadixFacts, PowersExist, Zenon DEF Power
<1>. QED BY <1>1, RadixFacts, PowersFacts, Zenon

LEMMA PowerNat == ASSUME NEW k \in Nat PROVE Power[k] \in Nat /\ Power[k] >= 1
BY PowerFacts

(* Two words have as many values as pairs of words.                        *)
LEMMA PowerOfSum ==
  ASSUME NEW a \in Nat, NEW b \in Nat PROVE Power[a + b] = Power[b] * Power[a]
<1>1. IsPowers(Power, Radix)
  BY RadixFacts, PowersExist, Zenon DEF Power
<1>. QED BY <1>1, RadixFacts, PowersOfSum, Zenon

LEMMA BytesType ==
  ASSUME NEW x \in Int, NEW size \in Nat PROVE Bytes(x, size) \in [0 .. size - 1 -> Byte]
<1>1. ASSUME NEW k \in 0 .. size - 1 PROVE (x \div Power[k]) % Radix \in Byte
  <2>1. x \div Power[k] \in Int
    BY PowerFacts
  <2>. QED BY <2>1, RadixFacts DEF Byte
<1>. QED BY <1>1 DEF Bytes

(* The partial sums behind Number.                                         *)
LEMMA NumberSums ==
  ASSUME NEW size \in Nat, NEW bytes \in [0 .. size - 1 -> Byte]
  PROVE  \E s \in [0..size -> Nat] :
           /\ s[0] = 0 /\ Number(bytes, size) = s[size]
           /\ \A k \in 0 .. size - 1 : s[k + 1] = s[k] + bytes[k] * Power[k]
<1>. DEFINE F(s) == [k \in 0..size |-> IF k = 0 THEN 0 ELSE s[k - 1] + bytes[k - 1] * Power[k - 1]]
            part == [k \in Nat |-> IF k < size THEN bytes[k] * Power[k] ELSE 0]
            sum == CHOOSE s : s = F(s)
<1>1. Number(bytes, size) = sum[size]
  BY Zenon DEF Number
<1>2. part \in [Nat -> Nat]
  <2>1. ASSUME NEW k \in Nat, k < size PROVE bytes[k] * Power[k] \in Nat
    <3>1. bytes[k] \in Nat
      BY <2>1, RadixFacts DEF Byte
    <3>2. Power[k] \in Nat
      BY PowerNat
    <3>3. \A x, y \in Nat : x * y \in Nat
      OBVIOUS
    <3>. QED BY <3>1, <3>2, <3>3, Zenon
  <2>2. \A k \in Nat : (IF k < size THEN bytes[k] * Power[k] ELSE 0) \in Nat
    BY <2>1
  <2>. QED BY <2>2, Zenon
<1>3. \A k \in 0 .. size - 1 : part[k] = bytes[k] * Power[k]
  OBVIOUS
<1>4. \A s : F(s) = [k \in 0..size |-> IF k = 0 THEN 0 ELSE s[k - 1] + part[k - 1]]
  <2>1. \A k \in 0..size : k # 0 => part[k - 1] = bytes[k - 1] * Power[k - 1]
    <3>1. \A k \in 0..size : k # 0 => k - 1 \in 0 .. size - 1
      OBVIOUS
    <3>. HIDE DEF part
    <3>. QED BY <1>3, <3>1
  <2>. HIDE DEF part
  <2>. QED BY <2>1
<1>5. (\E s : s = F(s)) => sum = F(sum)
  <2>. HIDE DEF F
  <2>. QED OBVIOUS
<1>. HIDE DEF part, sum, F
<1>. DEFINE step == [k \in Nat |-> [x \in Nat |-> x + part[k]]]
<1>6. step \in [Nat -> [Nat -> Nat]]
  BY <1>2
<1>7. PICK f \in [Nat -> Nat] : f[0] = 0 /\ \A k \in Nat : f[k + 1] = step[k][f[k]]
  <2>. HIDE DEF step
  <2>1. 0 \in Nat
    OBVIOUS
  <2>2. Iterations(Nat, 0, step) # {}
    BY <1>6, <2>1, Recursion, Zenon
  <2>. QED BY <2>2 DEF Iterations
<1>8. \A k \in Nat : f[k + 1] = f[k] + part[k]
  BY <1>7
<1>. HIDE DEF step
<1>. DEFINE g == [k \in 0..size |-> f[k]]
<1>9. g = F(g)
  <2>1. \A k \in 0..size : g[k] = IF k = 0 THEN 0 ELSE g[k - 1] + part[k - 1]
    <3>. TAKE k \in 0..size
    <3>1. CASE k = 0
      BY <1>7, <3>1
    <3>2. CASE k # 0
      <4>1. k - 1 \in 0 .. size - 1 /\ (k - 1) + 1 = k
        BY <3>2
      <4>2. f[(k - 1) + 1] = f[k - 1] + part[k - 1]
        <5>1. k - 1 \in Nat
          BY <4>1
        <5>. QED BY <1>8, <5>1, Zenon
      <4>3. g[k] = f[k] /\ g[k - 1] = f[k - 1]
        BY <4>1
      <4>. QED BY <3>2, <4>1, <4>2, <4>3
    <3>. QED BY <3>1, <3>2
  <2>. QED BY <1>4, <2>1
<1>10. sum = [k \in 0..size |-> IF k = 0 THEN 0 ELSE sum[k - 1] + part[k - 1]]
  BY <1>4, <1>5, <1>9
<1>11. \A k \in 0..size : sum[k] = IF k = 0 THEN 0 ELSE sum[k - 1] + part[k - 1]
  BY <1>10
<1>12. sum[0] = 0 /\ \A k \in 0 .. size - 1 : sum[k + 1] = sum[k] + part[k]
  BY <1>11
<1>13. \A k \in 0..size : sum[k] \in Nat
  <2>. DEFINE T == {k \in Nat : k <= size => sum[k] \in Nat}
  <2>1. 0 \in T
    BY <1>12
  <2>2. ASSUME NEW k \in Nat, k \in T PROVE k + 1 \in T
    <3>. SUFFICES ASSUME k + 1 <= size PROVE sum[k + 1] \in Nat
      OBVIOUS
    <3>1. sum[k] \in Nat
      BY <2>2
    <3>2. part[k] \in Nat
      BY <1>2
    <3>3. sum[k + 1] = sum[k] + part[k]
      BY <1>12
    <3>4. \A x, y \in Nat : x + y \in Nat
      OBVIOUS
    <3>. QED BY <3>1, <3>2, <3>3, <3>4, Zenon
  <2>. HIDE DEF T
  <2>3. Nat \subseteq T
    BY <2>1, <2>2, Induction
  <2>. QED BY <2>3 DEF T
<1>14. sum \in [0..size -> Nat]
  BY <1>10, <1>13
<1>15. \A k \in 0 .. size - 1 : sum[k + 1] = sum[k] + bytes[k] * Power[k]
  BY <1>3, <1>12, Zenon
<1>. QED BY <1>1, <1>12, <1>14, <1>15, Zenon

(* A number of so many bytes is below the number of their values.          *)
LEMMA NumberWord ==
  ASSUME NEW size \in Nat, NEW bytes \in [0 .. size - 1 -> Byte]
  PROVE  Number(bytes, size) \in Word(size)
<1>1. PICK s \in [0..size -> Nat] :
        /\ s[0] = 0 /\ Number(bytes, size) = s[size]
        /\ \A k \in 0 .. size - 1 : s[k + 1] = s[k] + bytes[k] * Power[k]
  BY NumberSums
<1>. DEFINE T == {k \in Nat : k <= size => s[k] + 1 <= Power[k]}
<1>2. 0 \in T
  <2>1. Power[0] = 1
    BY PowerFacts
  <2>. QED BY <1>1, <2>1
<1>3. ASSUME NEW k \in Nat, k \in T PROVE k + 1 \in T
  <2>. SUFFICES ASSUME k + 1 <= size PROVE s[k + 1] + 1 <= Power[k + 1]
    OBVIOUS
  <2>. DEFINE n == Power[k]
              b == bytes[k]
  <2>1. s[k] \in Nat /\ s[k] + 1 <= n
    BY <1>3
  <2>2. n \in Nat /\ Radix \in Nat
    BY PowerNat, RadixFacts
  <2>3. b \in Nat /\ b + 1 <= Radix
    BY RadixFacts DEF Byte
  <2>4. s[k + 1] = s[k] + b * n
    BY <1>1
  <2>5. Power[k + 1] = Radix * n
    BY PowerFacts
  <2>6. s[k + 1] \in Nat
    OBVIOUS
  <2>. HIDE DEF n, b
  <2>7. (b + 1) * n <= Radix * n
    BY <2>2, <2>3, TimesMonotone
  <2>8. (b + 1) * n = b * n + n /\ b * n \in Nat /\ Radix * n \in Nat
    BY <2>2, <2>3
  <2>. QED BY <2>1, <2>2, <2>4, <2>5, <2>6, <2>7, <2>8
<1>. HIDE DEF T
<1>4. Nat \subseteq T
  BY <1>2, <1>3, Induction
<1>5. s[size] + 1 <= Power[size] /\ s[size] \in Nat
  BY <1>4 DEF T
<1>6. Power[size] \in Nat
  BY PowerNat
<1>. QED BY <1>1, <1>5, <1>6 DEF Word, Cap

(* Writing a number and reading it back cuts it to the width.              *)
LEMMA NumberOfBytes ==
  ASSUME NEW x \in Int, NEW size \in Nat
  PROVE  Number(Bytes(x, size), size) = x % Cap(size)
<1>. DEFINE bytes == Bytes(x, size)
<1>0. bytes \in [0 .. size - 1 -> Byte] /\ \A k \in 0 .. size - 1 : bytes[k] = (x \div Power[k]) % Radix
  BY BytesType DEF Bytes
<1>. HIDE DEF bytes
<1>1. PICK s \in [0..size -> Nat] :
        /\ s[0] = 0 /\ Number(bytes, size) = s[size]
        /\ \A k \in 0 .. size - 1 : s[k + 1] = s[k] + bytes[k] * Power[k]
  BY <1>0, NumberSums
<1>. DEFINE T == {k \in Nat : k <= size => s[k] = x % Power[k]}
<1>2. 0 \in T
  <2>1. x % 1 = 0
    OBVIOUS
  <2>. QED BY <1>1, <2>1, PowerFacts
<1>3. ASSUME NEW k \in Nat, k \in T PROVE k + 1 \in T
  <2>. SUFFICES ASSUME k + 1 <= size PROVE s[k + 1] = x % Power[k + 1]
    OBVIOUS
  <2>. DEFINE n == Power[k]
              q == x \div n
              r == x % n
              p == q \div Radix
              d == q % Radix
  <2>1. n \in Nat \ {0} /\ Power[k + 1] = Radix * n
    BY PowerFacts
  <2>2. s[k] = r /\ s[k + 1] = s[k] + d * n
    BY <1>0, <1>1, <1>3
  <2>. HIDE DEF n
  <2>3. q \in Int /\ r \in 0 .. n - 1 /\ x = q * n + r
    BY <2>1
  <2>. HIDE DEF q, r
  <2>4. p \in Int /\ d \in 0 .. Radix - 1 /\ q = p * Radix + d
    BY <2>3, RadixFacts
  <2>. HIDE DEF p, d
  <2>. DEFINE N == Radix * n
              t == d * n + r
  <2>5. N \in Nat \ {0}
    BY <2>1, RadixFacts, ProductNat
  <2>6. d * n \in Nat /\ (d + 1) * n <= N /\ (d + 1) * n = d * n + n
    <3>1. d \in Nat /\ n \in Nat /\ d + 1 <= Radix /\ Radix \in Nat
      BY <2>1, <2>4, RadixFacts
    <3>2. (d + 1) * n <= Radix * n
      BY <3>1, TimesMonotone
    <3>. QED BY <3>1, <3>2
  <2>7. t \in 0 .. N - 1
    <3>. HIDE DEF N
    <3>. QED BY <2>1, <2>3, <2>5, <2>6
  <2>8. x = p * N + t
    <3>1. q * n = (p * Radix) * n + d * n
      BY <2>1, <2>4, RadixFacts
    <3>2. (p * Radix) * n = p * (Radix * n)
      BY <2>1, <2>4, RadixFacts
    <3>3. p * (Radix * n) \in Int
      BY <2>4, <2>5
    <3>. QED BY <2>3, <2>6, <3>1, <3>2, <3>3
  <2>. HIDE DEF t, N
  <2>9. x % N = t
    BY <2>4, <2>5, <2>7, <2>8, DivisionUnique
  <2>. QED BY <2>1, <2>2, <2>3, <2>6, <2>9 DEF N, t
<1>. HIDE DEF T
<1>4. Nat \subseteq T
  BY <1>2, <1>3, Induction
<1>5. s[size] = x % Power[size]
  BY <1>4 DEF T
<1>. QED BY <1>1, <1>5 DEF Cap, bytes

LEMMA CapFacts ==
  /\ \A size \in Nat : Cap(size) \in Nat \ {0}
  /\ \A size \in Sizes : \E m \in Nat \ {0} : RegCap = m * Cap(size)
<1>1. \A size \in Nat : Cap(size) \in Nat \ {0}
  BY PowerFacts DEF Cap
<1>2. ASSUME NEW size \in Sizes, size = WordBytes PROVE \E m \in Nat \ {0} : RegCap = m * Cap(size)
  <2>1. WordBytes \in Nat /\ 2 * WordBytes = WordBytes + WordBytes
    BY BusAssumption
  <2>2. RegCap = Power[WordBytes] * Power[WordBytes]
    BY <2>1, PowerOfSum DEF RegCap, Cap
  <2>3. Power[WordBytes] \in Nat \ {0}
    BY <2>1, PowerFacts
  <2>. QED BY <1>1, <1>2, <2>2, <2>3 DEF Cap
<1>3. ASSUME NEW size \in Sizes, size = 2 * WordBytes
      PROVE  \E m \in Nat \ {0} : RegCap = m * Cap(size)
  <2>1. 2 * WordBytes \in Nat
    BY BusAssumption
  <2>2. RegCap = 1 * Cap(size)
    BY <1>1, <1>3, <2>1 DEF RegCap
  <2>. QED BY <1>1, <2>2
<1>. QED BY <1>1, <1>2, <1>3 DEF Sizes

LEMMA RegisterFacts ==
  ASSUME NEW size \in Sizes
  PROVE  /\ size \in Nat \ {0} /\ Cap(size) \in Nat \ {0} /\ RegCap \in Nat \ {0}
         /\ Cap(size) <= RegCap /\ Word(size) \subseteq Register
<1>. DEFINE cap == Cap(size)
<1>1. size \in Nat \ {0} /\ 2 * WordBytes \in Nat
  BY SizeFacts, BusAssumption
<1>2. cap \in Nat \ {0} /\ RegCap \in Nat \ {0}
  BY <1>1, CapFacts DEF RegCap
<1>3. PICK m \in Nat \ {0} : RegCap = m * cap
  BY CapFacts
<1>. HIDE DEF cap
<1>4. cap <= cap * m /\ cap * m = m * cap
  BY <1>2, ProductNat
<1>5. cap <= RegCap
  BY <1>2, <1>3, <1>4
<1>. QED BY <1>1, <1>2, <1>5 DEF cap, Word, Register

-----------------------------------------------------------------------------
(* Atomics: the operation on sign-extended registers, cut to the size, is  *)
(* the operation on words of the size.                                     *)

LEMMA SignExtendFacts ==
  ASSUME NEW size \in Sizes, NEW x \in Word(size)
  PROVE  LET s == SignExtend(x, size)
             cap == Cap(size)
         IN  /\ s \in 0 .. RegCap - 1 /\ s % cap = x
             /\ Signed(s, RegCap) = Signed(x, cap)
             /\ s = IF 2 * x >= cap THEN x - cap + RegCap ELSE x
<1>. DEFINE cap == Cap(size)
            z == Signed(x, cap)
<1>1. size \in Nat
  BY SizeFacts
<1>2. cap \in Nat \ {0} /\ x \in 0 .. cap - 1
  BY <1>1, CapFacts DEF Word
<1>3. PICK m \in Nat \ {0} : RegCap = m * cap
  BY CapFacts
<1>. HIDE DEF cap
<1>4. RegCap \in Nat \ {0} /\ cap <= RegCap
  <2>1. m * cap \in Nat \ {0} /\ cap * m \in Nat \ {0} /\ cap <= cap * m /\ cap * m = m * cap
    BY <1>2, ProductNat
  <2>. QED BY <1>3, <2>1
<1>5. z = IF 2 * x >= cap THEN x - cap ELSE x
  BY DEF Signed
<1>6. z \in Int /\ -cap <= z /\ z < cap /\ z % RegCap = IF 2 * x >= cap THEN x - cap + RegCap ELSE x
  <2>1. CASE 2 * x >= cap
    <3>1. z = x - cap /\ z < 0 /\ -RegCap <= z /\ z \in Int
      BY <1>2, <1>4, <1>5, <2>1
    <3>. HIDE DEF z
    <3>2. z % RegCap = z + RegCap
      BY <1>4, <3>1, RemainderNegative
    <3>. QED BY <1>2, <1>4, <2>1, <3>1, <3>2
  <2>2. CASE ~(2 * x >= cap)
    <3>1. z = x /\ x \in 0 .. RegCap - 1
      BY <1>2, <1>4, <1>5, <2>2
    <3>2. x % RegCap = x
      BY <1>4, <3>1, RemainderSmall
    <3>. QED BY <1>2, <2>2, <3>1, <3>2
  <2>. QED BY <2>1, <2>2
<1>7. z % cap = x
  <2>1. CASE 2 * x >= cap
    <3>1. z = x - cap /\ z < 0 /\ -cap <= z /\ z \in Int
      BY <1>2, <1>5, <2>1
    <3>. HIDE DEF z
    <3>2. z % cap = z + cap
      BY <1>2, <3>1, RemainderNegative
    <3>. QED BY <1>2, <3>1, <3>2
  <2>2. CASE ~(2 * x >= cap)
    <3>1. z = x
      BY <1>5, <2>2
    <3>2. x % cap = x
      BY <1>2, RemainderSmall
    <3>. QED BY <3>1, <3>2
  <2>. QED BY <2>1, <2>2
<1>. DEFINE s == z % RegCap
<1>8. SignExtend(x, size) = s
  BY DEF SignExtend, cap
<1>. HIDE DEF z
<1>9. s % cap = x
  <2>1. (z % (m * cap)) % cap = z % cap
    BY <1>2, <1>3, <1>6, RemainderTwice
  <2>. QED BY <1>3, <1>7, <2>1
<1>10. s = IF 2 * x >= cap THEN x - cap + RegCap ELSE x
  BY <1>6
<1>. HIDE DEF s
<1>11. s \in 0 .. RegCap - 1
  BY <1>2, <1>4, <1>10
<1>12. Signed(s, RegCap) = z
  <2>1. Signed(s, RegCap) = IF 2 * s >= RegCap THEN s - RegCap ELSE s
    BY DEF Signed
  <2>. QED BY <1>2, <1>4, <1>5, <1>10, <2>1
<1>. QED BY <1>8, <1>9, <1>10, <1>11, <1>12 DEF cap, z

LEMMA AmoAgrees ==
  ASSUME NEW op \in AmoFunct, NEW size \in Sizes, NEW src \in Register, NEW old \in Word(size),
         op \in Comparing => src = SignExtend(src % Cap(size), size)
  PROVE  LET result == AmoResult(op, src, SignExtend(old, size))
         IN  result \in Int /\ result % Cap(size) = AmoMeaning(op, src, old, size)
<1>. DEFINE cap == Cap(size)
            res == SignExtend(old, size)
            a == src % cap
            x == a
            result == AmoResult(op, src, res)
<1>. SUFFICES result \in Int /\ result % cap = AmoMeaning(op, src, old, size)
  OBVIOUS
<1>4. 2 * WordBytes \in Nat
  BY BusAssumption
<1>5. /\ cap \in Nat \ {0} /\ x \in 0 .. cap - 1 /\ old \in 0 .. cap - 1
      /\ x \in Word(size) /\ src \in 0 .. RegCap - 1
  <2>1. cap \in Nat \ {0} /\ src \in 0 .. RegCap - 1 /\ RegCap \in Nat
    BY RegisterFacts DEF Register
  <2>2. Word(size) = 0 .. cap - 1
    BY DEF Word
  <2>. HIDE DEF cap
  <2>3. src % cap \in 0 .. cap - 1
    BY <2>1
  <2>. QED BY <2>1, <2>2, <2>3
<1>6. RegCap \in Nat \ {0}
  BY RegisterFacts
<1>7. PICK m \in Nat \ {0} : RegCap = m * cap
  BY CapFacts
<1>8. cap <= RegCap
  BY RegisterFacts
<1>2. op \in Comparing =>
        /\ src = SignExtend(x, size) /\ Signed(src, RegCap) = Signed(x, cap)
        /\ src = IF 2 * x >= cap THEN x - cap + RegCap ELSE x
  <2>. SUFFICES ASSUME op \in Comparing
                PROVE  /\ src = SignExtend(x, size) /\ Signed(src, RegCap) = Signed(x, cap)
                       /\ src = IF 2 * x >= cap THEN x - cap + RegCap ELSE x
    OBVIOUS
  <2>1. src = SignExtend(x, size) /\ x \in Word(size)
    BY <1>5
  <2>. HIDE DEF x
  <2>. QED BY <2>1, SignExtendFacts
<1>3. /\ res \in 0 .. RegCap - 1 /\ res % cap = old /\ Signed(res, RegCap) = Signed(old, cap)
      /\ res = IF 2 * old >= cap THEN old - cap + RegCap ELSE old
  BY SignExtendFacts
<1>9. \A y \in Int : (y % RegCap) % cap = y % cap
  <2>. HIDE DEF cap
  <2>. QED BY <1>5, <1>7, RemainderTwice
<1>. HIDE DEF res, a, cap
<1>10. CASE op = "swap"
  BY <1>5, <1>10 DEF AmoResult, AmoMeaning, a, cap
<1>11. CASE op = "add"
  <2>1. result = (src + res) % RegCap /\ AmoMeaning(op, src, old, size) = (a + old) % cap
    BY <1>11 DEF AmoResult, AmoMeaning, a, cap
  <2>0. src \in Int /\ res \in Int /\ a \in Int
    BY <1>3, <1>5, <1>6
  <2>2. (src + res) % cap = ((src % cap) + res) % cap
    BY <1>5, <2>0, RemainderOfSum
  <2>3. (res + a) % cap = ((res % cap) + a) % cap
    BY <1>5, <2>0, RemainderOfSum
  <2>4. a + res = res + a /\ old + a = a + old /\ a + res \in Int
    BY <1>3, <1>5 DEF a
  <2>5. src + res \in Int
    BY <1>3, <1>5
  <2>6. ((src + res) % RegCap) % cap = (src + res) % cap /\ (src + res) % RegCap \in Int
    BY <1>6, <1>9, <2>5
  <2>. QED BY <1>3, <2>1, <2>2, <2>3, <2>4, <2>6 DEF a
<1>12. CASE op \in {"and", "or", "xor"}
  <2>1. src \in Register /\ res \in Register
    BY <1>3 DEF Register
  <2>2. /\ BitAnd(src, res) \in Nat /\ BitAnd(src, res) % cap = BitAnd(a, old)
        /\ BitOr(src, res) \in Nat /\ BitOr(src, res) % cap = BitOr(a, old)
        /\ BitXor(src, res) \in Nat /\ BitXor(src, res) % cap = BitXor(a, old)
    BY <1>3, <2>1, BitwiseAssumption DEF a, cap
  <2>3. CASE op = "and"
    <3>1. result = BitAnd(src, res) /\ AmoMeaning(op, src, old, size) = BitAnd(a, old)
      BY <2>3 DEF AmoResult, AmoMeaning, a, cap
    <3>. QED BY <2>2, <3>1
  <2>4. CASE op = "or"
    <3>1. result = BitOr(src, res) /\ AmoMeaning(op, src, old, size) = BitOr(a, old)
      BY <2>4 DEF AmoResult, AmoMeaning, a, cap
    <3>. QED BY <2>2, <3>1
  <2>5. CASE op = "xor"
    <3>1. result = BitXor(src, res) /\ AmoMeaning(op, src, old, size) = BitXor(a, old)
      BY <2>5 DEF AmoResult, AmoMeaning, a, cap
    <3>. QED BY <2>2, <3>1
  <2>. QED BY <1>12, <2>3, <2>4, <2>5
<1>. DEFINE za == Signed(x, cap)
            zo == Signed(old, cap)
<1>13. /\ za = (IF 2 * x >= cap THEN x - cap ELSE x)
       /\ zo = (IF 2 * old >= cap THEN old - cap ELSE old)
  BY DEF Signed
<1>14. za \in Int /\ zo \in Int /\ (za = zo => x = old)
  BY <1>5, <1>13
<1>15. op \in Comparing =>
         /\ (za % RegCap) % cap = x /\ (zo % RegCap) % cap = old
         /\ za % RegCap \in Int /\ zo % RegCap \in Int
  <2>1. op \in Comparing => za % RegCap = src /\ zo % RegCap = res
    BY <1>2 DEF SignExtend, res, cap
  <2>. QED BY <1>3, <1>5, <2>1 DEF a
<1>. HIDE DEF za, zo
<1>16. CASE op \in {"max", "min"}
  <2>1. CASE op = "max"
    <3>1. /\ result = (IF za < zo THEN zo ELSE za) % RegCap
          /\ AmoMeaning(op, src, old, size) = IF za > zo THEN x ELSE old
      BY <1>2, <1>3, <2>1 DEF AmoResult, AmoMeaning, Larger, Comparing, a, cap, za, zo
    <3>. QED BY <1>14, <1>15, <2>1, <3>1 DEF Comparing
  <2>2. CASE op = "min"
    <3>1. /\ result = (IF zo < za THEN zo ELSE za) % RegCap
          /\ AmoMeaning(op, src, old, size) = IF za < zo THEN x ELSE old
      BY <1>2, <1>3, <2>2 DEF AmoResult, AmoMeaning, Smaller, Comparing, a, cap, za, zo
    <3>. QED BY <1>14, <1>15, <2>2, <3>1 DEF Comparing
  <2>. QED BY <1>16, <2>1, <2>2
<1>17. CASE op \in {"maxu", "minu"}
  <2>0. (src < res <=> x < old) /\ (src = res <=> x = old)
    BY <1>2, <1>3, <1>5, <1>6, <1>8, <1>17 DEF Comparing
  <2>1. CASE op = "maxu"
    <3>1. /\ result = IF src < res THEN res ELSE src
          /\ AmoMeaning(op, src, old, size) = IF x > old THEN x ELSE old
      BY <1>2, <2>1 DEF AmoResult, AmoMeaning, Larger, a, cap
    <3>. QED BY <1>2, <1>3, <1>5, <2>0, <3>1 DEF a
  <2>2. CASE op = "minu"
    <3>1. /\ result = IF res < src THEN res ELSE src
          /\ AmoMeaning(op, src, old, size) = IF x < old THEN x ELSE old
      BY <1>2, <2>2 DEF AmoResult, AmoMeaning, Smaller, a, cap
    <3>. QED BY <1>2, <1>3, <1>5, <2>0, <3>1 DEF a
  <2>. QED BY <1>17, <2>1, <2>2
<1>. QED BY <1>10, <1>11, <1>12, <1>16, <1>17 DEF AmoFunct, Comparing

-----------------------------------------------------------------------------
(* Reads and writes through the map. *)

Los == {d.lo : d \in Requests}
HitIn(D, pa, size) == \E d \in Decode(D, pa, size) : Backed(DevOffset(d, pa), size)
DeviceIn(D, pa, size) == CHOOSE d \in Decode(D, pa, size) : TRUE
Value(D, M, pa, size) ==
  LET d == DeviceIn(D, pa, size) IN Number(DoRead(M[d.lo], DevOffset(d, pa), size), size)
TouchesIn(D, pa, size, qa, n) ==
  /\ HitIn(D, pa, size) /\ HitIn(D, qa, n)
  /\ LET d == DeviceIn(D, pa, size)
         e == DeviceIn(D, qa, n)
     IN  /\ d = e
         /\ DevOffset(d, pa) < DevOffset(e, qa) + n
         /\ DevOffset(e, qa) < DevOffset(d, pa) + size

(* A hit is in one device, and in its memory.                              *)
LEMMA HitFacts ==
  ASSUME NEW D, WellMapped(D), NEW pa \in Nat, NEW size \in Sizes, HitIn(D, pa, size)
  PROVE  LET d == DeviceIn(D, pa, size)
         IN  /\ d \in D /\ d \in Range /\ d.lo \in Los
             /\ DevOffset(d, pa) \in Nat /\ Backed(DevOffset(d, pa), size)
             /\ \A e \in Decode(D, pa, size) : e = d
<1>1. D \in SUBSET Range
  BY BusAssumption DEF WellMapped
<1>2. PICK d \in Decode(D, pa, size) : Backed(DevOffset(d, pa), size)
  BY DEF HitIn
<1>3. \A e \in Decode(D, pa, size) : e = d
  BY <1>1, DecodeLast
<1>4. DeviceIn(D, pa, size) = d
  BY <1>3 DEF DeviceIn
<1>5. d \in D /\ d \in Range /\ d.lo \in Los
  BY <1>1, DecodeLast DEF WellMapped, Los
<1>6. d.hi - d.lo \in Nat \ {0}
  BY <1>5, RangeFacts
<1>7. DevOffset(d, pa) \in Nat
  BY <1>6 DEF DevOffset
<1>. QED BY <1>2, <1>3, <1>4, <1>5, <1>7

LEMMA ReadType ==
  ASSUME NEW m \in Memory, NEW start \in Nat, NEW size \in Nat, Backed(start, size)
  PROVE  DoRead(m, start, size) \in [0 .. size - 1 -> Byte]
<1>1. \A k \in 0 .. size - 1 : start + k \in Offset
  BY MemSizeAssumption DEF Backed, Offset
<1>. QED BY <1>1 DEF DoRead, Memory

LEMMA WriteType ==
  ASSUME NEW m \in Memory, NEW start \in Nat, NEW size \in Nat,
         NEW buffer \in [0 .. size - 1 -> Byte]
  PROVE  DoWrite(m, start, size, buffer) \in Memory
BY DEF DoWrite, Memory

LEMMA ReadBack ==
  ASSUME NEW m \in Memory, NEW start \in Nat, NEW size \in Nat, Backed(start, size),
         NEW buffer \in [0 .. size - 1 -> Byte]
  PROVE  DoRead(DoWrite(m, start, size, buffer), start, size) = buffer
<1>1. \A k \in 0 .. size - 1 : start + k \in Offset /\ (start + k) - start = k
  BY MemSizeAssumption DEF Backed, Offset
<1>2. \A k \in 0 .. size - 1 : DoWrite(m, start, size, buffer)[start + k] = buffer[k]
  BY <1>1 DEF DoWrite
<1>. QED BY <1>2 DEF DoRead

LEMMA ReadElsewhere ==
  ASSUME NEW m \in Memory, NEW start \in Nat, NEW size \in Nat, NEW buffer,
         NEW at \in Nat, NEW n \in Nat, Backed(at, n),
         at + n <= start \/ start + size <= at
  PROVE  DoRead(DoWrite(m, start, size, buffer), at, n) = DoRead(m, at, n)
<1>1. \A k \in 0 .. n - 1 : at + k \in Offset /\ (at + k) - start \notin 0 .. size - 1
  BY MemSizeAssumption DEF Backed, Offset
<1>2. \A k \in 0 .. n - 1 : DoWrite(m, start, size, buffer)[at + k] = m[at + k]
  BY <1>1 DEF DoWrite
<1>. QED BY <1>2 DEF DoRead

LEMMA ValueWord ==
  ASSUME NEW D, WellMapped(D), NEW M \in [Los -> Memory], NEW pa \in Nat, NEW size \in Sizes,
         HitIn(D, pa, size)
  PROVE  Value(D, M, pa, size) \in Word(size)
<1>. DEFINE d == DeviceIn(D, pa, size)
            at == DevOffset(d, pa)
<1>1. d.lo \in Los /\ at \in Nat /\ Backed(at, size)
  BY HitFacts
<1>2. size \in Nat
  BY SizeFacts
<1>. HIDE DEF d, at
<1>3. DoRead(M[d.lo], at, size) \in [0 .. size - 1 -> Byte]
  BY <1>1, <1>2, ReadType
<1>. QED BY <1>2, <1>3, NumberWord DEF Value, d, at

(* What a write through the map does to the memories.                      *)
WrittenIn(D, M, pa, size, x) ==
  IF ~HitIn(D, pa, size) THEN M
  ELSE LET d == DeviceIn(D, pa, size)
       IN  [M EXCEPT ![d.lo] = DoWrite(@, DevOffset(d, pa), size, Bytes(x, size))]

LEMMA WrittenType ==
  ASSUME NEW D, WellMapped(D), NEW M \in [Los -> Memory], NEW pa \in Nat, NEW size \in Sizes,
         NEW x \in Int
  PROVE  WrittenIn(D, M, pa, size, x) \in [Los -> Memory]
<1>1. CASE ~HitIn(D, pa, size)
  BY <1>1 DEF WrittenIn
<1>2. CASE HitIn(D, pa, size)
  <2>. DEFINE d == DeviceIn(D, pa, size)
  <2>1. d.lo \in Los /\ DevOffset(d, pa) \in Nat
    BY <1>2, HitFacts
  <2>2. size \in Nat
    BY SizeFacts
  <2>. HIDE DEF d
  <2>3. DoWrite(M[d.lo], DevOffset(d, pa), size, Bytes(x, size)) \in Memory
    BY <2>1, <2>2, WriteType, BytesType
  <2>. QED BY <1>2, <2>1, <2>3 DEF WrittenIn, d
<1>. QED BY <1>1, <1>2

(* A write is read back, cut to its size, and seen only where it touches.  *)
LEMMA ValueWritten ==
  ASSUME NEW D, WellMapped(D), NEW M \in [Los -> Memory], NEW pa \in Nat, NEW size \in Sizes,
         NEW x \in Int, HitIn(D, pa, size)
  PROVE  Value(D, WrittenIn(D, M, pa, size, x), pa, size) = x % Cap(size)
<1>. DEFINE d == DeviceIn(D, pa, size)
            at == DevOffset(d, pa)
            M1 == WrittenIn(D, M, pa, size, x)
<1>1. d.lo \in Los /\ at \in Nat /\ Backed(at, size)
  BY HitFacts
<1>2. size \in Nat
  BY SizeFacts
<1>3. Bytes(x, size) \in [0 .. size - 1 -> Byte]
  BY <1>2, BytesType
<1>4. M1[d.lo] = DoWrite(M[d.lo], at, size, Bytes(x, size))
  BY <1>1 DEF WrittenIn
<1>5. Value(D, M1, pa, size) = Number(DoRead(M1[d.lo], at, size), size)
  BY DEF Value
<1>. HIDE DEF d, at, M1
<1>6. M[d.lo] \in Memory
  BY <1>1
<1>7. DoRead(M1[d.lo], at, size) = Bytes(x, size)
  BY <1>1, <1>2, <1>3, <1>4, <1>6, ReadBack
<1>. QED BY <1>2, <1>5, <1>7, NumberOfBytes DEF M1

LEMMA ValueElsewhere ==
  ASSUME NEW D, WellMapped(D), NEW M \in [Los -> Memory], NEW pa \in Nat, NEW size \in Sizes,
         NEW x \in Int, NEW qa \in Nat, NEW n \in Sizes, HitIn(D, qa, n),
         ~TouchesIn(D, pa, size, qa, n)
  PROVE  Value(D, WrittenIn(D, M, pa, size, x), qa, n) = Value(D, M, qa, n)
<1>1. CASE ~HitIn(D, pa, size)
  BY <1>1 DEF WrittenIn
<1>2. CASE HitIn(D, pa, size)
  <2>. DEFINE d == DeviceIn(D, pa, size)
              e == DeviceIn(D, qa, n)
              at == DevOffset(d, pa)
              by == DevOffset(e, qa)
              M1 == WrittenIn(D, M, pa, size, x)
  <2>1. d \in D /\ d \in Range /\ d.lo \in Los /\ at \in Nat
    BY <1>2, HitFacts
  <2>2. e \in D /\ e \in Range /\ e.lo \in Los /\ by \in Nat /\ Backed(by, n)
    BY HitFacts
  <2>3. size \in Nat /\ n \in Nat
    BY SizeFacts
  <2>4. M1 = [M EXCEPT ![d.lo] = DoWrite(@, at, size, Bytes(x, size))]
    BY <1>2 DEF WrittenIn
  <2>5. d = e => by + n <= at \/ at + size <= by
    BY <1>2, <2>1, <2>2, <2>3 DEF TouchesIn
  <2>6. d.lo = e.lo => d = e
    <3>. SUFFICES ASSUME d.lo = e.lo, d # e PROVE FALSE
      OBVIOUS
    <3>1. ~Overlap(d, e)
      BY <2>1, <2>2 DEF WellMapped, Disjoint
    <3>. QED BY <2>1, <2>2, <3>1, RangeFacts DEF Overlap
  <2>7. /\ Value(D, M1, qa, n) = Number(DoRead(M1[e.lo], by, n), n)
        /\ Value(D, M, qa, n) = Number(DoRead(M[e.lo], by, n), n)
    BY DEF Value
  <2>. HIDE DEF d, e, at, by, M1
  <2>8. DoRead(M1[e.lo], by, n) = DoRead(M[e.lo], by, n)
    <3>1. CASE d.lo = e.lo
      <4>1. M1[e.lo] = DoWrite(M[e.lo], at, size, Bytes(x, size)) /\ M[e.lo] \in Memory
        BY <2>1, <2>2, <2>4, <3>1
      <4>2. by + n <= at \/ at + size <= by
        BY <2>5, <2>6, <3>1
      <4>. QED BY <2>1, <2>2, <2>3, <4>1, <4>2, ReadElsewhere
    <3>2. CASE d.lo # e.lo
      BY <2>2, <2>4, <3>2
    <3>. QED BY <3>1, <3>2
  <2>. QED BY <2>7, <2>8 DEF M1
<1>. QED BY <1>1, <1>2

-----------------------------------------------------------------------------
(* The operations of the bus, in these terms. *)

LEMMA BusTerms ==
  /\ \A pa, size : Hit(pa, size) <=> HitIn(devices, pa, size)
  /\ \A pa, size : PaRead(pa, size) = Value(devices, mem, pa, size)
  /\ \A pa, size, x : Written(pa, size, x) = WrittenIn(devices, mem, pa, size, x)
  /\ \A pa, size, qa, n : Touches(pa, size, qa, n) <=> TouchesIn(devices, pa, size, qa, n)
<1>1. \A pa, size : Hit(pa, size) <=> HitIn(devices, pa, size)
  BY DEF Hit, HitIn
<1>2. \A pa, size : Device(pa, size) = DeviceIn(devices, pa, size)
  BY Zenon DEF Device, DeviceIn
<1>3. \A pa, size, qa, n : Touches(pa, size, qa, n) <=> TouchesIn(devices, pa, size, qa, n)
  BY <1>1, <1>2 DEF Touches, TouchesIn
<1>. QED BY <1>1, <1>2, <1>3 DEF PaRead, ReadFrom, Value, Written, WrittenIn

LEMMA ReadFromTerms ==
  \A memory, pa, size : ReadFrom(memory, pa, size) = Value(devices, memory, pa, size)
BY Zenon DEF ReadFrom, Device, Value, DeviceIn

LEMMA AccessFacts ==
  ASSUME NEW a \in Accesses
  PROVE  a.pa \in Nat /\ a.pa \in Addr /\ a.size \in Sizes
BY BusAssumption DEF Addr

LEMMA OperandFacts ==
  ASSUME NEW x \in Operands PROVE x \in Register /\ x \in Int
BY BusAssumption DEF Register

(* A write from the reserved address ends the reservation.                 *)
LEMMA DropsSameStart ==
  ASSUME NEW pa \in Nat, NEW size \in Sizes, lr.pa = pa PROVE DropsReservation(pa, size)
<1>1. pa + size \in Nat /\ AddrLimit \in Nat \ {0}
  BY SizeFacts, AddrLimitAssumption
<1>2. (pa + size) % AddrLimit \in Nat
  BY <1>1
<1>. QED BY <1>2 DEF DropsReservation

LEMMA AmoResultInt ==
  ASSUME NEW op \in AmoFunct, NEW src \in Register, NEW res \in Register
  PROVE  AmoResult(op, src, res) \in Int
<1>1. RegCap \in Nat \ {0}
  <2>1. WordBytes \in Sizes
    BY DEF Sizes
  <2>. QED BY <2>1, RegisterFacts
<1>2. src \in Int /\ res \in Int
  BY <1>1 DEF Register
<1>3. BitAnd(src, res) \in Int /\ BitOr(src, res) \in Int /\ BitXor(src, res) \in Int
  <2>1. WordBytes \in Sizes
    BY DEF Sizes
  <2>. QED BY <2>1, BitwiseAssumption
<1>4. Signed(src, RegCap) \in Int /\ Signed(res, RegCap) \in Int
  BY <1>1, <1>2 DEF Signed
<1>5. \A y, z \in Int : Larger(y, z) \in Int /\ Smaller(y, z) \in Int
  BY DEF Larger, Smaller
<1>6. \A y \in Int : y % RegCap \in Int
  BY <1>1
<1>7. src + res \in Int
  BY <1>2
<1>. HIDE DEF RegCap, Register
<1>. QED BY <1>2, <1>3, <1>4, <1>5, <1>6, <1>7, Zenon DEF AmoResult, AmoFunct, Comparing

(* What an atomic computes; the comparing ones pick one of the two          *)
(* registers.                                                               *)
LEMMA AmoStored ==
  ASSUME TypeOK, WellMapped(devices), NEW a \in Accesses, NEW op \in AmoFunct,
         NEW src \in Operands, Hit(a.pa, a.size)
  PROVE  LET old == PaRead(a.pa, a.size)
         IN  /\ old \in Word(a.size) /\ SignExtend(old, a.size) \in Register
             /\ AmoStores(op, a.pa, a.size, src) = AmoResult(op, src, SignExtend(old, a.size))
             /\ AmoStores(op, a.pa, a.size, src) \in Int
<1>1. mem \in [Los -> Memory]
  BY DEF TypeOK, Los
<1>2. PaRead(a.pa, a.size) \in Word(a.size)
  BY <1>1, BusTerms, ValueWord, AccessFacts
<1>3. SignExtend(PaRead(a.pa, a.size), a.size) \in Register
  BY <1>2, AccessFacts, SignExtendFacts DEF Register
<1>4. AmoResult(op, src, SignExtend(PaRead(a.pa, a.size), a.size)) \in Int
  BY <1>3, AmoResultInt, OperandFacts
<1>. QED BY <1>2, <1>3, <1>4 DEF AmoStores

LEMMA SignedBack ==
  ASSUME NEW s \in Register PROVE Signed(s, RegCap) % RegCap = s
<1>1. RegCap \in Nat \ {0} /\ s \in 0 .. RegCap - 1
  <2>1. WordBytes \in Sizes
    BY DEF Sizes
  <2>. QED BY <2>1, RegisterFacts DEF Register
<1>2. Signed(s, RegCap) = IF 2 * s >= RegCap THEN s - RegCap ELSE s
  BY DEF Signed
<1>3. CASE 2 * s >= RegCap
  <2>1. s - RegCap \in Int /\ -RegCap <= s - RegCap /\ s - RegCap < 0
    BY <1>1
  <2>2. (s - RegCap) % RegCap = (s - RegCap) + RegCap
    BY <1>1, <2>1, RemainderNegative
  <2>. QED BY <1>1, <1>2, <1>3, <2>2
<1>4. CASE ~(2 * s >= RegCap)
  BY <1>1, <1>2, <1>4, RemainderSmall
<1>. QED BY <1>3, <1>4

LEMMA ComparisonPicks ==
  ASSUME NEW op \in Comparing, NEW src \in Register, NEW res \in Register
  PROVE  AmoResult(op, src, res) \in {src, res}
<1>1. Signed(src, RegCap) % RegCap = src /\ Signed(res, RegCap) % RegCap = res
  BY SignedBack
<1>2. \A y, z : Larger(y, z) \in {y, z} /\ Smaller(y, z) \in {y, z}
  BY DEF Larger, Smaller
<1>3. /\ op = "max" => AmoResult(op, src, res)
                         = Larger(Signed(src, RegCap), Signed(res, RegCap)) % RegCap
      /\ op = "min" => AmoResult(op, src, res)
                         = Smaller(Signed(src, RegCap), Signed(res, RegCap)) % RegCap
      /\ op = "maxu" => AmoResult(op, src, res) = Larger(src, res)
      /\ op = "minu" => AmoResult(op, src, res) = Smaller(src, res)
  BY DEF AmoResult
<1>. QED BY <1>1, <1>2, <1>3 DEF Comparing

(* What an atomic hands to pa_write.                                       *)
LEMMA AmoWrites ==
  ASSUME TypeOK, WellMapped(devices), NEW a \in Accesses, NEW op \in AmoFunct,
         NEW src \in Operands, Amo(op, a.pa, a.size, src)
  PROVE  LET x == AmoStores(op, a.pa, a.size, src)
         IN  /\ Hit(a.pa, a.size) /\ x \in Int
             /\ PaWrite(a.pa, a.size, x)
             /\ devices' = devices /\ last' = Overlaid(a.pa, a.size)
BY AmoStored DEF Amo

-----------------------------------------------------------------------------
(* Types. *)

Reservation == [valid: BOOLEAN, pa: Addr, size: Sizes, hart: Hart]
Load == [hart: Hart, pa: Addr, size: Sizes, read: BOOLEAN, value: Register, overlaid: BOOLEAN]

LEMMA HistoryTypes ==
  ASSUME TypeOK
  PROVE  /\ Unreserved \in Reservation /\ Unreserved.valid = FALSE
         /\ \A pa, size : Overlaid(pa, size) \in Load
<1>1. lr \in Reservation /\ last \in Load
  BY DEF TypeOK, Reservation, Load
<1>2. ASSUME NEW pa, NEW size PROVE Overlaid(pa, size) \in Load
  <2>. DEFINE o == last.overlaid \/ (pa # last.pa /\ Touches(pa, size, last.pa, last.size))
  <2>1. Overlaid(pa, size) = [last EXCEPT !.overlaid = o] /\ o \in BOOLEAN
    BY <1>1 DEF Overlaid, Load
  <2>. HIDE DEF o
  <2>. QED BY <1>1, <2>1 DEF Load
<1>. QED BY <1>1, <1>2 DEF Unreserved, Reservation

LEMMA WrittenTyped ==
  ASSUME TypeOK, WellMapped(devices), NEW pa \in Nat, NEW size \in Sizes, NEW x \in Int
  PROVE  Written(pa, size, x) \in [Los -> Memory]
BY BusTerms, WrittenType DEF TypeOK, Los

LEMMA TypesStep ==
  ASSUME TypeOK, WellMapped(devices), [Next]_vars
  PROVE  TypeOK'
<1>0. /\ devices \subseteq Requests /\ mem \in [Los -> Memory]
      /\ lr \in Reservation /\ last \in Load
      /\ Unreserved \in Reservation /\ \A pa, size : Overlaid(pa, size) \in Load
  BY HistoryTypes DEF TypeOK, Los, Reservation, Load
<1>. SUFFICES devices' \subseteq Requests /\ mem' \in [Los -> Memory] /\ lr' \in Reservation /\ last' \in Load
  BY DEF TypeOK, Los, Reservation, Load
<1>1. ASSUME NEW d \in Requests, AddDev(d)
      PROVE  devices' \subseteq Requests /\ mem' \in [Los -> Memory] /\ lr' \in Reservation /\ last' \in Load
  BY <1>0, <1>1 DEF AddDev
<1>2. ASSUME NEW a \in Accesses, NEW op \in AmoFunct, NEW src \in Operands, Amo(op, a.pa, a.size, src)
      PROVE  devices' \subseteq Requests /\ mem' \in [Los -> Memory] /\ lr' \in Reservation /\ last' \in Load
  <2>. DEFINE x == AmoStores(op, a.pa, a.size, src)
  <2>1. /\ x \in Int /\ PaWrite(a.pa, a.size, x)
        /\ devices' = devices /\ last' = Overlaid(a.pa, a.size)
    BY <1>2, AmoWrites
  <2>. HIDE DEF x
  <2>2. mem' = Written(a.pa, a.size, x) /\ (lr' = lr \/ lr' = Unreserved)
    BY <2>1 DEF PaWrite
  <2>. QED BY <1>0, <2>1, <2>2, WrittenTyped, AccessFacts
<1>3. ASSUME NEW a \in Accesses, NEW x \in Operands, Write(a.pa, a.size, x)
      PROVE  devices' \subseteq Requests /\ mem' \in [Los -> Memory] /\ lr' \in Reservation /\ last' \in Load
  <2>1. /\ mem' = Written(a.pa, a.size, x) /\ (lr' = lr \/ lr' = Unreserved)
        /\ devices' = devices /\ last' = Overlaid(a.pa, a.size)
    BY <1>3 DEF Write, PaWrite
  <2>. QED BY <1>0, <2>1, WrittenTyped, AccessFacts, OperandFacts
<1>4. ASSUME NEW a \in Accesses, NEW h \in Hart, LoadReserved(h, a.pa, a.size)
      PROVE  devices' \subseteq Requests /\ mem' \in [Los -> Memory] /\ lr' \in Reservation /\ last' \in Load
  <2>. DEFINE v == IF Hit(a.pa, a.size) THEN PaRead(a.pa, a.size) ELSE 0
  <2>1. a.pa \in Addr /\ a.pa \in Nat /\ a.size \in Sizes
    BY AccessFacts
  <2>2. v \in Register
    <3>1. Hit(a.pa, a.size) => PaRead(a.pa, a.size) \in Word(a.size)
      BY <1>0, <2>1, BusTerms, ValueWord
    <3>2. 0 \in Register /\ Word(a.size) \subseteq Register
      BY <2>1, RegisterFacts DEF Register
    <3>. QED BY <3>1, <3>2
  <2>3. Hit(a.pa, a.size) \in BOOLEAN
    BY DEF Hit
  <2>4. /\ devices' = devices /\ mem' = mem
        /\ lr' = [valid |-> TRUE, pa |-> a.pa, size |-> a.size, hart |-> h]
        /\ last' = [hart |-> h, pa |-> a.pa, size |-> a.size, read |-> Hit(a.pa, a.size),
                    value |-> v, overlaid |-> FALSE]
    BY <1>4 DEF LoadReserved
  <2>. HIDE DEF v
  <2>. QED BY <1>0, <2>1, <2>2, <2>3, <2>4 DEF Reservation, Load
<1>5. ASSUME NEW a \in Accesses, NEW h \in Hart, NEW x \in Operands,
             StoreConditional(h, a.pa, a.size, x)
      PROVE  devices' \subseteq Requests /\ mem' \in [Los -> Memory] /\ lr' \in Reservation /\ last' \in Load
  <2>1. /\ devices' = devices /\ (lr' = lr \/ lr' = Unreserved)
        /\ \/ mem' = Written(a.pa, a.size, x) /\ last' = Overlaid(a.pa, a.size)
           \/ mem' = mem /\ last' = last
    BY <1>5 DEF StoreConditional
  <2>. QED BY <1>0, <2>1, WrittenTyped, AccessFacts, OperandFacts
<1>6. CASE UNCHANGED vars
  BY <1>0, <1>6 DEF vars
<1>. QED BY <1>1, <1>2, <1>3, <1>4, <1>5, <1>6 DEF Next

(* Memories stay arrays of bytes, of the size they have, and the           *)
(* reservation and its history records of what harts did: no store, of     *)
(* whatever length and value, leaves a byte undefined.                     *)
THEOREM TypesCorrect == Spec => []TypeOK
<1>1. Init => TypeOK
  <2>. SUFFICES ASSUME Init PROVE TypeOK
    OBVIOUS
  <2>0. SomeHart \in Hart /\ 0 \in Addr /\ WordBytes \in Sizes
    BY BusAssumption, AddrLimitAssumption DEF SomeHart, Addr, Sizes
  <2>1. lr \in Reservation
    BY <2>0 DEF Init, NoReservation, Reservation
  <2>2. 0 \in Register
    BY <2>0, RegisterFacts DEF Register
  <2>3. last \in Load
    BY <2>0, <2>2 DEF Init, NoLoad, Load
  <2>4. [b \in Offset |-> 0] \in Memory
    BY RadixFacts DEF Memory, Byte
  <2>. QED BY <2>1, <2>3, <2>4 DEF Init, TypeOK, Reservation, Load
<1>. QED BY <1>1, TypesStep, MapInvariant, PTL DEF Spec

-----------------------------------------------------------------------------
(* LR and SC. *)

(* The invariant: a valid reservation is the one of the last LR, and what  *)
(* that LR read is still there unless something overlaid it.               *)
Current ==
  last.read /\ ~last.overlaid /\ ~Wraps(lr.pa, lr.size) =>
    /\ HitIn(devices, lr.pa, lr.size)
    /\ Value(devices, mem, lr.pa, lr.size) = last.value

Tracked ==
  lr.valid => /\ last.hart = lr.hart /\ last.pa = lr.pa /\ last.size = lr.size
              /\ Current

(* A new device does not come between an access and its device.            *)
LEMMA AddDevTracked ==
  ASSUME TypeOK, WellMapped(devices), WellMapped(devices)', Tracked,
         NEW new \in Requests, AddDev(new)
  PROVE  Tracked'
<1>0. devices' = devices \cup {new} /\ mem' = mem /\ lr' = lr /\ last' = last
  BY DEF AddDev
<1>1. /\ WellMapped(devices') /\ lr.pa \in Nat /\ lr.size \in Sizes /\ lr.size \in Nat \ {0}
      /\ devices \in SUBSET Range /\ devices' \in SUBSET Range
      /\ Disjoint(devices) /\ Disjoint(devices')
  BY SizeFacts, BusAssumption DEF WellMapped, TypeOK, Addr
<1>. DEFINE pa == lr.pa
            size == lr.size
            Holding(D) == {d \in D : d.lo <= pa /\ pa + size <= d.hi}
<1>2. ASSUME ~Wraps(pa, size), HitIn(devices, pa, size)
      PROVE  /\ HitIn(devices', pa, size)
             /\ Value(devices', mem, pa, size) = Value(devices, mem, pa, size)
  <2>1. Decode(devices, pa, size) = Holding(devices) /\ Decode(devices', pa, size) = Holding(devices')
    BY <1>1, <1>2, DecodeHolds
  <2>2. HitIn(devices', pa, size)
    BY <1>0, <1>2, <2>1 DEF HitIn
  <2>. DEFINE d == DeviceIn(devices, pa, size)
              e == DeviceIn(devices', pa, size)
  <2>3. d \in Decode(devices, pa, size)
    BY <1>2 DEF HitIn, DeviceIn
  <2>4. d \in Decode(devices', pa, size)
    BY <1>0, <2>1, <2>3
  <2>5. \A f \in Decode(devices', pa, size) : f = e
    BY <1>1, <2>2, HitFacts
  <2>6. d = e
    BY <2>4, <2>5
  <2>7. Value(devices', mem, pa, size) = Value(devices, mem, pa, size)
    BY <2>6, Zenon DEF Value
  <2>. QED BY <2>2, <2>7
<1>. QED BY <1>0, <1>2 DEF Tracked, Current

(* A write ends the reservation, or overlays it, or misses it.             *)
LEMMA WrittenTracked ==
  ASSUME TypeOK, WellMapped(devices), Tracked,
         NEW pa \in Nat, NEW size \in Sizes, NEW x \in Int,
         devices' = devices, mem' = Written(pa, size, x), last' = Overlaid(pa, size),
         lr' = lr \/ lr' = Unreserved, lr.pa = pa => lr' = Unreserved
  PROVE  Tracked'
<1>0. lr \in Reservation /\ last \in Load /\ Unreserved.valid = FALSE /\ mem \in [Los -> Memory]
  BY HistoryTypes DEF TypeOK, Reservation, Load, Los
<1>. SUFFICES ASSUME lr'.valid PROVE Tracked'
  BY DEF Tracked
<1>1. lr' = lr /\ lr.pa # pa /\ lr.valid
  BY <1>0
<1>2. /\ last.hart = lr.hart /\ last.pa = lr.pa /\ last.size = lr.size /\ Current
      /\ lr.pa \in Nat /\ lr.size \in Sizes
  BY <1>0, <1>1 DEF Tracked, Reservation, Addr
<1>3. /\ last'.hart = last.hart /\ last'.pa = last.pa /\ last'.size = last.size
      /\ last'.read = last.read /\ last'.value = last.value
      /\ last'.overlaid = (last.overlaid \/ (pa # last.pa /\ Touches(pa, size, last.pa, last.size)))
  BY <1>0 DEF Overlaid, Load
<1>4. ASSUME last'.read, ~last'.overlaid, ~Wraps(lr.pa, lr.size)
      PROVE  /\ HitIn(devices, lr.pa, lr.size)
             /\ Value(devices, mem', lr.pa, lr.size) = last.value
  <2>1. HitIn(devices, lr.pa, lr.size) /\ Value(devices, mem, lr.pa, lr.size) = last.value
    BY <1>2, <1>3, <1>4 DEF Current
  <2>2. ~TouchesIn(devices, pa, size, lr.pa, lr.size)
    BY <1>1, <1>2, <1>3, <1>4, BusTerms
  <2>3. mem' = WrittenIn(devices, mem, pa, size, x)
    BY BusTerms
  <2>4. Value(devices, mem', lr.pa, lr.size) = Value(devices, mem, lr.pa, lr.size)
    BY <1>0, <1>2, <2>1, <2>2, <2>3, ValueElsewhere
  <2>. QED BY <2>1, <2>4
<1>. QED BY <1>1, <1>2, <1>3, <1>4 DEF Tracked, Current

LEMMA PaWriteTracked ==
  ASSUME TypeOK, WellMapped(devices), Tracked,
         NEW pa \in Nat, NEW size \in Sizes, NEW x \in Int,
         PaWrite(pa, size, x), devices' = devices, last' = Overlaid(pa, size)
  PROVE  Tracked'
<1>1. lr.pa = pa => DropsReservation(pa, size)
  BY DropsSameStart
<1>2. /\ mem' = Written(pa, size, x) /\ (lr' = lr \/ lr' = Unreserved)
      /\ lr.pa = pa => lr' = Unreserved
  BY <1>1 DEF PaWrite
<1>. QED BY <1>2, WrittenTracked

LEMMA LoadReservedTracked ==
  ASSUME NEW h, NEW pa, NEW size, LoadReserved(h, pa, size) PROVE Tracked'
<1>1. /\ devices' = devices /\ mem' = mem
      /\ lr' = [valid |-> TRUE, pa |-> pa, size |-> size, hart |-> h]
      /\ last' = [hart |-> h, pa |-> pa, size |-> size, read |-> Hit(pa, size),
                  value |-> IF Hit(pa, size) THEN PaRead(pa, size) ELSE 0, overlaid |-> FALSE]
  BY DEF LoadReserved
<1>2. Hit(pa, size) <=> HitIn(devices, pa, size)
  BY BusTerms
<1>3. PaRead(pa, size) = Value(devices, mem, pa, size)
  BY BusTerms
<1>. QED BY <1>1, <1>2, <1>3 DEF Tracked, Current

LEMMA StoreConditionalTracked ==
  ASSUME TypeOK, WellMapped(devices), Tracked, NEW a \in Accesses, NEW h \in Hart,
         NEW x \in Operands, StoreConditional(h, a.pa, a.size, x)
  PROVE  Tracked'
<1>1. devices' = devices
  BY DEF StoreConditional
<1>2. CASE Reserved(h, a.pa, a.size)
  <2>1. lr' = Unreserved /\ mem' = Written(a.pa, a.size, x) /\ last' = Overlaid(a.pa, a.size)
    BY <1>2 DEF StoreConditional
  <2>. QED BY <1>1, <2>1, WrittenTracked, AccessFacts, OperandFacts
<1>3. CASE ~Reserved(h, a.pa, a.size)
  <2>1. mem' = mem /\ last' = last /\ (lr' = lr \/ lr' = Unreserved)
    BY <1>3 DEF StoreConditional
  <2>2. Unreserved.valid = FALSE
    BY HistoryTypes
  <2>. QED BY <1>1, <2>1, <2>2 DEF Tracked, Current
<1>. QED BY <1>2, <1>3

LEMMA TrackedInvariant == Spec => []Tracked
<1>1. Init => Tracked
  BY DEF Init, NoReservation, Tracked
<1>2. TypeOK /\ WellMapped(devices) /\ WellMapped(devices)' /\ Tracked /\ [Next]_vars => Tracked'
  <2>. SUFFICES ASSUME TypeOK, WellMapped(devices), WellMapped(devices)', Tracked, [Next]_vars
                PROVE  Tracked'
    OBVIOUS
  <2>1. ASSUME NEW d \in Requests, AddDev(d) PROVE Tracked'
    BY <2>1, AddDevTracked
  <2>2. ASSUME NEW a \in Accesses, NEW op \in AmoFunct, NEW src \in Operands,
               Amo(op, a.pa, a.size, src)
        PROVE  Tracked'
    BY <2>2, AmoWrites, PaWriteTracked, AccessFacts
  <2>3. ASSUME NEW a \in Accesses, NEW x \in Operands, Write(a.pa, a.size, x) PROVE Tracked'
    BY <2>3, PaWriteTracked, AccessFacts, OperandFacts DEF Write
  <2>4. ASSUME NEW a \in Accesses, NEW h \in Hart, LoadReserved(h, a.pa, a.size) PROVE Tracked'
    BY <2>4, LoadReservedTracked
  <2>5. ASSUME NEW a \in Accesses, NEW h \in Hart, NEW x \in Operands,
               StoreConditional(h, a.pa, a.size, x)
        PROVE  Tracked'
    BY <2>5, StoreConditionalTracked
  <2>6. CASE UNCHANGED vars
    BY <2>6 DEF vars, Tracked, Current
  <2>. QED BY <2>1, <2>2, <2>3, <2>4, <2>5, <2>6 DEF Next
<1>. QED BY <1>1, <1>2, TypesCorrect, MapInvariant, PTL DEF Spec

(* Whatever stores, atomics and reservations of any hart come between, of  *)
(* either size and with any value, a store-conditional that succeeds       *)
(* follows its own hart's LR and stores over what that read, unless a      *)
(* store from another start has overlapped it, which the bus lets pass.    *)
THEOREM UpdatesKept == Spec => []NoLostUpdate
<1>1. Tracked => NoLostUpdate
  <2>. SUFFICES ASSUME Tracked, NEW h \in Hart, NEW a \in Accesses, Reserved(h, a.pa, a.size)
                PROVE  /\ last.hart = h /\ last.pa = a.pa /\ last.size = a.size
                       /\ last.read /\ ~last.overlaid /\ ~Wraps(a.pa, a.size) =>
                            PaRead(a.pa, a.size) = last.value
    BY DEF NoLostUpdate
  <2>1. lr.valid /\ lr.pa = a.pa /\ lr.size = a.size /\ lr.hart = h
    BY DEF Reserved
  <2>2. PaRead(a.pa, a.size) = Value(devices, mem, a.pa, a.size)
    BY BusTerms
  <2>. QED BY <2>1, <2>2 DEF Tracked, Current
<1>. QED BY <1>1, TrackedInvariant, PTL

-----------------------------------------------------------------------------
(* Atomics. *)

(* What pa_amo_op leaves in memory is what the atomic stands for on words  *)
(* of its size, although it sign-extends the old word, computes on whole   *)
(* registers and writes the low bytes back; max, min, maxu and minu of     *)
(* words given a register no load of a word delivers leave one of the two  *)
(* words, not always the right one.                                        *)
THEOREM AtomicsExact == Spec => []AmoExact
<1>1. TypeOK /\ WellMapped(devices) => AmoExact
  <2>. SUFFICES ASSUME TypeOK, WellMapped(devices),
                       NEW a \in Accesses, NEW op \in AmoFunct, NEW src \in Operands,
                       Hit(a.pa, a.size)
                PROVE  LET old == PaRead(a.pa, a.size)
                           new == ReadFrom(Written(a.pa, a.size, AmoStores(op, a.pa, a.size, src)),
                                           a.pa, a.size)
                           word == src % Cap(a.size)
                       IN  IF op \in Comparing /\ src # SignExtend(word, a.size)
                           THEN new \in {word, old}
                           ELSE new = AmoMeaning(op, src, old, a.size)
    BY DEF AmoExact
  <2>. DEFINE old == PaRead(a.pa, a.size)
              res == SignExtend(old, a.size)
              x == AmoStores(op, a.pa, a.size, src)
              new == ReadFrom(Written(a.pa, a.size, x), a.pa, a.size)
              word == src % Cap(a.size)
  <2>1. /\ old \in Word(a.size) /\ res \in Register /\ x \in Int
        /\ x = AmoResult(op, src, res)
    BY AmoStored
  <2>2. new = x % Cap(a.size)
    <3>. HIDE DEF x
    <3>1. Value(devices, WrittenIn(devices, mem, a.pa, a.size, x), a.pa, a.size) = x % Cap(a.size)
      BY <2>1, ValueWritten, AccessFacts, BusTerms DEF TypeOK, Los
    <3>. QED BY <3>1, ReadFromTerms, BusTerms
  <2>. HIDE DEF new, x
  <2>3. CASE op \in Comparing /\ src # SignExtend(word, a.size)
    <3>1. x \in {src, res}
      BY <2>1, <2>3, ComparisonPicks, OperandFacts
    <3>2. res % Cap(a.size) = old
      BY <2>1, AccessFacts, SignExtendFacts
    <3>3. new \in {word, old}
      BY <2>2, <3>1, <3>2
    <3>. QED BY <2>3, <3>3 DEF new, x
  <2>4. CASE ~(op \in Comparing /\ src # SignExtend(word, a.size))
    <3>1. x % Cap(a.size) = AmoMeaning(op, src, old, a.size)
      BY <2>1, <2>4, AmoAgrees, AccessFacts, OperandFacts
    <3>. QED BY <2>2, <2>4, <3>1 DEF new, x
  <2>. QED BY <2>3, <2>4
<1>. QED BY <1>1, TypesCorrect, MapInvariant, PTL
===============================================================================
