------------------------------- MODULE MmioMem -------------------------------
(***************************************************************************)
(* A block of memory behind a bus (mmio_mem.hpp), and the lookup both      *)
(* buses use to find the device of an address: a map from disjoint address *)
(* ranges.                                                                 *)
(*                                                                         *)
(* Bytes are numbers below Radix (256).  A buffer of n bytes is a function *)
(* from 0 .. n-1, or from more, of which the first n count.                *)
(***************************************************************************)
EXTENDS Integers

CONSTANTS
  Radix,      \* values of a byte
  MemSize,    \* mem_size: 128 MiB in the simulator
  AddrLimit   \* addresses are numbers below this (2^64) and wrap there

Byte   == 0 .. Radix - 1
Offset == 0 .. MemSize - 1
Memory == [Offset -> Byte]

(* The range check of do_read and do_write.  allow_warp is never set.       *)
Backed(start, size) == start + size <= MemSize

DoRead(m, start, size) == [k \in 0 .. size - 1 |-> m[start + k]]

(* A write that does not fit changes nothing.                               *)
DoWrite(m, start, size, buffer) ==
  IF Backed(start, size)
  THEN [b \in Offset |-> IF b - start \in 0 .. size - 1 THEN buffer[b - start] ELSE m[b]]
  ELSE m

-----------------------------------------------------------------------------
(* The device map: a set of ranges [lo, hi).                                *)

Overlap(d, e) == d.lo < e.hi /\ e.lo < d.hi
Precedes(d, e) == d.lo < e.lo \/ (d.lo = e.lo /\ d.hi < e.hi)

(* A mutant: add_dev looks at the range behind only.                        *)
NeighbourBehind(devices, new) ==
  {d \in devices : Precedes(new, d) /\ \A e \in devices : Precedes(new, e) => ~Precedes(e, d)}

(* add_dev looks at the neighbours of the new range only: the first range   *)
(* behind it in the order of the map, and the last that is not.             *)
Neighbours(devices, new) ==
  {d \in devices :
     \/ Precedes(new, d) /\ \A e \in devices : Precedes(new, e) => ~Precedes(e, d)
     \/ ~Precedes(new, d) /\ \A e \in devices : ~Precedes(new, e) => ~Precedes(d, e)}

Accepts(devices, new) ==
  /\ new.lo % (new.hi - new.lo) = 0
  /\ \A d \in Neighbours(devices, new) : ~Overlap(d, new)

(* A mutant: the range that starts at the address itself is passed over.    *)
CandidatesBefore(devices, start) ==
  {d \in devices : d.lo < start
                     /\ \A e \in devices : e.lo < start => ~Precedes(d, e)}

(* upper_bound with the largest possible end, then one back: the last range *)
(* that starts at or before the address; none if there is no such range.    *)
Candidates(devices, start) ==
  {d \in devices : d.lo <= start
                     /\ \A e \in devices : e.lo <= start => ~Precedes(d, e)}

(* The device that answers an access, as a set of at most one.  The end of  *)
(* the access wraps: one that runs to the end of the address space or past  *)
(* it seems to end near 0.                                                  *)
Decode(devices, start, size) ==
  {d \in Candidates(devices, start) : (start + size) % AddrLimit <= d.hi}

DevOffset(d, start) == start % (d.hi - d.lo)

ASSUME RadixAssumption == Radix \in Nat /\ Radix > 1
ASSUME MemSizeAssumption == MemSize \in Nat
ASSUME AddrLimitAssumption == AddrLimit \in Nat \ {0}
=============================================================================
