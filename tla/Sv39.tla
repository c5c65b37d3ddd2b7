--------------------------------- MODULE Sv39 ---------------------------------
(***************************************************************************)
(* Translation with a TLB (rv_sv39.hpp): a hit is answered from the TLB, a *)
(* miss walks the page tables and fills the next entry in turn, and        *)
(* sfence_vma drops entries.  Supervisor software changes page tables and  *)
(* fences as it likes; what it owes is kept in a history variable.         *)
(*                                                                         *)
(* Addresses are counted in 4 KiB pages.  An address space has one root.   *)
(***************************************************************************)
EXTENDS Integers

CONSTANTS
  Vpns,         \* entries of a table (512)
  NrTlbEntry,   \* nr_tlb_entry (32)
  Asid,         \* address spaces in use, other than 0
  Root,         \* the page of the root table of each (satp.ppn)
  Table,        \* pages that page tables live in
  Boot,         \* their first contents
  Changes,      \* what software writes into them, as [table, vpn, pte]
  Accessed      \* the pages programs touch

VARIABLES
  pt,           \* the page tables in memory
  tlb, random,
  aborted,      \* an assertion on the number of matches has failed
  stale         \* history: translations changed and not fenced since

vars == <<pt, tlb, random, aborted, stale>>

Vpn == 0 .. Vpns - 1
Level == 0..2
Page == 0 .. Vpns * Vpns * Vpns - 1    \* virtual and physical page numbers

(* 4 KiB pages in a page of that level.                                     *)
Pages(level) == CASE level = 0 -> 1 [] level = 1 -> Vpns [] level = 2 -> Vpns * Vpns

Entry == 0 .. NrTlbEntry - 1
Pte == [V: BOOLEAN, R: BOOLEAN, W: BOOLEAN, X: BOOLEAN, U: BOOLEAN, G: BOOLEAN,
        A: BOOLEAN, D: BOOLEAN, reserved: BOOLEAN, ppn: Page]

All == -1    \* a vaddr or an asid of 0, which stands for every one

Invalid(entry) == entry.pagesize = 0
NoEntry == [pagesize |-> 0, vpa |-> 0, asid |-> CHOOSE a \in Asid : TRUE,
            pte |-> [V |-> FALSE, R |-> FALSE, W |-> FALSE, X |-> FALSE, U |-> FALSE,
                     G |-> FALSE, A |-> FALSE, D |-> FALSE, reserved |-> FALSE, ppn |-> 0]]

Init ==
  /\ pt = Boot
  /\ tlb = [i \in Entry |-> NoEntry]
  /\ random = 0
  /\ aborted = FALSE
  /\ stale = {}

-----------------------------------------------------------------------------
(* The walk.  Its result has the page size as 1, 2 or 3, or 0 for a fault.  *)

VpnOf(va, level) == (va \div Pages(level)) % Vpns
Reserved(pte) == ~pte.V \/ (~pte.R /\ pte.W) \/ pte.reserved
Leaf(pte) == pte.R \/ pte.X

(* Low bits of the page number at a superpage.                              *)
Misaligned(pte, level) == pte.ppn % Pages(level) # 0

PageFault == [pagesize |-> 0, pte |-> NoEntry.pte]

Ptw(mem, root, va) ==
  LET walk[level \in Level] == [table \in Page |->
        LET pte == mem[table][VpnOf(va, level)]
        IN  IF table \notin Table \/ Reserved(pte) THEN PageFault
            ELSE IF Leaf(pte)
            THEN IF Misaligned(pte, level) THEN PageFault
                 ELSE [pagesize |-> level + 1, pte |-> pte]
            ELSE IF level = 0 THEN PageFault
            ELSE walk[level - 1][pte.ppn]]
  IN  walk[2][root]

Translation(mem, asid, va) == Ptw(mem, Root[asid], va)

-----------------------------------------------------------------------------
(* The TLB. *)

PageStart(va, pagesize) == va - (va % Pages(pagesize - 1))

SameSpace(entry, asid) == entry.asid = asid \/ entry.pte.G

(* local_tlb_get.                                                           *)
Matches(asid, va) ==
  {i \in Entry : /\ ~Invalid(tlb[i])
                 /\ SameSpace(tlb[i], asid)
                 /\ tlb[i].vpa = PageStart(va, tlb[i].pagesize)}

Filled(asid, va, res) ==
  [pagesize |-> res.pagesize, vpa |-> PageStart(va, res.pagesize), asid |-> asid,
   pte |-> res.pte]

(* A mutant: of a superpage, only the first 4 KiB can be fenced.            *)
FencedFirstPage(entry, vaddr, asid) ==
  /\ asid = All \/ entry.asid = asid
  /\ vaddr = All \/ (~Invalid(entry) /\ entry.vpa = vaddr)

(* The entries sfence_vma drops.  It clears pagesize, and nothing looks at  *)
(* the rest of such an entry, which becomes NoEntry here.  Global entries   *)
(* are treated like the others of their space.                              *)
Fenced(entry, vaddr, asid) ==
  /\ asid = All \/ entry.asid = asid
  /\ \/ vaddr = All
     \/ ~Invalid(entry) /\ PageStart(entry.vpa, entry.pagesize) = PageStart(vaddr, entry.pagesize)

-----------------------------------------------------------------------------

(* Mutants: the entry in turn runs past the end; a hit is not returned.     *)
FillNoWrap(asid, va) ==
  /\ ~aborted
  /\ Matches(asid, va) = {}
  /\ random \in Entry
  /\ LET res == Translation(pt, asid, va)
     IN  /\ res # PageFault
         /\ tlb' = [tlb EXCEPT ![random] = Filled(asid, va, res)]
         /\ random' = random + 1
  /\ UNCHANGED <<pt, aborted, stale>>

FillOnHit(asid, va) ==
  /\ ~aborted
  /\ LET res == Translation(pt, asid, va)
     IN  /\ res # PageFault
         /\ tlb' = [tlb EXCEPT ![random] = Filled(asid, va, res)]
         /\ random' = (random + 1) % NrTlbEntry
  /\ UNCHANGED <<pt, aborted, stale>>

(* local_tlbe_get on a miss: a fault leaves the TLB as it is.               *)
Fill(asid, va) ==
  /\ ~aborted
  /\ Matches(asid, va) = {}
  /\ LET res == Translation(pt, asid, va)
     IN  /\ res # PageFault
         /\ tlb' = [tlb EXCEPT ![random] = Filled(asid, va, res)]
         /\ random' = (random + 1) % NrTlbEntry
  /\ UNCHANGED <<pt, aborted, stale>>

(* With more than one match the lookup runs into its assertion.             *)
Abort(asid, va) ==
  /\ ~aborted
  /\ \E i, j \in Matches(asid, va) : i # j
  /\ aborted' = TRUE
  /\ UNCHANGED <<pt, tlb, random, stale>>

(* Software writes an entry of a page table.  A change of a valid           *)
(* translation needs a fence, in every space if it was global.              *)
Owed(new) ==
  LET changed == {s \in Asid \X Accessed :
                    Translation(pt, s[1], s[2]) \notin
                      {PageFault, Translation(new, s[1], s[2])}}
      global == {s \in changed : Translation(pt, s[1], s[2]).pte.G}
  IN  changed \cup {<<All, s[2]>> : s \in global}

(* What software must see to: a global mapping is one of all spaces.        *)
GlobalEverywhere(mem) ==
  \A va \in Accessed, a \in Asid :
    LET here == Translation(mem, a, va)
    IN  here.pte.G => \A b \in Asid : Translation(mem, b, va) = here

WritePte(change) ==
  LET new == [pt EXCEPT ![change.table][change.vpn] = change.pte]
  IN  /\ ~aborted
      /\ new # pt
      /\ GlobalEverywhere(new)
      /\ pt' = new
      /\ stale' = stale \cup Owed(new)
      /\ UNCHANGED <<tlb, random, aborted>>

SfenceVma(vaddr, asid) ==
  /\ ~aborted
  /\ tlb' = [i \in Entry |->
               IF Fenced(tlb[i], vaddr, asid) THEN NoEntry ELSE tlb[i]]
  /\ stale' = {s \in stale : ~(asid \in {All, s[1]} /\ vaddr \in {All, s[2]})}
  /\ UNCHANGED <<pt, random, aborted>>

Next ==
  \/ \E asid \in Asid, va \in Accessed : Fill(asid, va)
  \/ \E asid \in Asid, va \in Accessed : Abort(asid, va)
  \/ \E change \in Changes : WritePte(change)
  \/ \E vaddr \in Accessed \cup {All}, asid \in Asid \cup {All} : SfenceVma(vaddr, asid)

Spec == Init /\ [][Next]_vars

-----------------------------------------------------------------------------

TypeOK ==
  /\ pt \in [Table -> [Vpn -> Pte]]
  /\ tlb \in [Entry -> [pagesize: 0..3, vpa: Page, asid: Asid, pte: Pte]]
  /\ random \in Entry
  /\ aborted \in BOOLEAN
  /\ stale \subseteq (Asid \cup {All}) \X Accessed

Fresh(asid, va) == <<asid, va>> \notin stale /\ <<All, va>> \notin stale

(* What MM_SANITIZER asserts: once software has fenced a translation it     *)
(* changed, a hit is what a walk would find now, with the same page size    *)
(* and permissions, in the right address space, and where a walk would      *)
(* fault there is no hit.  No fence is owed for a mapping that was invalid. *)
HitsAgreeWithTables ==
  \A asid \in Asid, va \in Accessed : Fresh(asid, va) =>
    \A i \in Matches(asid, va) :
      [pagesize |-> tlb[i].pagesize, pte |-> tlb[i].pte] = Translation(pt, asid, va)

(* The assertion of the lookup: at most one entry matches, pages of several *)
(* sizes and global ones included, unless a fence is owed for the address.  *)
AtMostOneMatch ==
  \A asid \in Asid, va \in Accessed : Fresh(asid, va) =>
    \A i, j \in Matches(asid, va) : i = j

ASSUME Sv39Assumption ==
  /\ Vpns \in Nat \ {0, 1} /\ NrTlbEntry \in Nat \ {0}
  /\ Asid # {} /\ Asid \subseteq Nat \ {0}
  /\ Table \subseteq Page /\ Root \in [Asid -> Table]
  /\ Boot \in [Table -> [Vpn -> Pte]] /\ GlobalEverywhere(Boot)
  /\ Changes \subseteq [table: Table, vpn: Vpn, pte: Pte]
  /\ Accessed \subseteq Page
=============================================================================
