------------------------------ MODULE Sv39Proofs ------------------------------
(***************************************************************************)
(* Theorems about translation, for every size of the tables and of the TLB *)
(* and every set of address spaces, table contents and table changes: once *)
(* software has fenced what it changed, the TLB answers as a walk would,   *)
(* and never with two entries.                                             *)
(***************************************************************************)
EXTENDS Sv39, Arithmetic

-----------------------------------------------------------------------------
(* The invariant. *)

(* An entry covers an address whatever space it is in.                     *)
Covers(entry, va) == ~Invalid(entry) /\ entry.vpa = PageStart(va, entry.pagesize)

Agrees(mem, entry, asid, va) ==
  [pagesize |-> entry.pagesize, pte |-> entry.pte] = Translation(mem, asid, va)

(* A fence of one space removes no global entry that another space filled: *)
(* for those, only a fence of every space counts.                          *)
GlobalsAgree ==
  \A va \in Accessed, i \in Entry :
    <<All, va>> \notin stale /\ Covers(tlb[i], va) /\ tlb[i].pte.G =>
      /\ \A asid \in Asid : Agrees(pt, tlb[i], asid, va)
      /\ \A j \in Entry : Covers(tlb[j], va) /\ tlb[j].pte.G => i = j

Coherent ==
  /\ GlobalEverywhere(pt)
  /\ GlobalsAgree
  /\ HitsAgreeWithTables
  /\ AtMostOneMatch

-----------------------------------------------------------------------------
(* Arithmetic of page numbers. *)

LEMMA PagesNat == ASSUME NEW l \in Level PROVE Pages(l) \in Nat \ {0}
<1>1. Vpns * Vpns \in Nat \ {0}
  <2>1. 1 * Vpns <= Vpns * Vpns
    BY Sv39Assumption, TimesMonotone
  <2>. QED BY <2>1, Sv39Assumption
<1>. QED BY <1>1, Sv39Assumption DEF Pages, Level

(* The page an address lies in starts at a page of the address space, and  *)
(* starts where it starts.                                                 *)
LEMMA PageStartPage ==
  ASSUME NEW va \in Page, NEW size \in 1..3
  PROVE  /\ PageStart(va, size) \in Page
         /\ PageStart(PageStart(va, size), size) = PageStart(va, size)
<1>. DEFINE n == Pages(size - 1)
<1>1. n \in Nat \ {0}
  BY PagesNat DEF Level
<1>2. va \in Nat
  BY DEF Page
<1>. HIDE DEF n
<1>. DEFINE q == va \div n
<1>3. q \in Nat /\ va % n \in 0 .. n - 1 /\ q * n = va - (va % n)
  BY <1>1, <1>2, DivisionParts
<1>4. PageStart(va, size) = q * n
  BY <1>3 DEF PageStart, n
<1>. HIDE DEF q
<1>5. 0 * n <= q * n
  BY <1>1, <1>3, TimesMonotone
<1>6. q * n \in Page
  <2>1. Vpns * Vpns * Vpns \in Int
    BY Sv39Assumption
  <2>. QED BY <1>1, <1>2, <1>3, <1>5, <2>1 DEF Page
<1>7. (q * n) % n = 0
  BY <1>1, <1>3, DivisionExact
<1>8. q * n - ((q * n) % n) = q * n
  BY <1>1, <1>3, <1>7
<1>. QED BY <1>4, <1>6, <1>8 DEF PageStart, n

(* Addresses in the same page of a level have the same table indices from  *)
(* that level up.                                                          *)
LEMMA SameIndices ==
  ASSUME NEW a \in Page, NEW b \in Page, NEW l \in Level,
         PageStart(a, l + 1) = PageStart(b, l + 1), NEW k \in l..2
  PROVE  VpnOf(a, k) = VpnOf(b, k)
<1>1. a \in Nat /\ b \in Nat /\ Vpns \in Nat \ {0}
  BY Sv39Assumption DEF Page
<1>2. \A n \in Nat \ {0} : a - (a % n) = b - (b % n) => a \div n = b \div n
  <2>. SUFFICES ASSUME NEW n \in Nat \ {0}, a - (a % n) = b - (b % n)
                PROVE  a \div n = b \div n
    OBVIOUS
  <2>1. a \div n \in Nat /\ (a \div n) * n = a - (a % n)
    BY <1>1, DivisionParts
  <2>2. b \div n \in Nat /\ (b \div n) * n = b - (b % n)
    BY <1>1, DivisionParts
  <2>. DEFINE p == a \div n
              q == b \div n
  <2>3. p \in Int /\ q \in Int /\ p * n = q * n
    BY <2>1, <2>2
  <2>. HIDE DEF p, q
  <2>4. (p * n) \div n = p /\ (q * n) \div n = q
    BY <2>3, DivisionExact
  <2>. QED BY <2>3, <2>4 DEF p, q
<1>3. a \div Pages(l) = b \div Pages(l)
  <2>1. a - (a % Pages(l)) = b - (b % Pages(l))
    BY DEF PageStart, Level
  <2>. QED BY <1>2, <2>1, PagesNat
<1>4. (a \div Vpns) \div Vpns = a \div (Vpns * Vpns) /\ (b \div Vpns) \div Vpns = b \div (Vpns * Vpns)
  BY <1>1, DivideTwice
<1>5. a \div 1 = a /\ b \div 1 = b
  BY <1>1
<1>6. a \div Pages(k) = b \div Pages(k)
  <2>1. l \in {0, 1, 2} /\ k \in {0, 1, 2} /\ l <= k
    BY DEF Level
  <2>2. /\ Pages(0) = 1 /\ Pages(1) = Vpns /\ Pages(2) = Vpns * Vpns
    BY DEF Pages
  <2>3. CASE l = k
    BY <1>3, <2>3
  <2>4. CASE l = 0
    BY <1>3, <1>5, <2>2, <2>4
  <2>5. CASE l = 1 /\ k = 2
    BY <1>3, <1>4, <2>2, <2>5
  <2>. QED BY <2>1, <2>3, <2>4, <2>5
<1>. QED BY <1>6 DEF VpnOf

-----------------------------------------------------------------------------
(* The walk, level by level. *)

PageTables == [Table -> [Vpn -> Pte]]

(* What the walk does at a table of some level, given what it finds one    *)
(* level further down.                                                     *)
Visit(mem, va, level, table, below) ==
  LET pte == mem[table][VpnOf(va, level)]
  IN  IF table \notin Table \/ Reserved(pte) THEN PageFault
      ELSE IF Leaf(pte)
      THEN IF Misaligned(pte, level) THEN PageFault
           ELSE [pagesize |-> level + 1, pte |-> pte]
      ELSE IF level = 0 THEN PageFault
      ELSE below[pte.ppn]

Lowest(mem, va) == [table \in Page |-> Visit(mem, va, 0, table, <<>>)]
Middle(mem, va) == [table \in Page |-> Visit(mem, va, 1, table, Lowest(mem, va))]

LEMMA PpnPage ==
  ASSUME NEW mem \in PageTables, NEW va \in Page, NEW level \in Level, NEW table \in Table
  PROVE  mem[table][VpnOf(va, level)] \in Pte /\ mem[table][VpnOf(va, level)].ppn \in Page
<1>1. VpnOf(va, level) \in Vpn
  <2>1. va \in Nat /\ Pages(level) \in Nat \ {0}
    BY PagesNat DEF Page
  <2>2. va \div Pages(level) \in Nat
    BY <2>1, DivisionParts
  <2>. QED BY <2>2, Sv39Assumption, DivisionParts DEF VpnOf, Vpn
<1>. QED BY <1>1 DEF PageTables, Pte

(* The recursion of Ptw is three visits.                                   *)
LEMMA PtwVisits ==
  ASSUME NEW mem \in PageTables, NEW va \in Page, NEW root \in Page
  PROVE  Ptw(mem, root, va) = Visit(mem, va, 2, root, Middle(mem, va))
<1>. DEFINE Body(w, level, table) ==
       LET pte == mem[table][VpnOf(va, level)]
       IN  IF table \notin Table \/ Reserved(pte) THEN PageFault
           ELSE IF Leaf(pte)
           THEN IF Misaligned(pte, level) THEN PageFault
                ELSE [pagesize |-> level + 1, pte |-> pte]
           ELSE IF level = 0 THEN PageFault
           ELSE w[level - 1][pte.ppn]
<1>. DEFINE F(w) == [level \in Level |-> [table \in Page |-> Body(w, level, table)]]
<1>. DEFINE walk == CHOOSE w : w = F(w)
<1>1. Ptw(mem, root, va) = walk[2][root]
  BY Zenon DEF Ptw
<1>. DEFINE Highest == [table \in Page |-> Visit(mem, va, 2, table, Middle(mem, va))]
<1>. DEFINE W == [level \in Level |-> IF level = 0 THEN Lowest(mem, va)
                                      ELSE IF level = 1 THEN Middle(mem, va) ELSE Highest]
<1>2. \A w, below : \A table \in Page : Body(w, 0, table) = Visit(mem, va, 0, table, below)
  BY DEF Visit
<1>3. ASSUME NEW w, NEW level \in {1, 2}, NEW table \in Page
      PROVE  Body(w, level, table) = Visit(mem, va, level, table, w[level - 1])
  BY <1>3 DEF Visit
<1>. HIDE DEF Body
<1>4. \A w : [table \in Page |-> Body(w, 0, table)] = Lowest(mem, va)
  BY <1>2 DEF Lowest
<1>5. \A w : w[0] = Lowest(mem, va) => [table \in Page |-> Body(w, 1, table)] = Middle(mem, va)
  BY <1>3 DEF Middle
<1>6. \A w : w[1] = Middle(mem, va) => [table \in Page |-> Body(w, 2, table)] = Highest
  BY <1>3
<1>. HIDE DEF Highest
<1>7. W[0] = Lowest(mem, va) /\ W[1] = Middle(mem, va) /\ W[2] = Highest
  BY DEF Level
<1>8. W = F(W)
  <2>1. \A level \in Level : W[level] = [table \in Page |-> Body(W, level, table)]
    <3>. HIDE DEF W
    <3>. QED BY <1>4, <1>5, <1>6, <1>7 DEF Level
  <2>. QED BY <2>1
<1>9. walk = F(walk)
  <2>. HIDE DEF W, F
  <2>. QED BY <1>8
<1>. HIDE DEF W, walk
<1>10. \A level \in Level : walk[level] = [table \in Page |-> Body(walk, level, table)]
  BY <1>9
<1>. HIDE DEF F
<1>11. walk[2] = Highest
  BY <1>4, <1>5, <1>6, <1>10 DEF Level
<1>. QED BY <1>1, <1>11 DEF Highest

(* What is found at or below a table of the lowest levels.                 *)
LEMMA LowestFinds ==
  ASSUME NEW mem \in PageTables, NEW va \in Page, NEW table \in Page
  PROVE  \/ Lowest(mem, va)[table] = PageFault
         \/ Lowest(mem, va)[table] \in [pagesize: {1}, pte: Pte]
<1>1. Lowest(mem, va)[table] = Visit(mem, va, 0, table, <<>>)
  BY DEF Lowest
<1>2. table \in Table => mem[table][VpnOf(va, 0)] \in Pte
  BY PpnPage DEF Level
<1>. QED BY <1>1, <1>2 DEF Visit

LEMMA MiddleFinds ==
  ASSUME NEW mem \in PageTables, NEW va \in Page, NEW table \in Page
  PROVE  \/ Middle(mem, va)[table] = PageFault
         \/ Middle(mem, va)[table] \in [pagesize: {1, 2}, pte: Pte]
<1>1. Middle(mem, va)[table] = Visit(mem, va, 1, table, Lowest(mem, va))
  BY DEF Middle
<1>2. table \in Table => /\ mem[table][VpnOf(va, 1)] \in Pte
                        /\ mem[table][VpnOf(va, 1)].ppn \in Page
  BY PpnPage DEF Level
<1>3. table \in Table => \/ Lowest(mem, va)[mem[table][VpnOf(va, 1)].ppn] = PageFault
                        \/ Lowest(mem, va)[mem[table][VpnOf(va, 1)].ppn] \in [pagesize: {1}, pte: Pte]
  BY <1>2, LowestFinds
<1>. QED BY <1>1, <1>2, <1>3 DEF Visit

LEMMA TranslationType ==
  ASSUME NEW mem \in PageTables, NEW asid \in Asid, NEW va \in Page
  PROVE  \/ Translation(mem, asid, va) = PageFault
         \/ Translation(mem, asid, va) \in [pagesize: 1..3, pte: Pte]
<1>0. Root[asid] \in Table /\ Root[asid] \in Page
  BY Sv39Assumption
<1>1. Translation(mem, asid, va) = Visit(mem, va, 2, Root[asid], Middle(mem, va))
  BY <1>0, PtwVisits DEF Translation
<1>. DEFINE pte == mem[Root[asid]][VpnOf(va, 2)]
<1>2. pte \in Pte /\ pte.ppn \in Page
  BY <1>0, PpnPage DEF Level
<1>3. Middle(mem, va)[pte.ppn] = PageFault \/ Middle(mem, va)[pte.ppn] \in [pagesize: {1, 2}, pte: Pte]
  BY <1>2, MiddleFinds
<1>. QED BY <1>1, <1>2, <1>3 DEF Visit

LEMMA FaultFacts ==
  PageFault.pagesize = 0 /\ PageFault.pte.G = FALSE /\ PageFault.pte = NoEntry.pte
BY DEF PageFault, NoEntry

(* Addresses in the page a walk finds are translated alike.                *)
LEMMA SameTranslation ==
  ASSUME NEW mem \in PageTables, NEW asid \in Asid, NEW a \in Page, NEW b \in Page,
         Translation(mem, asid, a) # PageFault,
         LET size == Translation(mem, asid, a).pagesize IN PageStart(a, size) = PageStart(b, size)
  PROVE  Translation(mem, asid, b) = Translation(mem, asid, a)
<1>. DEFINE t == Translation(mem, asid, a)
            r == Root[asid]
            pte2 == mem[r][VpnOf(a, 2)]
            pte1 == mem[pte2.ppn][VpnOf(a, 1)]
<1>. SUFFICES Translation(mem, asid, b) = t
  OBVIOUS
<1>0. r \in Table /\ r \in Page
  BY Sv39Assumption
<1>1. /\ t = Visit(mem, a, 2, r, Middle(mem, a))
      /\ Translation(mem, asid, b) = Visit(mem, b, 2, r, Middle(mem, b))
  BY <1>0, PtwVisits DEF Translation
<1>2. t.pagesize \in 1..3
  BY TranslationType
<1>3. \A k \in 0..2 : t.pagesize <= k + 1 => VpnOf(b, k) = VpnOf(a, k)
  <2>. TAKE k \in 0..2
  <2>. DEFINE l == t.pagesize - 1
  <2>1. l \in Level /\ l + 1 = t.pagesize
    BY <1>2 DEF Level
  <2>2. PageStart(a, l + 1) = PageStart(b, l + 1)
    BY <2>1
  <2>. HIDE DEF l, t
  <2>3. t.pagesize <= k + 1 => k \in l..2
    BY <1>2, <2>1 DEF Level
  <2>. QED BY <2>1, <2>2, <2>3, SameIndices
<1>4. t # PageFault
  OBVIOUS
<1>. HIDE DEF t, r
<1>5. pte2 \in Pte /\ pte2.ppn \in Page
  BY <1>0, PpnPage DEF Level
<1>6. mem[r][VpnOf(b, 2)] = pte2
  BY <1>2, <1>3
<1>7. ~Reserved(pte2)
  BY <1>0, <1>1, <1>4 DEF Visit
<1>8. CASE Leaf(pte2)
  BY <1>0, <1>1, <1>6, <1>7, <1>8 DEF Visit
<1>9. CASE ~Leaf(pte2)
  <2>. HIDE DEF pte2
  <2>1. t = Middle(mem, a)[pte2.ppn] /\ Translation(mem, asid, b) = Middle(mem, b)[pte2.ppn]
    BY <1>0, <1>1, <1>6, <1>7, <1>9 DEF Visit, pte2
  <2>2. /\ t = Visit(mem, a, 1, pte2.ppn, Lowest(mem, a))
        /\ Translation(mem, asid, b) = Visit(mem, b, 1, pte2.ppn, Lowest(mem, b))
    BY <1>5, <2>1 DEF Middle
  <2>3. t.pagesize \in {1, 2}
    BY <1>4, <1>5, <2>1, MiddleFinds
  <2>4. pte2.ppn \in Table
    BY <1>4, <2>2 DEF Visit
  <2>5. pte1 \in Pte /\ pte1.ppn \in Page
    BY <2>4, PpnPage DEF Level
  <2>6. mem[pte2.ppn][VpnOf(b, 1)] = pte1
    BY <1>3, <2>3
  <2>7. ~Reserved(pte1)
    BY <1>4, <2>2 DEF Visit
  <2>8. CASE Leaf(pte1)
    BY <2>2, <2>4, <2>6, <2>7, <2>8 DEF Visit
  <2>9. CASE ~Leaf(pte1)
    <3>. HIDE DEF pte1
    <3>1. t = Lowest(mem, a)[pte1.ppn] /\ Translation(mem, asid, b) = Lowest(mem, b)[pte1.ppn]
      BY <2>2, <2>4, <2>6, <2>7, <2>9 DEF Visit, pte1
    <3>2. /\ t = Visit(mem, a, 0, pte1.ppn, <<>>)
          /\ Translation(mem, asid, b) = Visit(mem, b, 0, pte1.ppn, <<>>)
      BY <2>5, <3>1 DEF Lowest
    <3>3. t.pagesize = 1
      BY <1>4, <2>5, <3>1, LowestFinds
    <3>4. VpnOf(b, 0) = VpnOf(a, 0)
      BY <1>3, <3>3
    <3>. QED BY <3>2, <3>4 DEF Visit
  <2>. QED BY <2>8, <2>9
<1>. QED BY <1>8, <1>9

-----------------------------------------------------------------------------
(* Types. *)

LEMMA EmptyEntry ==
  NoEntry \in [pagesize: 0..3, vpa: Page, asid: Asid, pte: Pte] /\ Invalid(NoEntry)
<1>1. 0 \in Page
  <2>1. 1 * 1 <= Vpns * 1
    BY Sv39Assumption
  <2>2. Vpns * 1 <= Vpns * Vpns /\ Vpns * Vpns \in Nat
    BY Sv39Assumption, PagesNat, TimesMonotone
  <2>3. 1 * Vpns <= (Vpns * Vpns) * Vpns
    BY <2>1, <2>2, Sv39Assumption, TimesMonotone
  <2>4. (Vpns * Vpns) * Vpns \in Int
    BY <2>2, Sv39Assumption
  <2>. QED BY <2>3, <2>4, Sv39Assumption DEF Page
<1>2. (CHOOSE a \in Asid : TRUE) \in Asid
  BY Sv39Assumption
<1>. QED BY <1>1, <1>2 DEF NoEntry, Invalid, Pte

LEMMA FillTypes ==
  ASSUME TypeOK, NEW asid \in Asid, NEW va \in Accessed, Fill(asid, va)
  PROVE  TypeOK'
<1>. DEFINE res == Translation(pt, asid, va)
<1>0. va \in Page /\ pt \in PageTables
  BY Sv39Assumption DEF TypeOK, PageTables
<1>1. res \in [pagesize: 1..3, pte: Pte]
  BY <1>0, TranslationType DEF Fill
<1>2. tlb' = [tlb EXCEPT ![random] = Filled(asid, va, res)]
  BY DEF Fill
<1>. HIDE DEF res
<1>3. res.pagesize \in 1..3 /\ PageStart(va, res.pagesize) \in Page
  BY <1>0, <1>1, PageStartPage
<1>4. Filled(asid, va, res) \in [pagesize: 0..3, vpa: Page, asid: Asid, pte: Pte]
  BY <1>1, <1>3 DEF Filled
<1>5. tlb' \in [Entry -> [pagesize: 0..3, vpa: Page, asid: Asid, pte: Pte]]
  BY <1>2, <1>4 DEF TypeOK
<1>6. random' \in Entry
  <2>1. random + 1 \in Nat /\ NrTlbEntry \in Nat \ {0}
    BY Sv39Assumption DEF TypeOK, Entry
  <2>2. (random + 1) % NrTlbEntry \in 0 .. NrTlbEntry - 1
    BY <2>1, DivisionParts
  <2>. QED BY <2>2 DEF Fill, Entry
<1>. QED BY <1>5, <1>6 DEF TypeOK, Fill

LEMMA WriteTypes ==
  ASSUME TypeOK, NEW change \in Changes, WritePte(change)
  PROVE  TypeOK'
<1>1. pt' \in [Table -> [Vpn -> Pte]]
  <2>1. change \in [table: Table, vpn: Vpn, pte: Pte]
    BY Sv39Assumption
  <2>2. pt' = [pt EXCEPT ![change.table][change.vpn] = change.pte]
    BY DEF WritePte
  <2>. QED BY <2>1, <2>2 DEF TypeOK
<1>2. \A new : Owed(new) \subseteq (Asid \cup {All}) \X Accessed
  BY DEF Owed
<1>3. stale' \subseteq (Asid \cup {All}) \X Accessed
  BY <1>2 DEF WritePte, TypeOK
<1>. QED BY <1>1, <1>3 DEF WritePte, TypeOK

(* The TLB holds entries and software's debt is of pages it uses.  The code *)
(* keeps the turn of the next fill inside the TLB and drops an entry by     *)
(* clearing its page size.                                                  *)
THEOREM TypesCorrect == Spec => []TypeOK
<1>1. Init => TypeOK
  <2>1. 0 \in Entry
    BY Sv39Assumption DEF Entry
  <2>2. Init => tlb \in [Entry -> [pagesize: 0..3, vpa: Page, asid: Asid, pte: Pte]]
    BY EmptyEntry DEF Init
  <2>. QED BY <2>1, <2>2, Sv39Assumption DEF Init, TypeOK
<1>2. TypeOK /\ [Next]_vars => TypeOK'
  <2>. SUFFICES ASSUME TypeOK, [Next]_vars PROVE TypeOK'
    OBVIOUS
  <2>1. CASE \E asid \in Asid, va \in Accessed : Fill(asid, va)
    BY <2>1, FillTypes
  <2>2. CASE \E asid \in Asid, va \in Accessed : Abort(asid, va)
    BY <2>2 DEF Abort, TypeOK
  <2>3. CASE \E change \in Changes : WritePte(change)
    BY <2>3, WriteTypes
  <2>4. ASSUME NEW vaddr \in Accessed \cup {All}, NEW asid \in Asid \cup {All}, SfenceVma(vaddr, asid)
        PROVE  TypeOK'
    <3>1. tlb' \in [Entry -> [pagesize: 0..3, vpa: Page, asid: Asid, pte: Pte]]
      BY <2>4, EmptyEntry DEF SfenceVma, TypeOK
    <3>. QED BY <2>4, <3>1 DEF SfenceVma, TypeOK
  <2>5. CASE UNCHANGED vars
    BY <2>5 DEF vars, TypeOK
  <2>. QED BY <2>1, <2>2, <2>3, <2>4, <2>5 DEF Next
<1>. QED BY <1>1, <1>2, PTL DEF Spec

-----------------------------------------------------------------------------
(* The invariant, action by action. *)

LEMMA MatchesCovers ==
  ASSUME NEW asid, NEW va
  PROVE  /\ Matches(asid, va) = {i \in Entry : Covers(tlb[i], va) /\ SameSpace(tlb[i], asid)}
         /\ Matches(asid, va)' = {i \in Entry : Covers(tlb'[i], va) /\ SameSpace(tlb'[i], asid)}
BY DEF Matches, Covers

(* A walk that found a page is no fault.                                   *)
LEMMA AgreesNoFault ==
  ASSUME NEW mem, NEW entry, NEW asid, NEW va, NEW b, Covers(entry, b), Agrees(mem, entry, asid, va)
  PROVE  Translation(mem, asid, va) # PageFault
BY DEF Agrees, Covers, Invalid, PageFault

LEMMA FillCoherent ==
  ASSUME TypeOK, Coherent, NEW a0 \in Asid, NEW v0 \in Accessed, Fill(a0, v0)
  PROVE  Coherent'
<1>. DEFINE res == Translation(pt, a0, v0)
            e == Filled(a0, v0, res)
<1>0. pt \in PageTables /\ Accessed \subseteq Page /\ random \in Entry
  BY Sv39Assumption DEF TypeOK, PageTables
<1>1. /\ res # PageFault /\ Matches(a0, v0) = {}
      /\ tlb' = [tlb EXCEPT ![random] = e]
      /\ pt' = pt /\ stale' = stale
  BY DEF Fill
<1>2. res \in [pagesize: 1..3, pte: Pte]
  BY <1>0, <1>1, TranslationType
<1>3. /\ e.pagesize = res.pagesize /\ e.pte = res.pte /\ e.asid = a0
      /\ e.vpa = PageStart(v0, res.pagesize)
  BY DEF Filled
<1>4. tlb'[random] = e /\ \A i \in Entry : i # random => tlb'[i] = tlb[i]
  BY <1>0, <1>1 DEF TypeOK
<1>. HIDE DEF e
<1>5. ASSUME NEW va \in Accessed, Covers(e, va)
      PROVE  Translation(pt, a0, va) = res
  <2>1. PageStart(v0, res.pagesize) = PageStart(va, res.pagesize)
    BY <1>3, <1>5 DEF Covers
  <2>. QED BY <1>0, <1>1, <2>1, SameTranslation
<1>6. ASSUME NEW va \in Accessed, Covers(e, va), NEW asid \in Asid, SameSpace(e, asid)
      PROVE  Translation(pt, asid, va) = res
  <2>1. Translation(pt, a0, va) = res
    BY <1>5, <1>6
  <2>2. CASE asid = a0
    BY <2>1, <2>2
  <2>3. CASE res.pte.G
    BY <2>1, <2>3 DEF Coherent, GlobalEverywhere
  <2>. HIDE DEF res
  <2>. QED BY <1>3, <1>6, <2>2, <2>3 DEF SameSpace
<1>7. \A asid \in Asid, va \in Accessed : Covers(e, va) /\ SameSpace(e, asid) => Agrees(pt, e, asid, va)
  <2>1. [pagesize |-> e.pagesize, pte |-> e.pte] = res
    BY <1>2, <1>3
  <2>. HIDE DEF res
  <2>. QED BY <1>6, <2>1 DEF Agrees
<1>8. ASSUME NEW va \in Accessed, Covers(e, va), NEW asid \in Asid, SameSpace(e, asid),
             NEW i \in Entry, Covers(tlb[i], va), Agrees(pt, tlb[i], asid, va),
             SameSpace(tlb[i], asid)
      PROVE  FALSE
  <2>1. tlb[i].pagesize = res.pagesize /\ tlb[i].pte = res.pte
    <3>1. Translation(pt, asid, va) = res
      BY <1>6, <1>8
    <3>. HIDE DEF res
    <3>. QED BY <1>8, <3>1 DEF Agrees
  <2>2. Covers(tlb[i], v0)
    BY <1>3, <1>8, <2>1 DEF Covers
  <2>3. SameSpace(tlb[i], a0)
    BY <1>3, <1>8, <2>1 DEF SameSpace
  <2>. QED BY <1>1, <2>2, <2>3, MatchesCovers
<1>. HIDE DEF res
<1>9. GlobalEverywhere(pt)'
  BY <1>1 DEF Coherent, GlobalEverywhere
<1>10. HitsAgreeWithTables'
  <2>. SUFFICES ASSUME NEW asid \in Asid, NEW va \in Accessed, Fresh(asid, va)',
                       NEW i \in Matches(asid, va)'
                PROVE  Agrees(pt, tlb'[i], asid, va)
    BY <1>1 DEF HitsAgreeWithTables, Agrees
  <2>1. i \in Entry /\ Covers(tlb'[i], va) /\ SameSpace(tlb'[i], asid)
    BY MatchesCovers
  <2>2. CASE i = random
    BY <1>4, <1>7, <2>1, <2>2
  <2>3. CASE i # random
    <3>1. Fresh(asid, va) /\ i \in Matches(asid, va)
      BY <1>1, <1>4, <2>1, <2>3, MatchesCovers DEF Fresh
    <3>. QED BY <1>4, <2>1, <2>3, <3>1 DEF Coherent, HitsAgreeWithTables, Agrees
  <2>. QED BY <2>2, <2>3
<1>11. AtMostOneMatch'
  <2>. SUFFICES ASSUME NEW asid \in Asid, NEW va \in Accessed, Fresh(asid, va)',
                       NEW i \in Matches(asid, va)', NEW j \in Matches(asid, va)', i # j
                PROVE  FALSE
    BY DEF AtMostOneMatch
  <2>1. /\ i \in Entry /\ Covers(tlb'[i], va) /\ SameSpace(tlb'[i], asid)
        /\ j \in Entry /\ Covers(tlb'[j], va) /\ SameSpace(tlb'[j], asid)
    BY MatchesCovers
  <2>2. Fresh(asid, va)
    BY <1>1 DEF Fresh
  <2>3. \A k \in Entry : k # random /\ Covers(tlb'[k], va) /\ SameSpace(tlb'[k], asid) =>
          k \in Matches(asid, va) /\ Agrees(pt, tlb[k], asid, va)
    BY <1>4, <2>2, MatchesCovers DEF Coherent, HitsAgreeWithTables, Agrees
  <2>4. CASE i # random /\ j # random
    BY <2>1, <2>2, <2>3, <2>4 DEF Coherent, AtMostOneMatch
  <2>5. CASE i = random
    BY <1>4, <1>8, <2>1, <2>3, <2>5
  <2>6. CASE j = random
    BY <1>4, <1>8, <2>1, <2>3, <2>6
  <2>. QED BY <2>4, <2>5, <2>6
<1>12. GlobalsAgree'
  <2>. SUFFICES ASSUME NEW va \in Accessed, NEW i \in Entry, <<All, va>> \notin stale,
                       Covers(tlb'[i], va), tlb'[i].pte.G
                PROVE  /\ \A asid \in Asid : Agrees(pt, tlb'[i], asid, va)
                       /\ \A j \in Entry : Covers(tlb'[j], va) /\ tlb'[j].pte.G => i = j
    BY <1>1 DEF GlobalsAgree
  <2>1. \A k \in Entry : k # random /\ Covers(tlb'[k], va) /\ tlb'[k].pte.G =>
          /\ Covers(tlb[k], va) /\ tlb[k].pte.G
          /\ \A asid \in Asid : Agrees(pt, tlb[k], asid, va)
    BY <1>4 DEF Coherent, GlobalsAgree
  <2>2. \A asid \in Asid : Agrees(pt, tlb'[i], asid, va)
    BY <1>4, <1>7, <2>1 DEF SameSpace
  <2>3. ASSUME NEW k \in Entry, k # random, Covers(tlb'[k], va), tlb'[k].pte.G,
               Covers(e, va), e.pte.G
        PROVE  FALSE
    BY <1>8, <2>1, <2>3 DEF SameSpace
  <2>4. ASSUME NEW j \in Entry, Covers(tlb'[j], va), tlb'[j].pte.G
        PROVE  i = j
    <3>1. CASE i # random /\ j # random
      BY <1>4, <2>4, <3>1 DEF Coherent, GlobalsAgree
    <3>2. CASE i = random \/ j = random
      BY <1>4, <2>3, <2>4, <3>2
    <3>. QED BY <3>1, <3>2
  <2>. QED BY <2>2, <2>4
<1>. QED BY <1>9, <1>10, <1>11, <1>12 DEF Coherent

LEMMA WriteCoherent ==
  ASSUME TypeOK, Coherent, NEW change \in Changes, WritePte(change)
  PROVE  Coherent'
<1>1. /\ GlobalEverywhere(pt') /\ stale' = stale \cup Owed(pt') /\ tlb' = tlb
  BY DEF WritePte
<1>2. \A va \in Accessed, asid \in Asid :
        \/ Translation(pt, asid, va) = PageFault
        \/ Translation(pt, asid, va) = Translation(pt', asid, va)
        \/ /\ <<asid, va>> \in Owed(pt')
           /\ Translation(pt, asid, va).pte.G => <<All, va>> \in Owed(pt')
  BY DEF Owed
<1>3. \A asid, va : Matches(asid, va)' = Matches(asid, va) /\ (Fresh(asid, va)' => Fresh(asid, va))
  BY <1>1 DEF Matches, Fresh
<1>4. HitsAgreeWithTables'
  <2>. SUFFICES ASSUME NEW asid \in Asid, NEW va \in Accessed, Fresh(asid, va)',
                       NEW i \in Matches(asid, va)
                PROVE  Agrees(pt', tlb[i], asid, va)
    BY <1>1, <1>3 DEF HitsAgreeWithTables, Agrees
  <2>1. Agrees(pt, tlb[i], asid, va)
    BY <1>3 DEF Coherent, HitsAgreeWithTables, Agrees
  <2>2. Translation(pt, asid, va) # PageFault
    BY <2>1, MatchesCovers, AgreesNoFault
  <2>3. <<asid, va>> \notin Owed(pt')
    BY <1>1 DEF Fresh
  <2>. QED BY <1>2, <2>1, <2>2, <2>3 DEF Agrees
<1>5. AtMostOneMatch'
  BY <1>3 DEF Coherent, AtMostOneMatch
<1>6. GlobalsAgree'
  <2>. SUFFICES ASSUME NEW va \in Accessed, NEW i \in Entry, <<All, va>> \notin stale',
                       Covers(tlb[i], va), tlb[i].pte.G
                PROVE  /\ \A asid \in Asid : Agrees(pt', tlb[i], asid, va)
                       /\ \A j \in Entry : Covers(tlb[j], va) /\ tlb[j].pte.G => i = j
    BY <1>1 DEF GlobalsAgree
  <2>1. <<All, va>> \notin stale /\ <<All, va>> \notin Owed(pt')
    BY <1>1
  <2>2. ASSUME NEW asid \in Asid
        PROVE  Agrees(pt', tlb[i], asid, va)
    <3>1. Agrees(pt, tlb[i], asid, va)
      BY <2>1 DEF Coherent, GlobalsAgree
    <3>2. Translation(pt, asid, va) # PageFault
      BY <3>1, AgreesNoFault
    <3>3. Translation(pt, asid, va).pte.G
      BY <3>1 DEF Agrees
    <3>. QED BY <1>2, <2>1, <3>1, <3>2, <3>3 DEF Agrees
  <2>. QED BY <2>1, <2>2 DEF Coherent, GlobalsAgree
<1>. QED BY <1>1, <1>4, <1>5, <1>6 DEF Coherent

(* A fence of an address, or of all, drops what covers it in its space.    *)
LEMMA CoveredFenced ==
  ASSUME NEW entry \in [pagesize: 0..3, vpa: Page, asid: Asid, pte: Pte], NEW va \in Page,
         Covers(entry, va), NEW asid \in {All, entry.asid}, NEW vaddr \in {All, va}
  PROVE  Fenced(entry, vaddr, asid)
<1>1. entry.pagesize \in 1..3 /\ entry.vpa = PageStart(va, entry.pagesize)
  BY DEF Covers, Invalid
<1>2. PageStart(entry.vpa, entry.pagesize) = PageStart(va, entry.pagesize)
  BY <1>1, PageStartPage
<1>. QED BY <1>2 DEF Fenced, Covers

LEMMA FenceCoherent ==
  ASSUME TypeOK, Coherent, NEW vaddr \in Accessed \cup {All}, NEW asid \in Asid \cup {All},
         SfenceVma(vaddr, asid)
  PROVE  Coherent'
<1>0. Accessed \subseteq Page /\ tlb \in [Entry -> [pagesize: 0..3, vpa: Page, asid: Asid, pte: Pte]]
  BY Sv39Assumption DEF TypeOK
<1>1. /\ pt' = pt
      /\ stale' = {s \in stale : ~(asid \in {All, s[1]} /\ vaddr \in {All, s[2]})}
      /\ \A i \in Entry : tlb'[i] = IF Fenced(tlb[i], vaddr, asid) THEN NoEntry ELSE tlb[i]
  BY DEF SfenceVma
<1>2. ASSUME NEW i \in Entry, NEW va, Covers(tlb'[i], va)
      PROVE  tlb'[i] = tlb[i] /\ ~Fenced(tlb[i], vaddr, asid)
  BY <1>1, <1>2, EmptyEntry DEF Covers
<1>3. ASSUME NEW va \in Accessed, <<All, va>> \in stale, <<All, va>> \notin stale',
             NEW i \in Entry, Covers(tlb'[i], va)
      PROVE  FALSE
  <2>1. asid = All /\ vaddr \in {All, va}
    BY <1>1, <1>3
  <2>2. Covers(tlb[i], va) /\ ~Fenced(tlb[i], vaddr, asid)
    BY <1>2, <1>3
  <2>. QED BY <1>0, <2>1, <2>2, CoveredFenced
<1>4. ASSUME NEW a \in Asid, NEW va \in Accessed, Fresh(a, va)', ~Fresh(a, va),
             NEW i \in Matches(a, va)'
      PROVE  Covers(tlb[i], va) /\ tlb[i].pte.G /\ <<All, va>> \notin stale
  <2>1. i \in Entry /\ Covers(tlb'[i], va) /\ SameSpace(tlb'[i], a)
    BY MatchesCovers
  <2>2. <<All, va>> \notin stale
    BY <1>3, <1>4, <2>1 DEF Fresh
  <2>3. asid \in {All, a} /\ vaddr \in {All, va}
    BY <1>1, <1>4, <2>2 DEF Fresh
  <2>4. tlb'[i] = tlb[i] /\ ~Fenced(tlb[i], vaddr, asid)
    BY <1>2, <2>1
  <2>5. asid \notin {All, tlb[i].asid}
    BY <1>0, <2>1, <2>3, <2>4, CoveredFenced
  <2>. QED BY <2>1, <2>2, <2>3, <2>4, <2>5 DEF SameSpace
<1>5. \A a, va : \A i \in Matches(a, va)' :
        i \in Entry /\ i \in Matches(a, va) /\ tlb'[i] = tlb[i]
  BY <1>2, MatchesCovers
<1>6. HitsAgreeWithTables'
  <2>. SUFFICES ASSUME NEW a \in Asid, NEW va \in Accessed, Fresh(a, va)',
                       NEW i \in Matches(a, va)'
                PROVE  Agrees(pt, tlb[i], a, va)
    BY <1>1, <1>5 DEF HitsAgreeWithTables, Agrees
  <2>1. CASE Fresh(a, va)
    BY <1>5, <2>1 DEF Coherent, HitsAgreeWithTables, Agrees
  <2>2. CASE ~Fresh(a, va)
    BY <1>4, <1>5, <2>2 DEF Coherent, GlobalsAgree
  <2>. QED BY <2>1, <2>2
<1>7. AtMostOneMatch'
  <2>. SUFFICES ASSUME NEW a \in Asid, NEW va \in Accessed, Fresh(a, va)',
                       NEW i \in Matches(a, va)', NEW j \in Matches(a, va)'
                PROVE  i = j
    BY DEF AtMostOneMatch
  <2>1. CASE Fresh(a, va)
    BY <1>5, <2>1 DEF Coherent, AtMostOneMatch
  <2>2. CASE ~Fresh(a, va)
    BY <1>4, <1>5, <2>2 DEF Coherent, GlobalsAgree
  <2>. QED BY <2>1, <2>2
<1>8. GlobalsAgree'
  <2>. SUFFICES ASSUME NEW va \in Accessed, NEW i \in Entry, <<All, va>> \notin stale',
                       Covers(tlb'[i], va), tlb'[i].pte.G
                PROVE  /\ \A a \in Asid : Agrees(pt, tlb'[i], a, va)
                       /\ \A j \in Entry : Covers(tlb'[j], va) /\ tlb'[j].pte.G => i = j
    BY <1>1 DEF GlobalsAgree
  <2>1. <<All, va>> \notin stale
    BY <1>3
  <2>. QED BY <1>2, <2>1 DEF Coherent, GlobalsAgree
<1>. QED BY <1>1, <1>6, <1>7, <1>8 DEF Coherent, GlobalEverywhere

-----------------------------------------------------------------------------
(* The theorems. *)

LEMMA CoherentInvariant == Spec => []Coherent
<1>1. Init => Coherent
  <2>1. Init => /\ GlobalEverywhere(pt) /\ \A i \in Entry, va \in Accessed : ~Covers(tlb[i], va)
    BY EmptyEntry, Sv39Assumption DEF Init, Covers
  <2>2. \A asid, va : Matches(asid, va) = {i \in Entry : Covers(tlb[i], va) /\ SameSpace(tlb[i], asid)}
    BY MatchesCovers
  <2>. QED BY <2>1, <2>2 DEF Coherent, GlobalsAgree, HitsAgreeWithTables, AtMostOneMatch
<1>2. TypeOK /\ Coherent /\ [Next]_vars => Coherent'
  <2>. SUFFICES ASSUME TypeOK, Coherent, [Next]_vars PROVE Coherent'
    OBVIOUS
  <2>1. CASE \E asid \in Asid, va \in Accessed : Fill(asid, va)
    BY <2>1, FillCoherent
  <2>2. CASE UNCHANGED <<pt, tlb, stale>>
    BY <2>2 DEF Coherent, GlobalEverywhere, GlobalsAgree, HitsAgreeWithTables, AtMostOneMatch,
                Fresh, Matches, Covers, Agrees
  <2>3. CASE \E change \in Changes : WritePte(change)
    BY <2>3, WriteCoherent
  <2>4. CASE \E vaddr \in Accessed \cup {All}, asid \in Asid \cup {All} : SfenceVma(vaddr, asid)
    BY <2>4, FenceCoherent
  <2>. QED BY <2>1, <2>2, <2>3, <2>4 DEF Next, Abort, vars
<1>. QED BY <1>1, <1>2, TypesCorrect, PTL DEF Spec

(* Once software has fenced what it changed of a translation, an entry of  *)
(* the TLB that matches has the page size and the permissions a walk would *)
(* find: what MM_SANITIZER asserts of local_tlbe_get at every access.      *)
THEOREM HitsCorrect == Spec => []HitsAgreeWithTables
<1>1. Coherent => HitsAgreeWithTables
  BY DEF Coherent
<1>. QED BY <1>1, CoherentInvariant, PTL

(* The assertion of local_tlb_get: the entries of several sizes and global *)
(* ones, filled in any order and dropped by any fences, never leave two    *)
(* that match one address, unless a fence is owed for it.                  *)
THEOREM OneMatch == Spec => []AtMostOneMatch
<1>1. Coherent => AtMostOneMatch
  BY DEF Coherent
<1>. QED BY <1>1, CoherentInvariant, PTL
===============================================================================
