--------------------------- MODULE FileExec_proofs ---------------------------
(***************************************************************************)
(* Proofs about overlays, from the page table up: the table, for any       *)
(* sizes of modules and any order of loading and unloading; the TLB, and   *)
(* the memory that modules reach through it; the DMA functions; and the    *)
(* loading of files, which puts them together.                             *)
(***************************************************************************)
EXTENDS FileExec, FiniteSetTheorems, SequenceTheorems, WellFoundedInduction, TLAPS

PagesInv == PagesTypeOK /\ EntriesOK /\ InStep

(* What is known of a run when it is taken. *)
LEMMA FittingFacts ==
  ASSUME NEW count \in PageCounts, NEW start \in Fitting(count)
  PROVE  /\ count \in Nat /\ count > 0 /\ start \in Nat
         /\ start + count <= MODULE_PAGE_COUNT
         /\ count >= 4 => start % 4 = 0
         /\ \A i \in start .. start + count - 1 :
              i \in Slots /\ D_800CA668[i].module_id = NoModule
<1>1. count \in Nat /\ count > 0 /\ MODULE_PAGE_COUNT \in Nat
  BY PageCountAssumption
<1>2. start \in Slots /\ start % step(count) = 0
      /\ start + count <= MODULE_PAGE_COUNT
      /\ \A i \in start .. start + count - 1 : D_800CA668[i].module_id = NoModule
  BY DEF Fitting, module_pages_are_free
<1>3. start \in Nat
  BY <1>1, <1>2 DEF Slots
<1>4. count >= 4 => start % 4 = 0
  BY <1>2 DEF step
<1>5. \A i \in start .. start + count - 1 : i \in Slots
  BY <1>1, <1>2, <1>3 DEF Slots
<1>6. QED
  BY <1>1, <1>2, <1>3, <1>4, <1>5

(* The four slots of an entry of four pages lie in the run. *)
LEMMA BlockInRun ==
  ASSUME NEW count \in Nat, NEW start \in Nat, NEW i \in Nat,
         count >= 4 => start % 4 = 0,
         start <= i, i - start < count - (count % 4)
  PROVE  /\ (i - start) % 4 = i % 4
         /\ \A j \in i - (i % 4) .. i - (i % 4) + 3 :
              j \in start .. start + count - 1 /\ j - start < count - (count % 4)
<1> DEFINE offset == i - start
           fours == count - (count % 4)
<1>1. fours % 4 = 0 /\ fours <= count /\ fours \in Nat /\ offset \in Nat /\ offset < fours
  OBVIOUS
<1>2. count >= 4 /\ start % 4 = 0
  BY <1>1
<1>3. offset % 4 = i % 4
  BY <1>2
<1>4. offset - (offset % 4) >= 0 /\ offset - (offset % 4) + 3 < fours
  BY <1>1
<1>5. QED
  BY <1>1, <1>3, <1>4

LEMMA TakeKeeps ==
  ASSUME PagesInv, NEW id \in Modules, id \notin Loaded, NEW vaddr \in Int,
         NEW count \in PageCounts, NEW start \in Fitting(count),
         TakesPages(start, count, vaddr, id), stopped' = stopped
  PROVE  /\ PagesInv'
         /\ \A i \in Slots : D_800CA668[i].module_id # NoModule =>
              D_800CA668'[i] = D_800CA668[i]
<1> DEFINE Run == start .. start + count - 1
           new(i) == Entry(start, count, vaddr, id, i)
<1>1. /\ count \in Nat /\ count > 0 /\ start \in Nat
      /\ start + count <= MODULE_PAGE_COUNT
      /\ count >= 4 => start % 4 = 0
      /\ \A i \in Run : i \in Slots /\ D_800CA668[i].module_id = NoModule
  BY FittingFacts
<1>2. Slots \subseteq Nat /\ id # NoModule /\ MODULE_PAGE_COUNT \in Nat
  BY PageCountAssumption, ModulesAssumption DEF Slots, NoModule
<1>3. /\ \A i \in Slots \cap Run : D_800CA668'[i] = new(i)
      /\ \A i \in Slots \ Run : D_800CA668'[i] = D_800CA668[i]
      /\ D_800CA668' = [i \in Slots |-> IF i \in Run THEN new(i) ELSE D_800CA668[i]]
  BY DEF TakesPages
<1>4. \A i \in Run :
        /\ new(i).module_id = id /\ new(i).vaddr = vaddr + (i - start)
        /\ new(i).paddr = module_page_paddr(i) /\ new(i) \in PageEntry
        /\ i - start >= count - (count % 4) => new(i).page_count = 1
        /\ i - start < count - (count % 4) =>
             new(i).page_count = IF (i - start) % 4 = 0 THEN 4 ELSE 0
  BY <1>1 DEF Entry, PageEntry, module_page_paddr
<1> HIDE DEF new
<1>5. PagesTypeOK'
  BY <1>3, <1>4 DEF PagesInv, PagesTypeOK
<1>6. \A i \in Slots : D_800CA668[i].module_id # NoModule =>
        i \notin Run /\ D_800CA668'[i] = D_800CA668[i]
  BY <1>1, <1>3
<1>7. \A i \in Slots : D_800CA668[i].module_id # id
  BY DEF Loaded, OwnedBy
<1>8. EntriesOK'
  <2>1. SUFFICES ASSUME NEW i \in Slots, D_800CA668'[i].module_id # NoModule,
                        D_800CA668'[i].page_count # 1
                 PROVE  /\ D_800CA668'[i].page_count = 4 <=> i % 4 = 0
                        /\ i - (i % 4) + 3 \in Slots
                        /\ \A j \in i - (i % 4) .. i - (i % 4) + 3 :
                             /\ D_800CA668'[j].module_id = D_800CA668'[i].module_id
                             /\ D_800CA668'[j].page_count # 1
    BY DEF EntriesOK
  <2>2. CASE i \in Run
    <3>1. D_800CA668'[i] = new(i) /\ i \in Nat /\ start <= i
          /\ i - start < count - (count % 4)
      BY <1>1, <1>2, <1>3, <1>4, <2>1, <2>2
    <3>2. /\ (i - start) % 4 = i % 4
          /\ \A j \in i - (i % 4) .. i - (i % 4) + 3 :
               j \in Run /\ j - start < count - (count % 4)
      BY <1>1, <3>1, BlockInRun
    <3>3. D_800CA668'[i].page_count = 4 <=> i % 4 = 0
      BY <1>4, <2>2, <3>1, <3>2
    <3>4. \A j \in i - (i % 4) .. i - (i % 4) + 3 :
            /\ j \in Slots /\ D_800CA668'[j] = new(j)
            /\ new(j).module_id = id /\ new(j).page_count # 1
      BY <1>1, <1>3, <1>4, <3>2
    <3>5. i - (i % 4) + 3 \in i - (i % 4) .. i - (i % 4) + 3
      BY <3>1
    <3>6. D_800CA668'[i].module_id = id /\ i - (i % 4) + 3 \in Slots
      BY <1>4, <2>2, <3>1, <3>4, <3>5
    <3>7. \A j \in i - (i % 4) .. i - (i % 4) + 3 :
            /\ D_800CA668'[j].module_id = D_800CA668'[i].module_id
            /\ D_800CA668'[j].page_count # 1
      BY <3>4, <3>6
    <3>8. QED
      BY ONLY <3>3, <3>6, <3>7
  <2>3. CASE i \notin Run
    <3>1. D_800CA668'[i] = D_800CA668[i]
      BY <1>3, <2>3
    <3>2. /\ D_800CA668[i].page_count = 4 <=> i % 4 = 0
          /\ i - (i % 4) + 3 \in Slots
          /\ \A j \in i - (i % 4) .. i - (i % 4) + 3 :
               /\ D_800CA668[j].module_id = D_800CA668[i].module_id
               /\ D_800CA668[j].page_count # 1
      BY <2>1, <3>1 DEF PagesInv, EntriesOK
    <3>3. \A j \in i - (i % 4) .. i - (i % 4) + 3 : j \in Slots
      BY <1>2, <3>2 DEF Slots
    <3>4. QED
      BY <1>6, <2>1, <3>1, <3>2, <3>3
  <2>4. QED
    BY <2>2, <2>3
<1>9. InStep'
  <2>1. SUFFICES ASSUME NEW i \in Slots, NEW j \in Slots,
                        D_800CA668'[i].module_id # NoModule,
                        D_800CA668'[i].module_id = D_800CA668'[j].module_id
                 PROVE  /\ D_800CA668'[i].paddr = module_page_paddr(i)
                        /\ D_800CA668'[i].vaddr - D_800CA668'[j].vaddr = i - j
    BY DEF InStep
  <2>2. CASE i \in Run /\ j \in Run
    BY <1>1, <1>2, <1>3, <1>4, <2>1, <2>2
  <2>3. CASE i \notin Run /\ j \notin Run
    BY <1>3, <2>1, <2>3 DEF PagesInv, InStep
  <2>4. CASE i \in Run <=> j \notin Run
    BY <1>3, <1>4, <1>7, <2>1, <2>4
  <2>5. QED
    BY <2>2, <2>3, <2>4
<1>10. QED
  BY <1>5, <1>6, <1>8, <1>9 DEF PagesInv

LEMMA FreeKeeps ==
  ASSUME PagesInv, NEW id \in Modules, FreePages(id), stopped' = stopped
  PROVE  /\ PagesInv'
         /\ \A i \in Slots : \/ D_800CA668'[i] = D_800CA668[i]
                             \/ D_800CA668'[i].module_id = NoModule
<1>1. \A i \in Slots :
        /\ D_800CA668[i].module_id = id => D_800CA668'[i] = FreeEntry
        /\ D_800CA668[i].module_id # id => D_800CA668'[i] = D_800CA668[i]
  BY DEF FreePages, OwnedBy
<1>2. FreeEntry \in PageEntry /\ FreeEntry.module_id = NoModule
  BY DEF FreeEntry, PageEntry
<1>3. Slots \subseteq Nat /\ MODULE_PAGE_COUNT \in Nat
  BY PageCountAssumption DEF Slots
<1>4. PagesTypeOK'
  BY <1>2 DEF FreePages, PagesInv, PagesTypeOK
<1>5. \A i \in Slots : D_800CA668'[i].module_id # NoModule =>
        D_800CA668'[i] = D_800CA668[i] /\ D_800CA668[i].module_id # id
  BY <1>1, <1>2
<1>6. EntriesOK'
  <2>1. SUFFICES ASSUME NEW i \in Slots, D_800CA668'[i].module_id # NoModule,
                        D_800CA668'[i].page_count # 1
                 PROVE  /\ D_800CA668'[i].page_count = 4 <=> i % 4 = 0
                        /\ i - (i % 4) + 3 \in Slots
                        /\ \A j \in i - (i % 4) .. i - (i % 4) + 3 :
                             /\ D_800CA668'[j].module_id = D_800CA668'[i].module_id
                             /\ D_800CA668'[j].page_count # 1
    BY DEF EntriesOK
  <2>2. /\ D_800CA668[i].page_count = 4 <=> i % 4 = 0
        /\ i - (i % 4) + 3 \in Slots
        /\ \A j \in i - (i % 4) .. i - (i % 4) + 3 :
             /\ D_800CA668[j].module_id = D_800CA668[i].module_id
             /\ D_800CA668[j].page_count # 1
    BY <1>5, <2>1 DEF PagesInv, EntriesOK
  <2>3. \A j \in i - (i % 4) .. i - (i % 4) + 3 : j \in Slots
    BY <1>3, <2>2 DEF Slots
  <2>4. QED
    BY <1>1, <1>5, <2>1, <2>2, <2>3
<1>7. InStep'
  BY <1>5 DEF PagesInv, InStep
<1>8. QED
  BY <1>1, <1>2, <1>4, <1>6, <1>7 DEF PagesInv

LEMMA PagesInvInit == Init => PagesInv
<1> SUFFICES ASSUME Init PROVE PagesInv
  OBVIOUS
<1>1. FreeEntry \in PageEntry /\ FreeEntry.module_id = NoModule
  BY DEF FreeEntry, PageEntry
<1>2. QED
  BY <1>1 DEF Init, PagesInit, PagesInv, PagesTypeOK, EntriesOK, InStep

(* Every step keeps the table right and takes no page from a module. *)
LEMMA PagesStep ==
  ASSUME PagesInv, [Next]_vars
  PROVE  /\ PagesInv'
         /\ \A i \in Slots : D_800CA668[i].module_id # NoModule =>
              D_800CA668'[i].module_id \in {D_800CA668[i].module_id, NoModule}
<1>1. ASSUME UNCHANGED D_800CA668, stopped' \in BOOLEAN
      PROVE  PagesInv'
  BY <1>1 DEF PagesInv, PagesTypeOK, EntriesOK, InStep
<1>2. ASSUME NEW id \in Modules, NEW count \in PageCounts, GetPages(id, count)
      PROVE  /\ PagesInv'
             /\ \A i \in Slots : D_800CA668[i].module_id # NoModule =>
                  D_800CA668'[i] = D_800CA668[i]
  <2>1. id \notin Loaded
    BY <1>2 DEF GetPages
  <2>2. VirtualPage[id] \in Int
    BY VirtualPageAssumption
  <2>3. CASE \E start \in Fitting(count) :
               TakesPages(start, count, VirtualPage[id], id) /\ UNCHANGED stopped
    BY <2>1, <2>2, <2>3, TakeKeeps
  <2>4. CASE stopped' = TRUE /\ UNCHANGED D_800CA668
    BY <1>1, <2>4
  <2>5. QED
    BY <1>2, <2>3, <2>4 DEF GetPages, modulegetpages_impl
<1>3. ASSUME NEW id \in Modules, moduleMapTLB(id)
      PROVE  UNCHANGED D_800CA668 /\ stopped' \in BOOLEAN
  BY <1>3 DEF moduleMapTLB
<1>4. ASSUME NEW id \in Modules, Unload(id)
      PROVE  FreePages(id) /\ stopped' = stopped
  BY <1>4 DEF Unload
<1>5. ASSUME Boot \/ zerojumpinit \/ UNCHANGED vars
      PROVE  UNCHANGED D_800CA668 /\ stopped' \in BOOLEAN
  BY <1>5 DEF Boot, zerojumpinit, vars, pageVars, PagesInv, PagesTypeOK
<1>6. CASE \E id \in Modules, count \in PageCounts : GetPages(id, count)
  BY <1>2, <1>6
<1>7. CASE \E id \in Modules : moduleMapTLB(id)
  BY <1>1, <1>3, <1>7
<1>8. CASE \E id \in Modules : Unload(id)
  BY <1>4, <1>8, FreeKeeps
<1>9. CASE Boot \/ zerojumpinit \/ UNCHANGED vars
  BY <1>1, <1>5, <1>9
<1>10. QED
  BY <1>6, <1>7, <1>8, <1>9 DEF Next
-----------------------------------------------------------------------------
(* In every reachable state the entries of a module cover each of its pages
   once, those of four pages are aligned, and its physical pages follow each
   other as its virtual ones do: what "keep physical addresses strictly
   contiguous" asks of modulegetpages_impl. *)
THEOREM PagesInvariant == Spec => [](PagesTypeOK /\ EntriesOK /\ InStep)
<1>1. PagesInv => PagesTypeOK /\ EntriesOK /\ InStep
  BY DEF PagesInv
<1>2. QED
  BY <1>1, PagesInvInit, PagesStep, PTL DEF Spec

(* modulegetpages_impl never gives a page away that a module holds. *)
THEOREM PagesKept == Spec => NoTakeover
<1>1. ASSUME PagesInv, [Next]_vars
      PROVE  [\A i \in Slots :
               D_800CA668[i].module_id # NoModule =>
                 D_800CA668'[i].module_id \in {D_800CA668[i].module_id, NoModule}]_pageVars
  BY <1>1, PagesStep
<1>2. QED
  BY <1>1, PagesInvInit, PagesStep, PTL DEF Spec, NoTakeover
-----------------------------------------------------------------------------
(***************************************************************************)
(* The TLB and the page table.                                             *)
(***************************************************************************)

(* The pages of a module are one run, mapped from its first address on. *)
Run(m, base, count) ==
  /\ base \in Nat /\ count \in PageCounts /\ base + count <= MODULE_PAGE_COUNT
  /\ OwnedBy(m) = base .. base + count - 1
  /\ \A i \in OwnedBy(m) : D_800CA668[i].vaddr = VirtualPage[m] + (i - base)

RunsOK == \A m \in Loaded : \E base \in Nat, count \in PageCounts : Run(m, base, count)

(* Modules that are linked for one address are not loaded together. *)
Apart == \A m, n \in Loaded : VirtualPage[m] = VirtualPage[n] => m = n

(* What is in the TLB entries of a module, and in those of none. *)
ZeroJumpEntry == Mapping(PAGE_UNITS, ZeroJump, 0, Unmapped)
Mine(t) ==
  IF D_800AD1F0[t] = NoModule THEN gTLBTable[t] \in {ZeroEntry, ZeroJumpEntry}
  ELSE \E i \in Firsts(D_800AD1F0[t]) : gTLBTable[t] = PairFor(D_800CA668[i])

Once ==
  \A t, u \in Indices :
    /\ D_800AD1F0[t] # NoModule /\ D_800AD1F0[t] = D_800AD1F0[u]
    /\ gTLBTable[t] = gTLBTable[u]
    => t = u

(* All entries of a module are mapped. *)
Whole(m) ==
  \A i \in Firsts(m) : \E t \in TlbOf(m) : gTLBTable[t] = PairFor(D_800CA668[i])

TlbInv ==
  /\ PagesInv
  /\ D_800AD1F0 \in [Indices -> Modules \cup {NoModule}]
  /\ gTLBTable = [t \in Indices |-> gTLBTable[t]]
  /\ ~ booted => Loaded = {}
  /\ RunsOK /\ Apart /\ Once
  /\ \A t \in Indices : Mine(t)
  /\ ~ stopped => \A m \in Mapped : Whole(m)
-----------------------------------------------------------------------------
LEMMA TimesGrow ==
  ASSUME NEW u \in Nat, NEW a \in Int, NEW b \in Int, a <= b
  PROVE  a * u <= b * u
<1>1. (b - a) * u >= 0
  OBVIOUS
<1>2. (b - a) * u = b * u - a * u
  OBVIOUS
<1>3. QED
  BY <1>1, <1>2

LEMMA TimesAdd ==
  ASSUME NEW u \in Int, NEW a \in Int, NEW b \in Int
  PROVE  (a + b) * u = a * u + b * u /\ (a - b) * u = a * u - b * u
OBVIOUS

LEMMA Quotient ==
  ASSUME NEW u \in Nat, u > 0, NEW o \in Int, NEW q \in Int, NEW r \in 0 .. u - 1,
         o = q * u + r
  PROVE  o \div u = q /\ o % u = r
OBVIOUS

LEMMA QuotientParts ==
  ASSUME NEW u \in Nat, u > 0, NEW o \in Int
  PROVE  /\ o \div u \in Int /\ o % u \in 0 .. u - 1
         /\ o = (o \div u) * u + (o % u)
OBVIOUS

LEMMA HasLeast ==
  ASSUME NEW S \in SUBSET Nat, S # {}
  PROVE  \E x \in S : \A y \in S : x <= y
<1> DEFINE R == OpToRel(<, Nat)
<1>1. IsWellFoundedOn(R, Nat)
  BY NatLessThanWellFounded
<1>2. \A x, y \in Nat : <<x, y>> \in R <=> x < y
  BY DEF OpToRel
<1> HIDE DEF R
<1>3. PICK x \in S : \A y \in S : ~ (<<y, x>> \in R)
  BY <1>1, WFMin
<1>4. S \subseteq Nat
  OBVIOUS
<1>5. \A y \in S : ~ (y < x)
  BY <1>2, <1>3, <1>4
<1>6. QED
  BY <1>4, <1>5

LEMMA UnitsType ==
  /\ PAGE_UNITS \in Nat /\ PAGE_UNITS > 0
  /\ MODULE_UNITS \in Nat /\ MODULE_UNITS > 0 /\ MODULE_UNITS = 2 * PAGE_UNITS
  /\ RAM_BASE \in Nat /\ ZeroJump \in Nat /\ KSEG0 \in Nat /\ Unmapped \in Nat
  /\ KSEG0 < Unmapped /\ MODULE_PAGE_COUNT \in Nat
BY AddressAssumption, TlbAssumption, PageCountAssumption DEF MODULE_UNITS

LEMMA ModuleAddresses ==
  ASSUME NEW m \in Modules
  PROVE  /\ VirtualPage[m] \in Nat /\ Virtual(m) \in Nat
         /\ Virtual(m) = VirtualPage[m] * MODULE_UNITS
         /\ ZeroJump + PAGE_UNITS < Virtual(m)
         /\ Virtual(m) + MODULE_PAGE_COUNT * MODULE_UNITS < KSEG0
<1>1. VirtualPage[m] \in Nat
  BY VirtualPageAssumption
<1>2. QED
  BY <1>1, UnitsType, AddressAssumption DEF Virtual

(* An entry answers for its own pages, and for the first address after them, and
   what it answers is as far from the first page as the address was: at the end of
   the first page of the pair as well as at the end of the second. *)
LEMMA PairTranslates ==
  ASSUME NEW e, NEW c \in {1, 4}, NEW v \in Nat, NEW i \in Nat, NEW addr \in Int,
         e.page_count = c, e.vaddr = v, e.paddr = i, i + c <= MODULE_PAGE_COUNT
  PROVE  /\ Matches(PairFor(e), addr) <=>
              v * MODULE_UNITS <= addr /\ addr <= v * MODULE_UNITS + c * MODULE_UNITS
         /\ Translation(PairFor(e), addr) =
              (KSEG0 + RAM_BASE + i * MODULE_UNITS + addr) - v * MODULE_UNITS
<1> DEFINE size == c * PAGE_UNITS
           at == v * MODULE_UNITS
           base == RAM_BASE + i * MODULE_UNITS
<1>1. PairFor(e) = [pagesize |-> size, vaddr |-> at, evenpaddr |-> base,
                    oddpaddr |-> base + size]
  BY DEF PairFor, Mapping
<1>2. size \in Nat /\ size > 0 /\ at \in Nat /\ base \in Nat /\ 2 * size = c * MODULE_UNITS
  BY UnitsType
<1>3. base + size < Unmapped
  <2>1. (i + c) * MODULE_UNITS <= MODULE_PAGE_COUNT * MODULE_UNITS
    BY UnitsType, TimesGrow
  <2>2. (i + c) * MODULE_UNITS = i * MODULE_UNITS + c * MODULE_UNITS
    BY UnitsType, TimesAdd
  <2>3. RAM_BASE + MODULE_PAGE_COUNT * MODULE_UNITS < KSEG0
    BY AddressAssumption
  <2>4. i * MODULE_UNITS \in Int /\ c * MODULE_UNITS \in Int
        /\ MODULE_PAGE_COUNT * MODULE_UNITS \in Int
    BY UnitsType
  <2>5. QED
    BY <1>2, <2>1, <2>2, <2>3, <2>4, UnitsType
<1> HIDE DEF size, at, base
<1>4. tlb_count(PairFor(e)) = 2
  BY <1>1, <1>2, <1>3, UnitsType DEF tlb_count
<1>5. Lower(PairFor(e)) = base /\ Higher(PairFor(e)) = base + size
  BY <1>1, <1>2 DEF Lower, Higher
<1>6. Matches(PairFor(e), addr) <=> at <= addr /\ addr <= at + 2 * size
  BY <1>1, <1>2, <1>4 DEF Matches
<1>7. Translation(PairFor(e), addr) = (KSEG0 + base + addr) - at
  BY <1>1, <1>2, <1>5, UnitsType DEF Translation
<1>8. KSEG0 + base = KSEG0 + RAM_BASE + i * MODULE_UNITS
  BY UnitsType DEF base
<1>9. QED
  BY <1>2, <1>6, <1>7, <1>8 DEF at

LEMMA LoadedHasRun ==
  ASSUME TlbInv, NEW m \in Modules
  PROVE  /\ Firsts(m) \subseteq OwnedBy(m)
         /\ m \in Loaded => \E base \in Nat, count \in PageCounts : Run(m, base, count)
BY DEF TlbInv, RunsOK, Firsts

(* An entry lies within the run of its module. *)
LEMMA EntrySpan ==
  ASSUME TlbInv, NEW m \in Modules, NEW base \in Nat, NEW count \in PageCounts,
         Run(m, base, count), NEW i \in Firsts(m)
  PROVE  /\ D_800CA668[i].page_count \in {1, 4} /\ i \in Nat /\ i \in Slots
         /\ base <= i /\ i + D_800CA668[i].page_count <= base + count
         /\ D_800CA668[i].vaddr = VirtualPage[m] + (i - base)
         /\ D_800CA668[i].paddr = i
<1>1. /\ i \in Slots /\ D_800CA668[i].module_id = m /\ m # NoModule
      /\ D_800CA668[i] \in PageEntry /\ D_800CA668[i].page_count # 0
      /\ count \in Nat /\ i \in base .. base + count - 1
      /\ Slots \subseteq Nat
  BY PageCountAssumption, ModulesAssumption
     DEF TlbInv, PagesInv, PagesTypeOK, Run, Firsts, OwnedBy, NoModule, Slots
<1>2. D_800CA668[i].page_count \in {1, 4}
  BY <1>1 DEF PageEntry
<1>3. D_800CA668[i].paddr = i
  BY <1>1 DEF TlbInv, PagesInv, InStep, module_page_paddr
<1>4. i + D_800CA668[i].page_count <= base + count
  <2>1. CASE D_800CA668[i].page_count = 1
    BY <1>1, <2>1
  <2>2. CASE D_800CA668[i].page_count = 4
    <3>1. /\ i % 4 = 0 /\ i + 3 \in Slots
          /\ D_800CA668[i + 3].module_id = m
      <4>1. /\ i % 4 = 0 /\ i - (i % 4) + 3 \in Slots
            /\ \A j \in i - (i % 4) .. i - (i % 4) + 3 : D_800CA668[j].module_id = m
        <5>1. i \in Slots /\ D_800CA668[i].module_id # NoModule
              /\ D_800CA668[i].page_count # 1 /\ EntriesOK
          BY <1>1, <2>2 DEF TlbInv, PagesInv
        <5>2. QED
          BY <1>1, <2>2, <5>1 DEF EntriesOK
      <4>2. i - (i % 4) + 3 = i + 3 /\ i + 3 \in i - (i % 4) .. i - (i % 4) + 3
        BY <1>1, <4>1
      <4>3. QED
        BY <4>1, <4>2
    <3>2. i + 3 \in base .. base + count - 1
      BY <3>1 DEF OwnedBy, Run
    <3>3. QED
      BY <1>1, <2>2, <3>2
  <2>3. QED
    BY <1>2, <2>1, <2>2
<1>5. QED
  BY <1>1, <1>2, <1>3, <1>4 DEF Run, Firsts

(* Every page of a module is covered by one of its entries. *)
LEMMA PageCovered ==
  ASSUME TlbInv, NEW m \in Modules, NEW i \in OwnedBy(m)
  PROVE  \E j \in Firsts(m) : j <= i /\ i < j + D_800CA668[j].page_count
<1>1. /\ i \in Slots /\ D_800CA668[i].module_id = m /\ m # NoModule /\ i \in Nat
      /\ Slots \subseteq Nat
  BY PageCountAssumption, ModulesAssumption DEF OwnedBy, NoModule, Slots
<1>2. CASE D_800CA668[i].page_count = 1
  BY <1>1, <1>2 DEF Firsts
<1>3. CASE D_800CA668[i].page_count # 1
  <2> DEFINE j == i - (i % 4)
  <2>1. /\ j + 3 \in Slots
        /\ \A k \in j .. j + 3 :
             D_800CA668[k].module_id = m /\ D_800CA668[k].page_count # 1
    BY <1>1, <1>3 DEF TlbInv, PagesInv, EntriesOK
  <2>2. j \in Nat /\ j % 4 = 0 /\ j <= i /\ i <= j + 3
    BY <1>1
  <2>3. j \in Slots
    BY <1>1, <2>1, <2>2, PageCountAssumption DEF Slots
  <2>4. D_800CA668[j].module_id = m /\ D_800CA668[j].page_count # 1
    BY <2>1, <2>2
  <2> HIDE DEF j
  <2>5. D_800CA668[j].page_count = 4
    BY <1>1, <2>2, <2>3, <2>4 DEF TlbInv, PagesInv, EntriesOK
  <2>6. j \in Firsts(m)
    BY <2>3, <2>4, <2>5 DEF Firsts, OwnedBy
  <2>7. QED
    BY <1>1, <2>2, <2>5, <2>6
<1>4. QED
  BY <1>2, <1>3

(* What the entry at slot i of a module answers: the same linear function of the
   address for all entries of the module. *)
LEMMA EntryAnswers ==
  ASSUME TlbInv, NEW m \in Modules, NEW base \in Nat, NEW count \in PageCounts,
         Run(m, base, count), NEW i \in Firsts(m), NEW addr \in Int
  PROVE  LET n == D_800CA668[i].page_count
             e == PairFor(D_800CA668[i]) IN
         /\ Matches(e, addr) <=>
              /\ Virtual(m) + (i - base) * MODULE_UNITS <= addr
              /\ addr <= Virtual(m) + (i - base + n) * MODULE_UNITS
         /\ Translation(e, addr) =
              (KSEG0 + RAM_BASE + base * MODULE_UNITS + addr) - Virtual(m)
<1> DEFINE n == D_800CA668[i].page_count
           v == VirtualPage[m] + (i - base)
           U == MODULE_UNITS
<1>1. /\ n \in {1, 4} /\ i \in Nat /\ base <= i /\ i + n <= base + count
      /\ D_800CA668[i].vaddr = v /\ D_800CA668[i].paddr = i
  BY EntrySpan
<1>2. base + count <= MODULE_PAGE_COUNT /\ count \in Nat /\ U \in Nat
      /\ MODULE_PAGE_COUNT \in Nat /\ VirtualPage[m] \in Nat
      /\ Virtual(m) = VirtualPage[m] * U
  BY UnitsType, ModuleAddresses, PageCountAssumption DEF Run
<1>3. v \in Nat /\ n \in Nat /\ i + n <= MODULE_PAGE_COUNT
  BY <1>1, <1>2
<1>4. /\ v * U = Virtual(m) + (i - base) * U
      /\ (i - base + n) * U = (i - base) * U + n * U
      /\ (i - base) * U = i * U - base * U
      /\ (i - base) * U \in Int /\ n * U \in Int /\ i * U \in Int /\ base * U \in Int
  <2>1. i - base \in Int
    BY <1>1
  <2>2. QED
    BY <1>1, <1>2, <1>3, <2>1, TimesAdd
<1>5. /\ Matches(PairFor(D_800CA668[i]), addr) <=>
           v * U <= addr /\ addr <= v * U + n * U
      /\ Translation(PairFor(D_800CA668[i]), addr) =
           (KSEG0 + RAM_BASE + i * U + addr) - v * U
  <2> DEFINE e == D_800CA668[i]
  <2>1. e.page_count = n /\ e.vaddr = v /\ e.paddr = i
    BY <1>1
  <2> HIDE DEF e, n, v
  <2>2. QED
    BY <1>1, <1>3, <2>1, PairTranslates DEF e
<1> HIDE DEF n, v, U
<1>6. QED
  BY <1>2, <1>4, <1>5, UnitsType DEF n, U

(* Who answers for the addresses of a module: only modules linked for them. *)
LEMMA HitsBelong ==
  ASSUME TlbInv, NEW m \in Modules, NEW addr \in Int, Virtual(m) <= addr,
         addr <= Virtual(m) + MODULE_PAGE_COUNT * MODULE_UNITS, NEW t \in Hits(addr)
  PROVE  /\ t \in Indices /\ D_800AD1F0[t] \in Mapped
         /\ VirtualPage[D_800AD1F0[t]] = VirtualPage[m]
<1> DEFINE U == MODULE_UNITS
           MPC == MODULE_PAGE_COUNT
<1>1. /\ t \in Indices /\ Matches(gTLBTable[t], addr) /\ Mine(t)
      /\ D_800AD1F0[t] \in Modules \cup {NoModule}
      /\ ZeroJump + PAGE_UNITS < addr /\ ZeroJump \in Nat /\ PAGE_UNITS \in Nat
  BY UnitsType, ModuleAddresses DEF Hits, TlbInv
<1>2. D_800AD1F0[t] # NoModule
  <2>1. SUFFICES ASSUME gTLBTable[t] \in {ZeroEntry, ZeroJumpEntry} PROVE FALSE
    BY <1>1 DEF Mine
  <2>2. CASE gTLBTable[t] = ZeroEntry
    BY <1>1, <2>2, UnitsType DEF Matches, ZeroEntry, tlb_count
  <2>3. CASE gTLBTable[t] = ZeroJumpEntry
    BY <1>1, <2>3, UnitsType DEF Matches, ZeroJumpEntry, Mapping, tlb_count
  <2>4. QED
    BY <2>1, <2>2, <2>3
<1>3. PICK n \in Modules : n = D_800AD1F0[t]
  BY <1>1, <1>2
<1>4. PICK i \in Firsts(n) : gTLBTable[t] = PairFor(D_800CA668[i])
  BY <1>1, <1>2, <1>3 DEF Mine
<1>5. n \in Mapped
  BY <1>1, <1>3, <1>4 DEF Mapped, Loaded, Firsts, TlbOf
<1>6. PICK base \in Nat, count \in PageCounts : Run(n, base, count)
  BY <1>5, LoadedHasRun DEF Mapped
<1> DEFINE c == D_800CA668[i].page_count
<1>7. /\ c \in Nat /\ i \in Nat /\ count \in Nat /\ base <= i /\ i + c <= base + count
      /\ base + count <= MPC
  <2>1. c \in {1, 4} /\ i \in Nat /\ base <= i /\ i + c <= base + count
    BY <1>6, EntrySpan
  <2>2. count \in Nat /\ base + count <= MPC
    BY <1>6, PageCountAssumption DEF Run
  <2>3. QED
    BY <2>1, <2>2
<1>8. /\ Virtual(n) + (i - base) * U <= addr
      /\ addr <= Virtual(n) + (i - base + c) * U
  BY <1>1, <1>4, <1>6, EntryAnswers
<1> HIDE DEF c
<1>9. /\ U \in Nat /\ U > 0 /\ MPC \in Nat /\ i - base \in Nat /\ i - base + c \in Nat
      /\ i - base + c <= MPC
  BY <1>7, UnitsType
<1>10. (i - base) * U >= 0 /\ (i - base + c) * U <= MPC * U
  BY <1>9, TimesGrow
<1>11. /\ VirtualPage[m] \in Nat /\ VirtualPage[n] \in Nat
       /\ Virtual(m) = VirtualPage[m] * U /\ Virtual(n) = VirtualPage[n] * U
       /\ Virtual(m) \in Int /\ Virtual(n) \in Int
  BY ModuleAddresses
<1>12. /\ MPC * U \in Int /\ (i - base) * U \in Int /\ (i - base + c) * U \in Int
  BY <1>9
<1> HIDE DEF U, MPC
<1>13. Virtual(n) <= addr /\ addr <= Virtual(n) + MPC * U
  BY <1>8, <1>10, <1>11, <1>12
<1>14. ASSUME NEW a \in {m, n}, NEW b \in {m, n}, VirtualPage[a] < VirtualPage[b]
       PROVE  Virtual(a) + MPC * U < Virtual(b)
  <2>1. VirtualPage[a] + MPC + 1 <= VirtualPage[b]
    BY <1>9, <1>11, <1>14, VirtualPageAssumption DEF MPC
  <2>2. (VirtualPage[a] + MPC + 1) * U <= VirtualPage[b] * U
    BY <1>9, <1>11, <2>1, TimesGrow
  <2>3. (VirtualPage[a] + MPC + 1) * U = VirtualPage[a] * U + MPC * U + U
    BY <1>9, <1>11
  <2>4. QED
    BY <1>9, <1>11, <1>12, <2>2, <2>3
<1>15. ~ (VirtualPage[n] < VirtualPage[m]) /\ ~ (VirtualPage[m] < VirtualPage[n])
  BY <1>11, <1>12, <1>13, <1>14 DEF U, MPC
<1>16. QED
  BY <1>1, <1>3, <1>5, <1>11, <1>15

(* An address of a module all of whose entries are mapped is as far from where its
   pages begin as from its first address. *)
LEMMA LookupWhole ==
  ASSUME TlbInv, NEW m \in Loaded, Whole(m), NEW base \in Nat, NEW count \in PageCounts,
         Run(m, base, count), NEW offset \in Nat, offset < count * MODULE_UNITS
  PROVE  _tlb_lookup(Virtual(m) + offset) =
           KSEG0 + RAM_BASE + base * MODULE_UNITS + offset
<1> DEFINE U == MODULE_UNITS
           addr == Virtual(m) + offset
           k == offset \div U
           there == KSEG0 + RAM_BASE + base * U + offset
<1>1. /\ m \in Modules /\ U \in Nat /\ U > 0 /\ count \in Nat /\ base + count <= MODULE_PAGE_COUNT
      /\ MODULE_PAGE_COUNT \in Nat /\ Virtual(m) \in Nat
      /\ Virtual(m) + MODULE_PAGE_COUNT * U < KSEG0
  BY UnitsType, ModuleAddresses, PageCountAssumption DEF Loaded, Run
<1>2. count * U <= MODULE_PAGE_COUNT * U
  BY <1>1, TimesGrow
<1>3. count * U \in Int /\ MODULE_PAGE_COUNT * U \in Int /\ base * U \in Int
  BY <1>1
<1>4. /\ addr \in Int /\ Virtual(m) <= addr /\ addr < KSEG0
      /\ addr <= Virtual(m) + MODULE_PAGE_COUNT * U
  BY <1>1, <1>2, <1>3, UnitsType
<1>5. ASSUME NEW t \in Hits(addr)
      PROVE  Translation(gTLBTable[t], addr) = there
  <2>1. /\ t \in Indices /\ D_800AD1F0[t] \in Mapped
        /\ VirtualPage[D_800AD1F0[t]] = VirtualPage[m]
    <3> HIDE DEF addr
    <3>1. QED
      BY <1>1, <1>4, HitsBelong
  <2>2. D_800AD1F0[t] = m
    BY <2>1 DEF Mapped, TlbInv, Apart
  <2>3. PICK i \in Firsts(m) : gTLBTable[t] = PairFor(D_800CA668[i])
    BY <2>1, <2>2, <1>1, ModulesAssumption DEF TlbInv, Mine, NoModule
  <2>4. Translation(gTLBTable[t], addr) = (KSEG0 + RAM_BASE + base * U + addr) - Virtual(m)
    BY <1>1, <1>4, <2>3, EntryAnswers
  <2>5. QED
    BY <1>1, <1>3, <2>4, UnitsType
<1>6. Hits(addr) # {}
  <2>1. k \in Nat /\ k * U <= offset /\ offset < k * U + U
    <3>1. /\ k \in Int /\ offset % U \in 0 .. U - 1
          /\ offset = k * U + (offset % U)
      BY <1>1, QuotientParts
    <3>2. k * U \in Int
      BY <1>1, <3>1
    <3>3. k >= 0
      <4>1. SUFFICES ASSUME k + 1 <= 0 PROVE FALSE
        BY <3>1
      <4>2. (k + 1) * U <= 0 * U
        BY <1>1, <3>1, <4>1, TimesGrow
      <4>3. QED
        BY <1>1, <3>1, <3>2, <4>2
    <3>4. QED
      BY <1>1, <3>1, <3>2, <3>3
  <2> HIDE DEF k
  <2>2. k < count
    <3>1. SUFFICES ASSUME count <= k PROVE FALSE
      BY <1>1, <2>1
    <3>2. count * U <= k * U
      BY <1>1, <2>1, <3>1, TimesGrow
    <3>3. QED
      BY <1>1, <1>3, <2>1, <3>2
  <2>3. base + k \in OwnedBy(m)
    BY <1>1, <2>1, <2>2 DEF Run
  <2>4. PICK j \in Firsts(m) : j <= base + k /\ base + k < j + D_800CA668[j].page_count
    BY <1>1, <2>3, PageCovered
  <2>5. PICK t \in TlbOf(m) : gTLBTable[t] = PairFor(D_800CA668[j])
    BY <2>4 DEF Whole
  <2> DEFINE n == D_800CA668[j].page_count
  <2>6. n \in Nat /\ j \in Nat /\ base <= j
    BY <1>1, EntrySpan
  <2>7. /\ Matches(gTLBTable[t], addr) <=>
            /\ Virtual(m) + (j - base) * U <= addr
            /\ addr <= Virtual(m) + (j - base + n) * U
    BY <1>1, <1>4, <2>5, EntryAnswers
  <2> HIDE DEF n
  <2>8. j - base <= k /\ k + 1 <= j - base + n /\ j - base \in Int /\ j - base + n \in Int
    BY <2>1, <2>4, <2>6 DEF n
  <2>9. (j - base) * U <= k * U /\ (k + 1) * U <= (j - base + n) * U
    BY <1>1, <2>1, <2>8, TimesGrow
  <2>10. (k + 1) * U = k * U + U /\ k * U \in Int
         /\ (j - base) * U \in Int /\ (j - base + n) * U \in Int
    BY <1>1, <2>1, <2>8
  <2>11. Matches(gTLBTable[t], addr)
    BY <1>1, <2>1, <2>7, <2>9, <2>10
  <2>12. QED
    BY <2>5, <2>11 DEF Hits, TlbOf
<1> DEFINE hits == Hits(addr)
<1>7. PICK t \in hits : \A u \in hits : t <= u
  <2>1. hits \in SUBSET Nat
    BY TlbAssumption DEF Hits, Indices
  <2> HIDE DEF hits
  <2>2. QED
    BY <1>6, <2>1, HasLeast DEF hits
<1>8. (CHOOSE x \in hits : \A u \in hits : x <= u) \in hits
  BY <1>7
<1>9. _tlb_lookup(addr) = there
  <2>1. ~ (addr >= KSEG0)
    BY <1>4, UnitsType
  <2> HIDE DEF addr, there
  <2>2. QED
    BY <1>5, <1>6, <1>8, <2>1 DEF _tlb_lookup
<1>10. QED
  BY <1>9

(* Of a module that is not mapped, and for whose addresses none is, an address
   leads to itself. *)
LEMMA LookupNone ==
  ASSUME TlbInv, NEW m \in Modules,
         \A n \in Mapped : VirtualPage[n] # VirtualPage[m]
  PROVE  _tlb_lookup(Virtual(m)) = Virtual(m)
<1>1. /\ Virtual(m) \in Nat /\ MODULE_UNITS \in Nat /\ MODULE_PAGE_COUNT \in Nat
  BY UnitsType, ModuleAddresses
<1>2. MODULE_PAGE_COUNT * MODULE_UNITS >= 0 /\ MODULE_PAGE_COUNT * MODULE_UNITS \in Int
  BY <1>1
<1>3. Virtual(m) <= Virtual(m) + MODULE_PAGE_COUNT * MODULE_UNITS
  BY <1>1, <1>2
<1>4. Hits(Virtual(m)) = {}
  BY <1>1, <1>3, HitsBelong
<1>5. QED
  BY <1>4 DEF _tlb_lookup
-----------------------------------------------------------------------------
(***************************************************************************)
(* The steps of the page table and the TLB.                                *)
(***************************************************************************)
Untouched(n) ==
  /\ OwnedBy(n)' = OwnedBy(n)
  /\ \A i \in OwnedBy(n) : D_800CA668'[i] = D_800CA668[i]

LEMMA UntouchedSame ==
  ASSUME NEW n \in Modules, Untouched(n)
  PROVE  /\ Firsts(n)' = Firsts(n) /\ (n \in Loaded' <=> n \in Loaded)
         /\ \A i \in Firsts(n) : PairFor(D_800CA668[i])' = PairFor(D_800CA668[i])
         /\ \A base, count : Run(n, base, count)' <=> Run(n, base, count)
<1>1. Firsts(n)' = Firsts(n)
  BY DEF Untouched, Firsts
<1>2. n \in Loaded' <=> n \in Loaded
  BY DEF Untouched, Loaded
<1>3. \A i \in Firsts(n) : PairFor(D_800CA668[i])' = PairFor(D_800CA668[i])
  BY DEF Untouched, Firsts, PairFor, Mapping
<1>4. \A base, count : Run(n, base, count)' <=> Run(n, base, count)
  BY DEF Untouched, Run
<1>5. QED
  BY <1>1, <1>2, <1>3, <1>4

LEMMA LoadedModules ==
  ASSUME PagesInv
  PROVE  /\ \A i \in Slots : D_800CA668[i].module_id # NoModule =>
              D_800CA668[i].module_id \in Loaded
         /\ Loaded \subseteq Modules /\ NoModule \notin Modules
<1>1. \A i \in Slots : D_800CA668[i] \in PageEntry
  BY DEF PagesInv, PagesTypeOK
<1>2. QED
  BY <1>1, ModulesAssumption DEF PageEntry, Loaded, OwnedBy, NoModule

LEMMA TakeRuns ==
  ASSUME PagesInv, NEW id \in Modules, id \notin Loaded, NEW count \in PageCounts,
         NEW start \in Fitting(count), TakesPages(start, count, VirtualPage[id], id)
  PROVE  /\ Run(id, start, count)' /\ OwnedBy(id)' # {}
         /\ \A n \in Modules \ {id} : Untouched(n)
<1> DEFINE Taken == start .. start + count - 1
<1>1. /\ count \in Nat /\ count > 0 /\ start \in Nat
      /\ start + count <= MODULE_PAGE_COUNT
      /\ \A i \in Taken : i \in Slots /\ D_800CA668[i].module_id = NoModule
  BY FittingFacts
<1>2. NoModule \notin Modules /\ \A i \in Slots : D_800CA668[i].module_id # id
  BY LoadedModules DEF Loaded, OwnedBy
<1>3. /\ \A i \in Taken : /\ D_800CA668'[i].module_id = id
                          /\ D_800CA668'[i].vaddr = VirtualPage[id] + (i - start)
      /\ \A i \in Slots \ Taken : D_800CA668'[i] = D_800CA668[i]
  BY <1>1 DEF TakesPages, Entry
<1> HIDE DEF Taken
<1>4. OwnedBy(id)' = Taken
  BY <1>1, <1>2, <1>3 DEF OwnedBy
<1>5. Run(id, start, count)'
  BY <1>1, <1>3, <1>4 DEF Run, Taken
<1>6. start \in OwnedBy(id)'
  BY <1>1, <1>4 DEF Taken
<1>7. ASSUME NEW n \in Modules \ {id}
      PROVE  Untouched(n)
  BY <1>1, <1>2, <1>3 DEF Untouched, OwnedBy
<1>8. QED
  BY <1>5, <1>6, <1>7

LEMMA FreeRuns ==
  ASSUME NEW id \in Modules, FreePages(id)
  PROVE  OwnedBy(id)' = {} /\ \A n \in Modules \ {id} : Untouched(n)
<1>1. NoModule \notin Modules
  BY ModulesAssumption DEF NoModule
<1>2. /\ \A i \in OwnedBy(id) : D_800CA668'[i].module_id = NoModule
      /\ \A i \in Slots \ OwnedBy(id) : D_800CA668'[i] = D_800CA668[i]
  BY DEF FreePages, OwnedBy, FreeEntry
<1>3. QED
  BY <1>1, <1>2 DEF Untouched, OwnedBy

(* Different entries of a module are mapped differently. *)
LEMMA PairsDiffer ==
  ASSUME TlbInv, NEW m \in Modules, NEW i \in Firsts(m), NEW j \in Firsts(m),
         PairFor(D_800CA668[i]) = PairFor(D_800CA668[j])
  PROVE  i = j
<1>1. m \in Loaded
  BY DEF Loaded, Firsts
<1>2. PICK base \in Nat, count \in PageCounts : Run(m, base, count)
  BY <1>1, LoadedHasRun
<1> DEFINE a == VirtualPage[m] + (i - base)
           b == VirtualPage[m] + (j - base)
<1>3. /\ i \in Nat /\ j \in Nat /\ VirtualPage[m] \in Nat
      /\ D_800CA668[i].vaddr = a /\ D_800CA668[j].vaddr = b
  BY <1>2, EntrySpan, ModuleAddresses
<1>4. a * MODULE_UNITS = b * MODULE_UNITS
  <2>1. \A e : PairFor(e).vaddr = e.vaddr * MODULE_UNITS
    BY DEF PairFor, Mapping
  <2>2. QED
    BY <1>3, <2>1
<1>5. a \in Int /\ b \in Int
  BY <1>3
<1>6. a = b
  <2> HIDE DEF a, b
  <2>1. ASSUME NEW x \in Int, NEW y \in Int, x < y, x * MODULE_UNITS = y * MODULE_UNITS
        PROVE  FALSE
    <3>1. (x + 1) * MODULE_UNITS <= y * MODULE_UNITS
      BY <2>1, UnitsType, TimesGrow
    <3>2. (x + 1) * MODULE_UNITS = x * MODULE_UNITS + MODULE_UNITS
      BY UnitsType
    <3>3. x * MODULE_UNITS \in Int
      BY UnitsType
    <3>4. QED
      BY <2>1, <3>1, <3>2, <3>3, UnitsType
  <2>2. ~ (a < b) /\ ~ (b < a)
    BY <1>4, <1>5, <2>1
  <2>3. QED
    BY <1>5, <2>2
<1>7. QED
  BY <1>3, <1>6

(* moduleMapTLB gives entries of the module, or all of them, a free place each. *)
MapsInto(id, done, used) ==
  /\ done \subseteq Firsts(id) /\ used \subseteq FreeTlb
  /\ \A t \in used :
       /\ D_800AD1F0'[t] = id
       /\ \E i \in done : gTLBTable'[t] = PairFor(D_800CA668[i])
  /\ \A i \in done : \E t \in used : gTLBTable'[t] = PairFor(D_800CA668[i])
  /\ \A t, u \in used : gTLBTable'[t] = gTLBTable'[u] => t = u
  /\ \A t \in Indices \ used :
       gTLBTable'[t] = gTLBTable[t] /\ D_800AD1F0'[t] = D_800AD1F0[t]
  /\ stopped' = (done # Firsts(id))
  /\ done # {} \/ done # Firsts(id)

LEMMA MapsPairs ==
  ASSUME TlbInv, NEW id \in Modules, moduleMapTLB(id)
  PROVE  /\ \E done, used : MapsInto(id, done, used)
         /\ gTLBTable' = [t \in Indices |-> gTLBTable'[t]]
         /\ D_800AD1F0' = [t \in Indices |-> D_800AD1F0'[t]]
<1>1. PICK done \in SUBSET Firsts(id) :
        \E tlb \in [done -> FreeTlb] :
            /\ Increasing(tlb)
            /\ gTLBTable' = [t \in Indices |->
                 IF t \in Used(tlb)
                 THEN PairFor(D_800CA668[CHOOSE i \in done : tlb[i] = t])
                 ELSE gTLBTable[t]]
            /\ D_800AD1F0' = [t \in Indices |->
                 IF t \in Used(tlb) THEN id ELSE D_800AD1F0[t]]
            /\ stopped' = (done # Firsts(id))
  BY DEF moduleMapTLB
<1>2. PICK tlb \in [done -> FreeTlb] :
            /\ Increasing(tlb)
            /\ gTLBTable' = [t \in Indices |->
                 IF t \in Used(tlb)
                 THEN PairFor(D_800CA668[CHOOSE i \in done : tlb[i] = t])
                 ELSE gTLBTable[t]]
            /\ D_800AD1F0' = [t \in Indices |->
                 IF t \in Used(tlb) THEN id ELSE D_800AD1F0[t]]
            /\ stopped' = (done # Firsts(id))
  BY <1>1
<1>3. Used(tlb) \subseteq FreeTlb /\ FreeTlb \subseteq Indices /\ Indices \subseteq Nat
  <2>1. Used(tlb) \subseteq FreeTlb
    BY DEF Used
  <2>2. QED
    BY <2>1, TlbAssumption DEF FreeTlb, Indices
<1>4. done \subseteq Nat
  BY PageCountAssumption DEF Firsts, OwnedBy, Slots
<1>5. \A i, j \in done : tlb[i] = tlb[j] => i = j
  <2>1. \A i, j \in done : i < j => tlb[i] < tlb[j]
    BY <1>2 DEF Increasing
  <2>2. \A i \in done : tlb[i] \in Nat
    BY <1>3
  <2>3. QED
    BY <1>4, <2>1, <2>2
<1>6. \A i \in done : (CHOOSE j \in done : tlb[j] = tlb[i]) = i
  BY <1>5
<1>7. \A i \in done : tlb[i] \in Used(tlb) /\ tlb[i] \in Indices
                      /\ gTLBTable'[tlb[i]] = PairFor(D_800CA668[i])
  BY <1>2, <1>3, <1>6 DEF Used
<1>8. \A t \in Used(tlb) : \E i \in done : t = tlb[i]
  BY DEF Used
<1>9. \A t, u \in Used(tlb) : gTLBTable'[t] = gTLBTable'[u] => t = u
  BY <1>7, <1>8, PairsDiffer
<1>10. /\ \A t \in Used(tlb) : D_800AD1F0'[t] = id
       /\ \A t \in Indices \ Used(tlb) :
            gTLBTable'[t] = gTLBTable[t] /\ D_800AD1F0'[t] = D_800AD1F0[t]
  BY <1>2, <1>3
<1>11. done # {} \/ done # Firsts(id)
  <2>1. PICK i \in OwnedBy(id) : TRUE
    BY DEF moduleMapTLB, Loaded
  <2>2. Firsts(id) # {}
    BY <2>1, PageCovered
  <2>3. QED
    BY <2>2
<1>12. MapsInto(id, done, Used(tlb))
  <2>1. stopped' = (done # Firsts(id))
    BY <1>2
  <2>2. \A t \in Used(tlb) :
          D_800AD1F0'[t] = id /\ \E i \in done : gTLBTable'[t] = PairFor(D_800CA668[i])
    BY <1>7, <1>8, <1>10
  <2>3. \A i \in done : \E t \in Used(tlb) : gTLBTable'[t] = PairFor(D_800CA668[i])
    BY <1>7
  <2>4. done \subseteq Firsts(id)
    OBVIOUS
  <2>5. QED
    BY <1>3, <1>9, <1>10, <1>11, <2>1, <2>2, <2>3, <2>4, Zenon DEF MapsInto
<1>13. QED
  BY <1>2, <1>12

(* A module whose pages and TLB entries a step leaves alone. *)
SameTlbOf(n) == TlbOf(n)' = TlbOf(n) /\ \A t \in TlbOf(n) : gTLBTable'[t] = gTLBTable[t]

LEMMA SameWhole ==
  ASSUME NEW n \in Modules, Untouched(n), SameTlbOf(n)
  PROVE  Whole(n)' <=> Whole(n)
<1>1. Whole(n)' <=> \A i \in Firsts(n)' : \E t \in TlbOf(n)' :
                      gTLBTable'[t] = PairFor(D_800CA668'[i])
  BY DEF Whole
<1>2. QED
  BY <1>1, UntouchedSame DEF Whole, SameTlbOf

LEMMA TlbFacts ==
  ASSUME TlbInv
  PROVE  /\ Loaded \subseteq Modules /\ NoModule \notin Modules
         /\ \A t \in Indices : D_800AD1F0[t] # NoModule =>
              D_800AD1F0[t] \in Mapped /\ D_800AD1F0[t] \in Modules
<1>1. Loaded \subseteq Modules /\ NoModule \notin Modules
  BY LoadedModules DEF TlbInv
<1>2. ASSUME NEW t \in Indices, D_800AD1F0[t] # NoModule
      PROVE  D_800AD1F0[t] \in Mapped /\ D_800AD1F0[t] \in Modules
  BY <1>2 DEF TlbInv, Mine, Mapped, Loaded, Firsts, TlbOf
<1>3. QED
  BY <1>1, <1>2

LEMMA TlbInvInit == Init => TlbInv
<1> SUFFICES ASSUME Init PROVE TlbInv
  OBVIOUS
<1>1. \A m \in Modules : OwnedBy(m) = {}
  BY ModulesAssumption DEF Init, PagesInit, FreeEntry, OwnedBy, NoModule
<1>2. Loaded = {}
  BY <1>1 DEF Loaded
<1>3. \A t \in Indices : D_800AD1F0[t] = NoModule /\ gTLBTable[t] = ZeroEntry
  BY DEF Init, TlbInit
<1>4. gTLBTable = [t \in Indices |-> gTLBTable[t]]
  BY DEF Init, TlbInit
<1>5. D_800AD1F0 \in [Indices -> Modules \cup {NoModule}]
  BY DEF Init
<1>6. QED
  BY <1>2, <1>3, <1>4, <1>5, PagesInvInit
     DEF Init, TlbInv, RunsOK, Apart, Once, Mine, Mapped

(* Nothing but that there was an errstop. *)
LEMMA TlbSame ==
  ASSUME TlbInv, UNCHANGED <<D_800CA668, gTLBTable, D_800AD1F0, booted>>,
         stopped' \in {stopped, TRUE}
  PROVE  TlbInv'
<1>1. PagesInv'
  BY DEF TlbInv, PagesInv, PagesTypeOK, EntriesOK, InStep
<1>2. /\ Loaded' = Loaded /\ Mapped' = Mapped
      /\ \A m : OwnedBy(m)' = OwnedBy(m) /\ Firsts(m)' = Firsts(m) /\ TlbOf(m)' = TlbOf(m)
      /\ \A m, base, count : Run(m, base, count)' <=> Run(m, base, count)
  BY DEF Loaded, Mapped, Run, OwnedBy, Firsts, TlbOf
<1>3. \A t \in Indices : Mine(t)' <=> Mine(t)
  BY <1>2 DEF Mine, PairFor, Mapping, ZeroJumpEntry
<1>4. \A m : Whole(m)' <=> Whole(m)
  BY <1>2 DEF Whole, PairFor, Mapping
<1>5. ~ stopped' => ~ stopped
  BY DEF TlbInv, PagesInv, PagesTypeOK
<1>6. QED
  BY <1>1, <1>2, <1>3, <1>4, <1>5 DEF TlbInv, RunsOK, Apart, Once

(* Before zerojump is mapped no module has anything. *)
LEMMA StartKeeps ==
  ASSUME TlbInv, Boot \/ zerojumpinit
  PROVE  TlbInv'
<1>1. /\ Loaded = {} /\ UNCHANGED <<pageVars, D_800AD1F0>>
      /\ \A t \in Indices : D_800AD1F0[t] = NoModule
      /\ gTLBTable = [t \in Indices |-> gTLBTable[t]]
  BY TlbFacts DEF Boot, zerojumpinit, TlbInv, overlayVars, Mapped
<1>2. PagesInv'
  BY <1>1 DEF pageVars, TlbInv, PagesInv, PagesTypeOK, EntriesOK, InStep
<1>3. Loaded' = {}
  BY <1>1 DEF pageVars, Loaded, OwnedBy
<1>4. \A t \in Indices : gTLBTable[t] \in {ZeroEntry, ZeroJumpEntry}
  BY <1>1 DEF TlbInv, Mine
<1>5. /\ gTLBTable' = [t \in Indices |-> gTLBTable'[t]]
      /\ \A t \in Indices : gTLBTable'[t] \in {ZeroEntry, ZeroJumpEntry}
  <2>1. CASE Boot
    BY <2>1 DEF Boot, osUnmapTLBAll, osUnmapTLB
  <2>2. CASE zerojumpinit
    <3>1. gTLBTable' = [gTLBTable EXCEPT ![0] = ZeroJumpEntry]
      BY <2>2 DEF zerojumpinit, osMapTLB, ZeroJumpEntry
    <3> HIDE DEF ZeroJumpEntry, ZeroEntry
    <3>2. gTLBTable' = [t \in Indices |-> IF t = 0 THEN ZeroJumpEntry ELSE gTLBTable[t]]
      BY <1>1, <3>1
    <3>3. QED
      BY <1>4, <3>2
  <2>3. QED
    BY <2>1, <2>2
<1>6. D_800AD1F0' \in [Indices -> Modules \cup {NoModule}]
  BY <1>1 DEF TlbInv
<1>7. \A t \in Indices : Mine(t)'
  <2>1. ZeroEntry' = ZeroEntry /\ ZeroJumpEntry' = ZeroJumpEntry
    BY DEF ZeroEntry, ZeroJumpEntry, Mapping
  <2>2. QED
    BY <1>1, <1>5, <2>1 DEF Mine
<1>8. QED
  BY <1>1, <1>2, <1>3, <1>5, <1>6, <1>7 DEF TlbInv, RunsOK, Apart, Once, Mapped

LEMMA GetKeeps ==
  ASSUME TlbInv, NEW id \in Modules, NEW count \in PageCounts, GetPages(id, count)
  PROVE  TlbInv'
<1>1. /\ booted /\ id \notin Loaded
      /\ \A m \in Loaded : VirtualPage[m] # VirtualPage[id]
      /\ UNCHANGED <<gTLBTable, D_800AD1F0, booted>> /\ PagesInv
  BY DEF GetPages, overlayVars, TlbInv
<1>2. CASE stopped' = TRUE /\ UNCHANGED D_800CA668
  BY <1>1, <1>2, TlbSame
<1>3. ASSUME NEW start \in Fitting(count),
             TakesPages(start, count, VirtualPage[id], id), UNCHANGED stopped
      PROVE  TlbInv'
  <2>1. PagesInv'
    <3>1. VirtualPage[id] \in Int
      BY VirtualPageAssumption
    <3>2. QED
      BY <1>1, <1>3, <3>1, TakeKeeps
  <2>2. /\ Run(id, start, count)' /\ OwnedBy(id)' # {}
        /\ \A n \in Modules \ {id} : Untouched(n)
    BY <1>1, <1>3, TakeRuns
  <2>3. Loaded' = Loaded \cup {id} /\ Loaded \subseteq Modules
    BY <2>2, UntouchedSame DEF Loaded
  <2>4. \A n : TlbOf(n)' = TlbOf(n)
    BY <1>1 DEF TlbOf
  <2>5. TlbOf(id) = {} /\ \A t \in Indices : D_800AD1F0[t] # id
    BY <1>1, TlbFacts DEF Mapped, TlbOf
  <2>6. RunsOK'
    <3>1. start \in Nat
      BY FittingFacts
    <3>2. \A n \in Loaded : \E b \in Nat, c \in PageCounts : Run(n, b, c)'
      BY <1>1, <2>2, <2>3, UntouchedSame DEF TlbInv, RunsOK
    <3>3. QED
      BY <2>2, <2>3, <3>1, <3>2 DEF RunsOK
  <2>7. Apart'
    BY <1>1, <2>3 DEF TlbInv, Apart
  <2>8. ASSUME NEW t \in Indices
        PROVE  Mine(t)'
    <3>1. CASE D_800AD1F0[t] = NoModule
      BY <1>1, <3>1 DEF TlbInv, Mine, ZeroJumpEntry, Mapping
    <3>2. CASE D_800AD1F0[t] # NoModule
      <4>1. PICK n \in Modules \ {id} : n = D_800AD1F0[t]
        BY <2>5, <3>2, TlbFacts
      <4>2. PICK i \in Firsts(n) : gTLBTable[t] = PairFor(D_800CA668[i])
        BY <3>2, <4>1 DEF TlbInv, Mine
      <4>3. i \in Firsts(n)' /\ PairFor(D_800CA668'[i]) = PairFor(D_800CA668[i])
        BY <2>2, <4>1, UntouchedSame
      <4>4. QED
        BY <1>1, <3>2, <4>1, <4>2, <4>3 DEF Mine
    <3>3. QED
      BY <3>1, <3>2
  <2>9. ~ stopped' => \A m \in Mapped' : Whole(m)'
    <3>1. SUFFICES ASSUME ~ stopped', NEW m \in Mapped' PROVE Whole(m)'
      OBVIOUS
    <3>2. m \in Mapped /\ m \in Modules \ {id}
      BY <2>3, <2>4, <2>5, <3>1 DEF Mapped
    <3>3. Untouched(m) /\ SameTlbOf(m)
      BY <1>1, <2>2, <2>4, <3>2 DEF SameTlbOf
    <3>4. Whole(m)
      BY <1>3, <3>1, <3>2 DEF TlbInv
    <3>5. QED
      BY <3>2, <3>3, <3>4, SameWhole
  <2>10. QED
    BY <1>1, <2>1, <2>6, <2>7, <2>8, <2>9 DEF TlbInv, Once
<1>4. QED
  BY <1>2, <1>3 DEF GetPages, modulegetpages_impl

LEMMA MapKeeps ==
  ASSUME TlbInv, NEW id \in Modules, moduleMapTLB(id)
  PROVE  TlbInv'
<1>1. PICK done, used : MapsInto(id, done, used)
  BY MapsPairs
<1>2. /\ UNCHANGED <<D_800CA668, booted>> /\ id \in Loaded /\ ~ stopped
      /\ \A t \in Indices : D_800AD1F0[t] # id
      /\ gTLBTable' = [t \in Indices |-> gTLBTable'[t]]
      /\ D_800AD1F0' = [t \in Indices |-> D_800AD1F0'[t]]
  BY MapsPairs DEF moduleMapTLB, Mapped, TlbOf
<1>3. used \subseteq Indices /\ \A t \in used : D_800AD1F0[t] = NoModule
  BY <1>1, TlbAssumption DEF MapsInto, FreeTlb, Indices
<1>4. /\ Loaded' = Loaded
      /\ \A n : OwnedBy(n)' = OwnedBy(n) /\ Firsts(n)' = Firsts(n)
      /\ \A n, b, c : Run(n, b, c)' <=> Run(n, b, c)
      /\ \A i : PairFor(D_800CA668'[i]) = PairFor(D_800CA668[i])
  BY <1>2 DEF Loaded, OwnedBy, Firsts, Run
<1>5. stopped' \in BOOLEAN
  BY <1>1 DEF MapsInto
<1>6. PagesInv' /\ RunsOK' /\ Apart'
  BY <1>2, <1>4, <1>5
     DEF TlbInv, PagesInv, PagesTypeOK, EntriesOK, InStep, RunsOK, Apart
<1>7. D_800AD1F0' \in [Indices -> Modules \cup {NoModule}]
  BY <1>1, <1>2 DEF MapsInto, TlbInv
<1>8. ASSUME NEW t \in Indices
      PROVE  Mine(t)'
  <2>1. CASE t \in used
    BY <1>1, <1>4, <2>1, TlbFacts DEF MapsInto, Mine
  <2>2. CASE t \notin used
    <3>1. gTLBTable'[t] = gTLBTable[t] /\ D_800AD1F0'[t] = D_800AD1F0[t]
      BY <1>1, <2>2 DEF MapsInto
    <3>2. QED
      BY <1>4, <3>1 DEF TlbInv, Mine, ZeroJumpEntry, Mapping
  <2>3. QED
    BY <2>1, <2>2
<1>9. Once'
  <2>1. SUFFICES ASSUME NEW t \in Indices, NEW u \in Indices,
                        D_800AD1F0'[t] # NoModule, D_800AD1F0'[t] = D_800AD1F0'[u],
                        gTLBTable'[t] = gTLBTable'[u]
                 PROVE  t = u
    BY DEF Once
  <2>2. CASE t \in used /\ u \in used
    BY <1>1, <2>1, <2>2 DEF MapsInto
  <2>3. CASE t \notin used /\ u \notin used
    BY <1>1, <2>1, <2>3 DEF MapsInto, TlbInv, Once
  <2>4. CASE t \in used <=> u \notin used
    BY <1>1, <1>2, <2>1, <2>4 DEF MapsInto
  <2>5. QED
    BY <2>2, <2>3, <2>4
<1>10. ASSUME NEW n \in Modules \ {id}
       PROVE  Untouched(n) /\ SameTlbOf(n)
  <2>1. TlbOf(n)' = TlbOf(n)
    BY <1>1, <1>3, TlbFacts DEF MapsInto, TlbOf
  <2>2. \A t \in TlbOf(n) : t \in Indices \ used
    BY <1>3, TlbFacts DEF TlbOf
  <2>3. QED
    BY <1>1, <1>2, <1>4, <2>1, <2>2 DEF MapsInto, Untouched, SameTlbOf
<1>11. ~ stopped' => \A m \in Mapped' : Whole(m)'
  <2>1. SUFFICES ASSUME ~ stopped', NEW m \in Mapped' PROVE Whole(m)'
    OBVIOUS
  <2>2. m \in Modules
    BY DEF Mapped, Loaded
  <2>3. CASE m = id
    <3>1. done = Firsts(id)
      BY <1>1, <2>1 DEF MapsInto
    <3>2. \A i \in Firsts(id) : \E t \in used : gTLBTable'[t] = PairFor(D_800CA668[i])
      BY <1>1, <3>1 DEF MapsInto
    <3>3. used \subseteq TlbOf(id)'
      BY <1>1, <1>3 DEF MapsInto, TlbOf
    <3>4. QED
      BY <1>4, <2>3, <3>2, <3>3 DEF Whole
  <2>4. CASE m # id
    <3>1. m \in Mapped
      BY <1>4, <1>10, <2>2, <2>4 DEF Mapped, SameTlbOf
    <3>2. QED
      BY <1>2, <1>10, <2>2, <2>4, <3>1, SameWhole DEF TlbInv
  <2>5. QED
    BY <2>3, <2>4
<1>12. QED
  BY <1>2, <1>4, <1>6, <1>7, <1>8, <1>9, <1>11 DEF TlbInv

LEMMA UnloadKeeps ==
  ASSUME TlbInv, NEW id \in Modules, Unload(id)
  PROVE  TlbInv' /\ TlbOf(id)' = {} /\ \A n \in Modules \ {id} : SameTlbOf(n)
<1>1. /\ FreePages(id) /\ UNCHANGED <<stopped, booted>> /\ PagesInv
      /\ id \in Mapped /\ NoModule \notin Modules
  BY TlbFacts DEF Unload, TlbInv
<1>2. /\ gTLBTable' = [t \in Indices |-> IF t \in TlbOf(id) THEN ZeroEntry ELSE gTLBTable[t]]
      /\ D_800AD1F0' = [t \in Indices |-> IF t \in TlbOf(id) THEN NoModule ELSE D_800AD1F0[t]]
  BY DEF Unload, osUnmapTLB
<1>3. \A t \in Indices :
        /\ D_800AD1F0[t] = id => gTLBTable'[t] = ZeroEntry /\ D_800AD1F0'[t] = NoModule
        /\ D_800AD1F0[t] # id =>
             gTLBTable'[t] = gTLBTable[t] /\ D_800AD1F0'[t] = D_800AD1F0[t]
  <2> HIDE DEF ZeroEntry
  <2>1. QED
    BY <1>2 DEF TlbOf
<1>4. OwnedBy(id)' = {} /\ \A n \in Modules \ {id} : Untouched(n)
  BY <1>1, FreeRuns
<1>5. PagesInv'
  BY <1>1, FreeKeeps
<1>6. Loaded' = Loaded \ {id} /\ Loaded \subseteq Modules
  BY <1>4, UntouchedSame DEF Loaded
<1>7. RunsOK' /\ Apart'
  BY <1>4, <1>6, UntouchedSame DEF TlbInv, RunsOK, Apart
<1>8. D_800AD1F0' \in [Indices -> Modules \cup {NoModule}]
      /\ gTLBTable' = [t \in Indices |-> gTLBTable'[t]]
  BY <1>2 DEF TlbInv
<1>9. ASSUME NEW t \in Indices
      PROVE  Mine(t)'
  <2>1. CASE D_800AD1F0[t] = id
    BY <1>3, <2>1 DEF Mine, ZeroEntry
  <2>2. CASE D_800AD1F0[t] = NoModule
    BY <1>1, <1>3, <2>2 DEF TlbInv, Mine, ZeroEntry, ZeroJumpEntry, Mapping
  <2>3. CASE D_800AD1F0[t] # id /\ D_800AD1F0[t] # NoModule
    <3>1. PICK n \in Modules \ {id} : n = D_800AD1F0[t]
      BY <2>3, TlbFacts
    <3>2. PICK i \in Firsts(n) : gTLBTable[t] = PairFor(D_800CA668[i])
      BY <2>3, <3>1 DEF TlbInv, Mine
    <3>3. i \in Firsts(n)' /\ PairFor(D_800CA668'[i]) = PairFor(D_800CA668[i])
      BY <1>4, <3>1, UntouchedSame
    <3>4. QED
      BY <1>3, <2>3, <3>1, <3>2, <3>3 DEF Mine
  <2>4. QED
    BY <2>1, <2>2, <2>3
<1>10. Once'
  BY <1>3 DEF TlbInv, Once
<1>11. ASSUME NEW n \in Modules \ {id}
       PROVE  SameTlbOf(n)
  BY <1>1, <1>3 DEF SameTlbOf, TlbOf
<1>12. TlbOf(id)' = {}
  BY <1>1, <1>3 DEF TlbOf
<1>13. ~ stopped' => \A m \in Mapped' : Whole(m)'
  <2>1. SUFFICES ASSUME ~ stopped', NEW m \in Mapped' PROVE Whole(m)'
    OBVIOUS
  <2>2. m \in Mapped /\ m \in Modules \ {id}
    BY <1>6, <1>11 DEF Mapped, SameTlbOf
  <2>3. QED
    BY <1>1, <1>4, <1>11, <2>1, <2>2, SameWhole DEF TlbInv
<1>14. ~ booted' => Loaded' = {}
  BY <1>1, <1>6 DEF TlbInv
<1>15. QED
  BY <1>5, <1>7, <1>8, <1>9, <1>10, <1>11, <1>12, <1>13, <1>14 DEF TlbInv

LEMMA TlbStep ==
  ASSUME TlbInv, [Next]_vars
  PROVE  TlbInv'
<1>1. CASE UNCHANGED vars
  BY <1>1, TlbSame DEF vars, pageVars, overlayVars
<1>2. CASE Next
  BY <1>2, StartKeeps, GetKeeps, MapKeeps, UnloadKeeps DEF Next
<1>3. QED
  BY <1>1, <1>2
-----------------------------------------------------------------------------
(***************************************************************************)
(* What the abstract specification sees.                                   *)
(***************************************************************************)

(* A module has as many TLB entries as page entries when all these are mapped,
   and only then. *)
LEMMA WholeCounts ==
  ASSUME TlbInv, NEW m \in Modules
  PROVE  Cardinality(TlbOf(m)) = Cardinality(Firsts(m)) <=> Whole(m)
<1> DEFINE Pair == [i \in Firsts(m) |-> PairFor(D_800CA668[i])]
           Pairs == {PairFor(D_800CA668[i]) : i \in Firsts(m)}
           Table == [t \in TlbOf(m) |-> gTLBTable[t]]
           InTable == {gTLBTable[t] : t \in TlbOf(m)}
<1>1. IsFiniteSet(Firsts(m)) /\ IsFiniteSet(TlbOf(m))
  <2>1. IsFiniteSet(Slots) /\ IsFiniteSet(Indices)
    BY FS_Interval, PageCountAssumption, TlbAssumption DEF Slots, Indices
  <2>2. QED
    BY <2>1, FS_Subset DEF Firsts, OwnedBy, TlbOf
<1>2. Cardinality(Pairs) = Cardinality(Firsts(m)) /\ IsFiniteSet(Pairs)
  <2>1. Pair \in Bijection(Firsts(m), Pairs)
    BY PairsDiffer DEF Bijection, Injection, Surjection, IsInjective
  <2> HIDE DEF Pair, Pairs
  <2>2. ExistsBijection(Firsts(m), Pairs)
    BY <2>1 DEF ExistsBijection
  <2>3. QED
    BY <1>1, <2>2, FS_Bijection
<1>3. Cardinality(InTable) = Cardinality(TlbOf(m)) /\ IsFiniteSet(InTable)
  <2>1. \A t, u \in TlbOf(m) : gTLBTable[t] = gTLBTable[u] => t = u
    BY TlbFacts DEF TlbInv, Once, TlbOf
  <2>2. Table \in Bijection(TlbOf(m), InTable)
    BY <2>1 DEF Bijection, Injection, Surjection, IsInjective
  <2> HIDE DEF Table, InTable
  <2>3. ExistsBijection(TlbOf(m), InTable)
    BY <2>2 DEF ExistsBijection
  <2>4. QED
    BY <1>1, <2>3, FS_Bijection
<1>4. InTable \subseteq Pairs
  <2>1. ASSUME NEW t \in TlbOf(m)
        PROVE  gTLBTable[t] \in Pairs
    BY TlbFacts DEF TlbInv, Mine, TlbOf
  <2>2. QED
    BY <2>1
<1>5. Whole(m) <=> Pairs \subseteq InTable
  BY DEF Whole
<1> HIDE DEF Pairs, InTable
<1>6. Cardinality(InTable) = Cardinality(Pairs) => InTable = Pairs
  BY <1>2, <1>4, FS_Subset
<1>7. QED
  BY <1>2, <1>3, <1>4, <1>5, <1>6

LEMMA RunCounts ==
  ASSUME NEW m \in Modules, NEW base \in Nat, NEW count \in PageCounts,
         Run(m, base, count)
  PROVE  /\ Cardinality(OwnedBy(m)) = count /\ count \in Nat /\ count > 0
         /\ IsFiniteSet(OwnedBy(m)) /\ OwnedBy(m) # {}
<1>1. count \in Nat /\ count > 0 /\ base + count - 1 \in Int
  BY PageCountAssumption
<1>2. OwnedBy(m) = base .. (base + count - 1)
  BY DEF Run
<1>3. /\ IsFiniteSet(base .. (base + count - 1))
      /\ Cardinality(base .. (base + count - 1)) =
           IF base > base + count - 1 THEN 0 ELSE (base + count - 1) - base + 1
  BY <1>1, FS_Interval
<1>4. base \in base .. (base + count - 1)
  BY <1>1
<1>5. QED
  BY <1>1, <1>2, <1>3, <1>4

(* The pages a module's addresses lead to are its own. *)
LEMMA ReachesOwn ==
  ASSUME TlbInv, NEW m \in Modules
  PROVE  Reached(m) = IF Whole(m) THEN OwnedBy(m) ELSE {}
<1>1. CASE ~ Whole(m)
  BY <1>1, WholeCounts DEF Reached
<1>2. CASE Whole(m) /\ OwnedBy(m) = {}
  <2>1. Cardinality(OwnedBy(m)) = 0
    BY <1>2, FS_EmptySet
  <2>2. 0 .. Cardinality(OwnedBy(m)) - 1 = {}
    BY <2>1
  <2>3. QED
    BY <1>2, <2>2 DEF Reached
<1>3. CASE Whole(m) /\ OwnedBy(m) # {}
  <2>1. m \in Loaded
    BY <1>3 DEF Loaded
  <2>2. PICK base \in Nat, count \in PageCounts : Run(m, base, count)
    BY <2>1, LoadedHasRun
  <2>3. Cardinality(OwnedBy(m)) = count /\ count \in Nat
    BY <2>2, RunCounts
  <2>4. ASSUME NEW i \in 0 .. count - 1
        PROVE  (_tlb_lookup(Virtual(m) + i * MODULE_UNITS) - KSEG0 - RAM_BASE)
                 \div MODULE_UNITS = base + i
    <3> DEFINE offset == i * MODULE_UNITS
    <3>1. i \in Nat /\ i + 1 <= count /\ MODULE_UNITS \in Nat /\ MODULE_UNITS > 0
          /\ RAM_BASE \in Nat /\ KSEG0 \in Nat
      BY <2>3, UnitsType
    <3>2. /\ offset \in Nat /\ (i + 1) * MODULE_UNITS = offset + MODULE_UNITS
          /\ (i + 1) * MODULE_UNITS <= count * MODULE_UNITS
          /\ count * MODULE_UNITS \in Int /\ base * MODULE_UNITS \in Int
          /\ (base + i) * MODULE_UNITS = base * MODULE_UNITS + offset
      BY <2>3, <3>1, TimesGrow, TimesAdd
    <3> HIDE DEF offset
    <3>3. offset < count * MODULE_UNITS
      BY <3>1, <3>2
    <3>4. _tlb_lookup(Virtual(m) + offset) = KSEG0 + RAM_BASE + base * MODULE_UNITS + offset
      BY <1>3, <2>1, <2>2, <3>2, <3>3, LookupWhole
    <3>5. _tlb_lookup(Virtual(m) + offset) - KSEG0 - RAM_BASE =
            (base + i) * MODULE_UNITS + 0
      <4>1. PICK x \in Int : x = base * MODULE_UNITS
        BY <3>2
      <4>2. (base + i) * MODULE_UNITS = x + offset
        BY <3>2, <4>1
      <4>3. PICK y : y = _tlb_lookup(Virtual(m) + offset)
        OBVIOUS
      <4>4. y = KSEG0 + RAM_BASE + x + offset
        BY <3>4, <4>1, <4>3
      <4>5. y - KSEG0 - RAM_BASE = x + offset
        BY <3>1, <3>2, <4>4
      <4>6. QED
        BY <3>2, <4>2, <4>3, <4>5
    <3>6. ((base + i) * MODULE_UNITS + 0) \div MODULE_UNITS = base + i
      <4>1. base + i \in Int /\ 0 \in 0 .. MODULE_UNITS - 1
            /\ (base + i) * MODULE_UNITS + 0 \in Int
        BY <3>1
      <4>2. QED
        BY <3>1, <4>1, Quotient
    <3>7. QED
      BY <3>5, <3>6 DEF offset
  <2>5. Reached(m) = {base + i : i \in 0 .. count - 1}
    BY <1>3, <2>3, <2>4, WholeCounts DEF Reached
  <2>6. {base + i : i \in 0 .. count - 1} = base .. base + count - 1
    <3>1. \A x \in base .. base + count - 1 : x - base \in 0 .. count - 1 /\ x = base + (x - base)
      BY <2>3
    <3>2. \A i \in 0 .. count - 1 : base + i \in base .. base + count - 1
      BY <2>3
    <3>3. QED
      BY <3>1, <3>2
  <2>7. QED
    BY <1>3, <2>2, <2>5, <2>6 DEF Run
<1>4. QED
  BY <1>1, <1>2, <1>3

Seen(m) == IF Whole(m) THEN OwnedBy(m) ELSE {}
OwnSeen == \A m \in Modules : reached[m] = Seen(m)
EntriesThere == \A m \in Loaded : Firsts(m) # {}

LEMMA TlbMeans == TlbInv => OwnSeen /\ EntriesThere
<1> SUFFICES ASSUME TlbInv PROVE OwnSeen /\ EntriesThere
  OBVIOUS
<1>1. OwnSeen
  BY ReachesOwn DEF OwnSeen, Seen, reached
<1>2. ASSUME NEW m \in Loaded
      PROVE  Firsts(m) # {}
  <2>1. m \in Modules /\ \E i \in OwnedBy(m) : TRUE
    BY DEF Loaded
  <2>2. QED
    BY <2>1, PageCovered
<1>3. QED
  BY <1>1, <1>2 DEF EntriesThere

LEMMA TlbMeansNext == TlbInv' => OwnSeen' /\ EntriesThere'
BY TlbMeans, PTL

LEMMA SameSeen ==
  ASSUME NEW n \in Modules, Untouched(n), SameTlbOf(n)
  PROVE  Seen(n)' = Seen(n)
BY SameWhole DEF Seen, Untouched

(* What the abstract variable is before and after a step. *)
LEMMA ReachedSteps ==
  ASSUME TlbInv, TlbInv'
  PROVE  /\ reached = [m \in Modules |-> Seen(m)]
         /\ reached' = [m \in Modules |-> Seen(m)']
<1>1. OwnSeen /\ OwnSeen'
  BY TlbMeans, TlbMeansNext
<1>2. /\ reached = [m \in Modules |-> reached[m]]
      /\ reached' = [m \in Modules |-> reached'[m]]
  BY DEF reached
<1>3. /\ \A m \in Modules : reached[m] = Seen(m)
      /\ \A m \in Modules : reached'[m] = Seen(m)'
  BY <1>1 DEF OwnSeen
<1>4. QED
  BY <1>2, <1>3

LEMMA MemoryInit == Init => Abstract!Init
<1> SUFFICES ASSUME Init PROVE Abstract!Init
  OBVIOUS
<1>1. TlbInv
  BY TlbInvInit
<1>2. \A m \in Modules : OwnedBy(m) = {}
  BY ModulesAssumption DEF Init, PagesInit, FreeEntry, OwnedBy, NoModule
<1>3. \A m \in Modules : reached[m] = {}
  BY <1>1, <1>2, TlbMeans DEF OwnSeen, Seen
<1>4. QED
  BY <1>3 DEF Abstract!Init, reached

LEMMA CountedAlike == \A S : Abstract!Cardinality(S) = Cardinality(S)
BY Zenon DEF Cardinality, Abstract!Cardinality

LEMMA MapIsLoad ==
  ASSUME TlbInv, NEW id \in Modules, moduleMapTLB(id)
  PROVE  [Abstract!Next]_reached
<1>1. PICK done, used : MapsInto(id, done, used)
  BY MapsPairs
<1>2. /\ UNCHANGED D_800CA668 /\ id \in Loaded /\ TlbOf(id) = {}
      /\ \A t \in Indices : D_800AD1F0[t] # id
  BY DEF moduleMapTLB, Mapped, TlbOf
<1>3. used \subseteq Indices /\ \A t \in used : D_800AD1F0[t] = NoModule
  BY <1>1, TlbAssumption DEF MapsInto, FreeTlb, Indices
<1>4. TlbInv'
  BY MapKeeps
<1>5. ASSUME NEW n \in Modules \ {id}
      PROVE  Seen(n)' = Seen(n)
  <2>1. Untouched(n)
    BY <1>2 DEF Untouched, OwnedBy
  <2>2. TlbOf(n)' = TlbOf(n)
    BY <1>1, <1>3, TlbFacts DEF MapsInto, TlbOf
  <2>3. \A t \in TlbOf(n) : t \in Indices \ used
    BY <1>3, TlbFacts DEF TlbOf
  <2>4. SameTlbOf(n)
    BY <1>1, <2>2, <2>3 DEF MapsInto, SameTlbOf
  <2>5. QED
    BY <2>1, <2>4, SameSeen
<1>6. Seen(id) = {}
  BY <1>2, TlbMeans DEF Seen, Whole, EntriesThere
<1>7. reached = [m \in Modules |-> Seen(m)] /\ reached' = [m \in Modules |-> Seen(m)']
  BY <1>4, ReachedSteps
<1>8. CASE Seen(id)' = {}
  BY <1>5, <1>6, <1>7, <1>8
<1>9. CASE Seen(id)' # {}
  <2>1. Seen(id)' = OwnedBy(id) /\ OwnedBy(id)' = OwnedBy(id)
    BY <1>2, <1>9 DEF Seen, OwnedBy
  <2>2. PICK base \in Nat, count \in PageCounts : Run(id, base, count)
    BY <1>2, LoadedHasRun
  <2>3. /\ OwnedBy(id) \subseteq Slots /\ Cardinality(OwnedBy(id)) \in PageCounts
        /\ OwnedBy(id) # {}
    BY <2>2, RunCounts DEF OwnedBy
  <2>4. \A n \in Modules : n # id => OwnedBy(id) \cap OwnedBy(n) = {}
    BY DEF OwnedBy
  <2>5. ASSUME NEW n \in Modules, reached[n] # {}
        PROVE  /\ n # id /\ OwnedBy(id) \cap reached[n] = {}
               /\ VirtualPage[n] # VirtualPage[id]
    <3>1. Seen(n) # {} /\ reached[n] = Seen(n)
      BY <1>7, <2>5
    <3>2. n # id /\ Seen(n) = OwnedBy(n) /\ n \in Loaded
      BY <1>6, <3>1 DEF Seen, Loaded
    <3>3. QED
      BY <1>2, <2>4, <3>1, <3>2 DEF TlbInv, Apart
  <2>6. reached' = [reached EXCEPT ![id] = OwnedBy(id)] /\ reached'[id] = OwnedBy(id)
    BY <1>5, <1>7, <2>1
  <2>7. Abstract!Load(id)
    <3>1. id \notin Abstract!Loaded
      BY <2>5 DEF Abstract!Loaded
    <3>2. \A n \in Abstract!Loaded :
            reached'[id] \cap reached[n] = {} /\ VirtualPage[n] # VirtualPage[id]
      BY <2>5, <2>6 DEF Abstract!Loaded
    <3>3. reached'[id] \subseteq Slots /\ Abstract!Cardinality(reached'[id]) \in PageCounts
      BY <2>3, <2>6, CountedAlike
    <3>4. reached' = [reached EXCEPT ![id] = reached'[id]]
      BY <2>6
    <3>5. QED
      BY <3>1, <3>2, <3>3, <3>4, Zenon DEF Abstract!Load
  <2>8. QED
    BY <2>7 DEF Abstract!Next
<1>10. QED
  BY <1>8, <1>9

LEMMA UnloadIsUnload ==
  ASSUME TlbInv, NEW id \in Modules, Unload(id)
  PROVE  [Abstract!Next]_reached
<1>1. TlbInv' /\ TlbOf(id)' = {} /\ \A n \in Modules \ {id} : SameTlbOf(n)
  BY UnloadKeeps
<1>2. OwnedBy(id)' = {} /\ \A n \in Modules \ {id} : Untouched(n)
  BY FreeRuns DEF Unload
<1>3. id \in Mapped /\ ~ stopped
  BY DEF Unload
<1>4. Seen(id) # {}
  BY <1>3 DEF TlbInv, Mapped, Loaded, Seen
<1>5. Seen(id)' = {}
  BY <1>2 DEF Seen
<1>6. \A n \in Modules \ {id} : Seen(n)' = Seen(n)
  BY <1>1, <1>2, SameSeen
<1>7. reached = [m \in Modules |-> Seen(m)] /\ reached' = [m \in Modules |-> Seen(m)']
  BY <1>1, ReachedSteps
<1>8. Abstract!Unload(id)
  BY <1>4, <1>5, <1>6, <1>7 DEF Abstract!Unload, Abstract!Loaded
<1>9. QED
  BY <1>8 DEF Abstract!Next

LEMMA GetIsStutter ==
  ASSUME TlbInv, NEW id \in Modules, NEW count \in PageCounts, GetPages(id, count)
  PROVE  reached' = reached
<1>1. /\ id \notin Loaded /\ UNCHANGED <<gTLBTable, D_800AD1F0>> /\ PagesInv
  BY DEF GetPages, overlayVars, TlbInv
<1>2. TlbInv'
  BY GetKeeps
<1>3. \A n : SameTlbOf(n)
  BY <1>1 DEF SameTlbOf, TlbOf
<1>4. CASE UNCHANGED D_800CA668
  BY <1>1, <1>4
     DEF reached, Reached, TlbOf, Firsts, OwnedBy, _tlb_lookup, Hits
<1>5. ASSUME NEW start \in Fitting(count),
             TakesPages(start, count, VirtualPage[id], id)
      PROVE  reached' = reached
  <2>1. OwnedBy(id)' # {} /\ \A n \in Modules \ {id} : Untouched(n)
    BY <1>1, <1>5, TakeRuns
  <2>2. TlbOf(id)' = {}
    BY <1>1, TlbFacts DEF Mapped, TlbOf
  <2>3. Seen(id) = {}
    BY <1>1 DEF Seen, Loaded
  <2>4. Seen(id)' = {}
    <3>1. id \in Loaded'
      BY <2>1 DEF Loaded
    <3>2. Firsts(id)' # {}
      BY <1>2, <3>1, TlbMeansNext DEF EntriesThere
    <3>3. QED
      BY <2>2, <3>2 DEF Seen, Whole
  <2>5. \A n \in Modules \ {id} : Seen(n)' = Seen(n)
    BY <1>3, <2>1, SameSeen
  <2>6. reached = [m \in Modules |-> Seen(m)] /\ reached' = [m \in Modules |-> Seen(m)']
    BY <1>2, ReachedSteps
  <2>7. QED
    BY <2>3, <2>4, <2>5, <2>6
<1>6. QED
  BY <1>4, <1>5 DEF GetPages, modulegetpages_impl

LEMMA MemoryStep ==
  ASSUME TlbInv, [Next]_vars
  PROVE  [Abstract!Next]_reached
<1>1. ASSUME UNCHANGED <<D_800CA668, gTLBTable, D_800AD1F0>>
      PROVE  reached' = reached
  BY <1>1 DEF reached, Reached, TlbOf, Firsts, OwnedBy, _tlb_lookup, Hits
<1>2. CASE Boot \/ zerojumpinit
  <2>1. TlbInv' /\ Loaded = {} /\ UNCHANGED D_800CA668
    BY <1>2, StartKeeps DEF Boot, zerojumpinit, TlbInv, pageVars
  <2>2. \A m \in Modules : OwnedBy(m) = {} /\ OwnedBy(m)' = {}
    BY <2>1 DEF Loaded, OwnedBy
  <2>3. \A m \in Modules : Seen(m) = {} /\ Seen(m)' = {}
    BY <2>2 DEF Seen
  <2>4. reached = [m \in Modules |-> Seen(m)] /\ reached' = [m \in Modules |-> Seen(m)']
    BY <2>1, ReachedSteps
  <2>5. QED
    BY <2>3, <2>4
<1>3. CASE UNCHANGED vars
  BY <1>1, <1>3 DEF vars, pageVars, overlayVars
<1>4. QED
  BY <1>2, <1>3, MapIsLoad, UnloadIsUnload, GetIsStutter DEF Next
-----------------------------------------------------------------------------
(* A mapped module keeps its pages and its TLB entries until it loses them all. *)
LEMMA KeepsMapped ==
  ASSUME TlbInv, Next, NEW m \in Mapped, OwnedBy(m)' # {}
  PROVE  Untouched(m) /\ m \in Mapped'
<1>1. m \in Modules /\ m \in Loaded /\ TlbOf(m) # {}
  BY DEF Mapped, Loaded
<1>2. ASSUME Untouched(m), TlbOf(m)' = TlbOf(m)
      PROVE  m \in Mapped'
  BY <1>1, <1>2, UntouchedSame DEF Mapped
<1>3. ASSUME UNCHANGED <<D_800CA668, D_800AD1F0>>
      PROVE  Untouched(m) /\ TlbOf(m)' = TlbOf(m)
  BY <1>3 DEF Untouched, OwnedBy, TlbOf
<1>4. CASE Boot \/ zerojumpinit
  BY <1>1, <1>4 DEF Boot, zerojumpinit, TlbInv
<1>5. ASSUME NEW id \in Modules, NEW count \in PageCounts, GetPages(id, count)
      PROVE  Untouched(m) /\ TlbOf(m)' = TlbOf(m)
  <2>1. id \notin Loaded /\ PagesInv /\ UNCHANGED D_800AD1F0
    BY <1>5 DEF GetPages, TlbInv, overlayVars
  <2>2. CASE UNCHANGED D_800CA668
    BY <1>3, <2>1, <2>2
  <2>3. ASSUME NEW start \in Fitting(count),
               TakesPages(start, count, VirtualPage[id], id)
        PROVE  Untouched(m)
    BY <1>1, <2>1, <2>3, TakeRuns
  <2>4. TlbOf(m)' = TlbOf(m)
    BY <2>1 DEF TlbOf
  <2>5. QED
    BY <1>5, <2>2, <2>3, <2>4 DEF GetPages, modulegetpages_impl
<1>6. ASSUME NEW id \in Modules, moduleMapTLB(id)
      PROVE  Untouched(m) /\ TlbOf(m)' = TlbOf(m)
  <2>1. UNCHANGED D_800CA668 /\ id \notin Mapped
    BY <1>6 DEF moduleMapTLB
  <2>2. PICK done, used : MapsInto(id, done, used)
    BY <1>6, MapsPairs
  <2>3. \A t \in used : D_800AD1F0[t] = NoModule /\ D_800AD1F0'[t] = id
    BY <2>2 DEF MapsInto, FreeTlb
  <2>4. id # m /\ m # NoModule
    BY <1>1, <2>1, TlbFacts
  <2>5. \A t \in Indices : D_800AD1F0'[t] = m <=> D_800AD1F0[t] = m
    BY <2>2, <2>3, <2>4 DEF MapsInto
  <2>6. QED
    BY <2>1, <2>5 DEF Untouched, OwnedBy, TlbOf
<1>7. ASSUME NEW id \in Modules, Unload(id)
      PROVE  Untouched(m) /\ TlbOf(m)' = TlbOf(m)
  <2>1. OwnedBy(id)' = {} /\ \A n \in Modules \ {id} : Untouched(n)
    BY <1>7, FreeRuns DEF Unload
  <2>2. \A n \in Modules \ {id} : SameTlbOf(n)
    BY <1>7, UnloadKeeps
  <2>3. QED
    BY <1>1, <2>1, <2>2 DEF SameTlbOf
<1>8. QED
  BY <1>2, <1>4, <1>5, <1>6, <1>7 DEF Next
-----------------------------------------------------------------------------
(***************************************************************************)
(* However many threads use the DMA functions while overlays are loaded,   *)
(* each that waits gets its own completion.  There is at most one transfer *)
(* under way, and it is either asked for or complete: what OwnCompletion   *)
(* says of threads that wait is true of those that have only started, and  *)
(* without a transfer the queues are empty.                                *)
(***************************************************************************)
FlagTells == D_80097D48 = 1 <=> \E t \in Threads : dma[t] = "reads"

AskedFor(t) == pi = <<t>> /\ D_80097D68 = 0
Complete(t) == pi = <<>> /\ D_80097D68 = 1 /\ t \in arrived

OneUnderWay ==
  /\ \A t, u \in UnderWay : t = u
  /\ \A t \in UnderWay : AskedFor(t) \/ Complete(t)
  /\ UnderWay = {} => pi = <<>> /\ D_80097D68 = 0

(* Who waits for the flag does not wait beside a transfer that did not take it. *)
SpinnersRead == (\E t \in Threads : dma[t] = "spins") => WithoutFlag = {}

DmaInv ==
  /\ D_80097D48 \in {0, 1}
  /\ dma \in [Threads -> {"idle", "spins", "reads", "started", "waits"}]
  /\ FlagTells
  /\ OneUnderWay
  /\ SpinnersRead

(* The steps of one thread, and of the PI manager. *)
ThreadStep(t) == DmaStep(t) \/ DmaCall(t)

LEMMA InitHolds == DmaInit => DmaInv
BY DEF DmaInit, DmaInv, FlagTells, OneUnderWay, UnderWay, SpinnersRead

(* Where there was no transfer, a thread has started one. *)
LEMMA Begins ==
  ASSUME DmaInv, UnderWay = {}, NEW t \in Threads, osPiStartDma(t),
         NEW how \in {"reads", "started"}, dma' = [dma EXCEPT ![t] = how],
         how = "started" => Alone(t),
         D_80097D68' = D_80097D68, D_80097D48' = IF how = "reads" THEN 1 ELSE D_80097D48
  PROVE  DmaInv'
<1>1. D_80097D48' \in {0, 1}
  BY DEF DmaInv
<1>2. (dma \in [Threads -> {"idle", "spins", "reads", "started", "waits"}])'
  BY DEF DmaInv
<1>3. \A u \in Threads : dma[u] \in {"idle", "spins"}
  BY DEF UnderWay
<1>4. D_80097D48 = 0
  BY <1>3 DEF DmaInv, FlagTells
<1>5. FlagTells'
  BY <1>3, <1>4 DEF DmaInv, FlagTells
<1>6. UnderWay' = {t}
  BY <1>3 DEF DmaInv, UnderWay
<1>7. AskedFor(t)'
  <2>1. pi = <<>> /\ D_80097D68 = 0
    BY DEF DmaInv, OneUnderWay
  <2> QED BY <2>1 DEF osPiStartDma, AskedFor
<1>8. SpinnersRead'
  BY <1>3 DEF DmaInv, SpinnersRead, WithoutFlag, Alone
<1> QED BY <1>1, <1>2, <1>5, <1>6, <1>7, <1>8 DEF DmaInv, OneUnderWay

(* The thread whose transfer it was has taken the message. *)
LEMMA Ends ==
  ASSUME DmaInv, NEW t \in UnderWay, D_80097D68 = 1, D_80097D68' = 0,
         dma' = [dma EXCEPT ![t] = "idle"], pi' = pi,
         D_80097D48' = IF dma[t] = "reads" THEN 0 ELSE D_80097D48
  PROVE  DmaInv'
<1>1. D_80097D48' \in {0, 1}
  BY DEF DmaInv
<1>2. (dma \in [Threads -> {"idle", "spins", "reads", "started", "waits"}])'
  BY DEF DmaInv, UnderWay
<1>3. \A u \in Threads \ {t} : dma[u] \in {"idle", "spins"}
  BY DEF DmaInv, OneUnderWay, UnderWay
<1>4. UnderWay' = {}
  BY <1>3 DEF DmaInv, UnderWay
<1>5. FlagTells'
  BY <1>3, <1>4 DEF DmaInv, FlagTells, UnderWay
<1>6. pi = <<>>
  BY DEF DmaInv, OneUnderWay, AskedFor, Complete
<1>7. SpinnersRead'
  BY <1>3, <1>4 DEF DmaInv, SpinnersRead, WithoutFlag, UnderWay
<1> QED BY <1>1, <1>2, <1>4, <1>5, <1>6, <1>7 DEF DmaInv, OneUnderWay

LEMMA ThreadPreserves ==
  ASSUME DmaInv, NEW t \in Threads, ThreadStep(t)
  PROVE  DmaInv'
<1>1. CASE TakesFlag(t) /\ WithoutFlag = {}
  <2>1. UnderWay = {}
    BY <1>1 DEF TakesFlag, DmaInv, FlagTells, UnderWay, WithoutFlag
  <2> QED BY <1>1, <2>1, Begins DEF TakesFlag
<1>2. CASE dma[t] = "idle" /\ WithoutFlag = {} /\ Yields(t)
  <2>1. UnderWay' = UnderWay /\ FlagTells' /\ SpinnersRead'
    BY <1>2 DEF Yields, DmaInv, FlagTells, UnderWay, SpinnersRead, WithoutFlag
  <2> QED BY <1>2, <2>1 DEF Yields, DmaInv, OneUnderWay, AskedFor, Complete
<1>3. CASE ReadReturns(t)
  BY <1>3, Ends DEF ReadReturns, osRecvMesg, UnderWay
<1>4. CASE WaitReturns(t)
  BY <1>4, Ends DEF WaitReturns, osRecvMesg, UnderWay
<1>5. CASE dmaStart(t)
  <2>1. UnderWay = {}
    BY <1>5 DEF dmaStart, Alone, UnderWay
  <2> QED BY <1>5, <2>1, Begins DEF dmaStart
<1>6. CASE dmaWaitBlock(t)
  <2>1. UnderWay' = UnderWay /\ FlagTells'
    BY <1>6 DEF dmaWaitBlock, DmaInv, FlagTells, UnderWay
  <2>2. SpinnersRead'
    BY <1>6 DEF dmaWaitBlock, DmaInv, SpinnersRead, WithoutFlag
  <2> QED BY <1>6, <2>1, <2>2 DEF dmaWaitBlock, DmaInv, OneUnderWay, AskedFor, Complete
<1>7. CASE dmaCheckTrans(t)
  <2>1. t \in UnderWay
    BY <1>7 DEF dmaCheckTrans, UnderWay
  <2>2. CASE D_80097D68 = 1
    BY <1>7, <2>1, <2>2, Ends DEF dmaCheckTrans
  <2>3. CASE D_80097D68 # 1
    <3>1. D_80097D68 = 0
      BY <2>1, <2>3 DEF DmaInv, OneUnderWay, AskedFor, Complete
    <3>2. dma' = dma
      BY <1>7, <2>3 DEF dmaCheckTrans, DmaInv
    <3> QED BY <1>7, <3>1, <3>2
          DEF dmaCheckTrans, DmaInv, OneUnderWay, UnderWay, FlagTells, AskedFor, Complete,
              SpinnersRead, WithoutFlag
  <2> QED BY <2>2, <2>3
<1>8. ASSUME dma[t] = "spins" PROVE WithoutFlag = {}
  BY <1>8 DEF DmaInv, SpinnersRead
<1> QED BY <1>1, <1>2, <1>3, <1>4, <1>5, <1>6, <1>7, <1>8
      DEF ThreadStep, DmaStep, DmaCall, dmaRead, Retries

LEMMA CompletionPreserves == DmaInv /\ PiCompletes => DmaInv'
<1> SUFFICES ASSUME DmaInv, PiCompletes PROVE DmaInv'
  OBVIOUS
<1>1. UnderWay' = UnderWay /\ FlagTells' /\ SpinnersRead'
  BY DEF PiCompletes, DmaInv, FlagTells, UnderWay, SpinnersRead, WithoutFlag
<1>2. PICK t \in UnderWay : pi = <<t>>
  BY DEF PiCompletes, DmaInv, OneUnderWay, AskedFor, Complete
<1>3. Complete(t)'
  BY <1>2 DEF PiCompletes, Complete
<1> QED BY <1>1, <1>2, <1>3 DEF PiCompletes, DmaInv, OneUnderWay

LEMMA StutterPreserves == DmaInv /\ UNCHANGED dmaVars => DmaInv'
BY DEF dmaVars, DmaInv, FlagTells, OneUnderWay, UnderWay, AskedFor, Complete,
   SpinnersRead, WithoutFlag

(* Every step of the composed system is one of these for the DMA functions. *)
LEMMA StepsOfDma ==
  [FileNext]_allVars =>
    PiCompletes \/ UNCHANGED dmaVars \/ \E t \in Threads : ThreadStep(t)
<1> SUFFICES ASSUME [FileNext]_allVars
    PROVE PiCompletes \/ UNCHANGED dmaVars \/ \E t \in Threads : ThreadStep(t)
  OBVIOUS
<1>0. main \in Threads
  BY MainAssumption
<1>1. CASE FileCall
  BY <1>0, <1>1 DEF FileCall, fexecInit, fexecChangeBlock, fexecLoadAddress, fexecLoad,
      fexecGetFileSize, OpensBlock, Calls, ThreadStep, DmaCall
<1>2. CASE FileStep
  BY <1>0, <1>2 DEF FileStep, InfoRead, Searches, FileRead, EntryReturns,
      ThreadStep, DmaCall, DmaStep
<1>3. CASE ModuleCall
  BY <1>3 DEF ModuleCall
<1>4. CASE DmaNext
  BY <1>0, <1>4 DEF DmaNext, ThreadStep, DmaStep
<1>5. CASE UNCHANGED allVars
  BY <1>5 DEF allVars, dmaVars
<1> QED BY <1>1, <1>2, <1>3, <1>4, <1>5 DEF FileNext

LEMMA Inductive == DmaInv /\ [FileNext]_allVars => DmaInv'
BY StepsOfDma, ThreadPreserves, CompletionPreserves, StutterPreserves

LEMMA Implies == DmaInv => OwnCompletion
<1> SUFFICES ASSUME DmaInv PROVE OwnCompletion
  OBVIOUS
<1>1. ASSUME NEW t \in Threads, dma[t] \in {"reads", "waits"}
      PROVE  IF D_80097D68 = 1 THEN t \in arrived ELSE \E i \in DOMAIN pi : pi[i] = t
  <2>1. AskedFor(t) \/ Complete(t)
    BY <1>1 DEF DmaInv, OneUnderWay, UnderWay
  <2> QED BY <2>1 DEF AskedFor, Complete
<1> QED BY <1>1 DEF OwnCompletion, DmaInv, FlagTells

(* Whatever threads there are, and whatever overlays are loaded meanwhile: who
   waits for a transfer waits for its own, and the flag is left by who set it. *)
THEOREM CompletionsAreOwn == FileSpec => []OwnCompletion
<1>1. FileInit => DmaInv
  BY InitHolds DEF FileInit
<1>2. DmaInv /\ [FileNext]_allVars => DmaInv'
  BY Inductive
<1>3. DmaInv => OwnCompletion
  BY Implies
<1> QED BY <1>1, <1>2, <1>3, PTL DEF FileSpec

(* Of the page table and the TLB, a step of the composed system is one of the
   module's own, or a refused load, which only sets stopped. *)
LEMMA StepsOfOverlay ==
  [FileNext]_allVars =>
    \/ [Next]_vars
    \/ UNCHANGED <<D_800CA668, gTLBTable, overlayVars>> /\ stopped' \in {stopped, TRUE}
<1> SUFFICES ASSUME [FileNext]_allVars
    PROVE  \/ [Next]_vars
           \/ UNCHANGED <<D_800CA668, gTLBTable, overlayVars>> /\ stopped' \in {stopped, TRUE}
  OBVIOUS
<1>1. CASE FileCall
  BY <1>1 DEF FileCall, fexecInit, fexecChangeBlock, fexecLoadAddress, fexecLoad,
      fexecGetFileSize, OpensBlock, Calls
<1>2. CASE InfoRead \/ FileRead \/ EntryReturns
  BY <1>2 DEF InfoRead, FileRead, EntryReturns
<1>3. CASE Searches
  BY <1>3 DEF Searches
<1>4. CASE ModuleCall
  BY <1>4 DEF ModuleCall
<1>5. CASE DmaNext
  BY <1>5 DEF DmaNext
<1>6. CASE UNCHANGED allVars
  BY <1>6 DEF allVars
<1> QED BY <1>1, <1>2, <1>3, <1>4, <1>5, <1>6 DEF FileNext, FileStep

LEMMA FilePagesStep ==
  ASSUME PagesInv, [FileNext]_allVars
  PROVE  /\ PagesInv'
         /\ \A i \in Slots : D_800CA668[i].module_id # NoModule =>
              D_800CA668'[i].module_id \in {D_800CA668[i].module_id, NoModule}
<1>1. CASE [Next]_vars
  BY <1>1, PagesStep
<1>2. CASE UNCHANGED D_800CA668 /\ stopped' \in {stopped, TRUE}
  BY <1>2 DEF PagesInv, PagesTypeOK, EntriesOK, InStep
<1> QED BY <1>1, <1>2, StepsOfOverlay

LEMMA FileTlbStep ==
  ASSUME TlbInv, [FileNext]_allVars
  PROVE  TlbInv' /\ [Abstract!Next]_reached
<1>1. CASE [Next]_vars
  BY <1>1, TlbStep, MemoryStep
<1>2. CASE UNCHANGED <<D_800CA668, gTLBTable, overlayVars>> /\ stopped' \in {stopped, TRUE}
  <2>1. TlbInv'
    BY <1>2, TlbSame DEF overlayVars
  <2>2. reached' = reached
    BY <1>2 DEF overlayVars, reached, Reached, TlbOf, Firsts, OwnedBy, _tlb_lookup, Hits
  <2>3. QED
    BY <2>1, <2>2
<1> QED BY <1>1, <1>2, StepsOfOverlay

(* With files being loaded, too, pages are only taken from a module by unloading
   it, and stay in step with its addresses, which is what lets fexecLoadAddress
   look up the first address only. *)
THEOREM LoadsKeepPages == FileSpec => []InStep /\ NoTakeover
<1>1. FileInit => PagesInv
  BY PagesInvInit DEF FileInit
<1>2. PagesInv /\ [FileNext]_allVars => PagesInv'
  BY FilePagesStep
<1>3. PagesInv => InStep
  BY DEF PagesInv
<1>4. PagesInv /\ [FileNext]_allVars =>
        [\A i \in Slots :
           D_800CA668[i].module_id # NoModule =>
             D_800CA668'[i].module_id \in {D_800CA668[i].module_id, NoModule}]_pageVars
  BY FilePagesStep
<1> QED BY <1>1, <1>2, <1>3, <1>4, PTL DEF FileSpec, NoTakeover

(* The promise that loading overlays makes is kept for any modules, TLB and page
   table, under any loading of files: once all its entries are mapped and until it
   is unloaded, a module's addresses lead to pages of its own, always the same. *)
THEOREM MemoryImplemented == FileSpec => ImplementsMemory
<1>1. FileInit => TlbInv /\ Abstract!Init
  BY TlbInvInit, MemoryInit DEF FileInit
<1>2. TlbInv /\ [FileNext]_allVars => TlbInv'
  BY FileTlbStep
<1>3. TlbInv /\ [FileNext]_allVars => [vars' # vars => [Abstract!Next]_reached]_vars
  BY FileTlbStep
<1> QED BY <1>1, <1>2, <1>3, PTL DEF FileSpec, ImplementsMemory
-----------------------------------------------------------------------------
(***************************************************************************)
(* The calls of main.                                                      *)
(***************************************************************************)
Frames == [kind : {"init", "size", "module", "fixed"}, id : Modules \cup {NoModule},
           at : {"info", "search", "file", "entry"}]

FrameOK(frame) ==
  /\ frame.kind = "init" => frame.at = "info"
  /\ frame.kind # "init" => frame.id \in Modules
  /\ frame.kind = "size" => frame.at # "entry"

(* Calls below the innermost are at an overlay's first function, and fexecLoad is
   not called from one. *)
Stack(calls) ==
  /\ calls \in Seq(Frames)
  /\ \A i \in 1 .. Len(calls) : FrameOK(calls[i])
  /\ \A i \in 1 .. Len(calls) - 1 : calls[i].at = "entry"
  /\ \A i \in 2 .. Len(calls) : calls[i].kind # "fixed"

LEMMA StackLast ==
  ASSUME NEW calls, Stack(calls), calls # <<>>
  PROVE  /\ Len(calls) \in Nat /\ Len(calls) >= 1
         /\ calls[Len(calls)] \in Frames /\ FrameOK(calls[Len(calls)])
         /\ calls[1] \in Frames
         /\ calls[Len(calls)].kind = "fixed" => Len(calls) = 1
<1>1. calls \in Seq(Frames)
  BY DEF Stack
<1>2. Len(calls) \in Nat /\ Len(calls) >= 1
  BY <1>1, EmptySeq
<1>3. \A i \in 1 .. Len(calls) : calls[i] \in Frames
  BY <1>1, ElementOfSeq
<1>4. Len(calls) \in 1 .. Len(calls) /\ 1 \in 1 .. Len(calls)
  BY <1>2
<1>5. FrameOK(calls[Len(calls)])
  BY <1>4 DEF Stack
<1>6. calls[Len(calls)].kind = "fixed" => Len(calls) = 1
  <2> DEFINE n == Len(calls)
  <2> HIDE DEF n
  <2>0. n \in Nat /\ n >= 1
    BY <1>2 DEF n
  <2>1. n # 1 => n \in 2 .. n
    BY ONLY <2>0
  <2>2. \A i \in 2 .. Len(calls) : calls[i].kind # "fixed"
    BY DEF Stack
  <2>3. QED
    BY <2>1, <2>2 DEF n
<1> QED BY <1>2, <1>3, <1>4, <1>5, <1>6

LEMMA Pushed ==
  ASSUME NEW calls, Stack(calls), NEW frame \in Frames, FrameOK(frame),
         calls = <<>> \/ calls[Len(calls)].at = "entry",
         frame.kind = "fixed" => calls = <<>>
  PROVE  LET new == Append(calls, frame) IN
         /\ Stack(new) /\ new # <<>> /\ new[Len(new)] = frame
         /\ new[1] = IF calls = <<>> THEN frame ELSE calls[1]
<1> DEFINE new == Append(calls, frame)
           n == Len(calls)
<1>1. /\ new \in Seq(Frames) /\ Len(new) = n + 1 /\ n \in Nat
      /\ new[n + 1] = frame /\ \A i \in 1 .. n : new[i] = calls[i]
      /\ calls = <<>> <=> n = 0
  BY DEF Stack
<1>2. \A i \in 1 .. n : FrameOK(calls[i]) /\ calls[i].at = "entry"
  <2>1. TAKE i \in 1 .. n
  <2>2. FrameOK(calls[i]) /\ (i # n => i \in 1 .. n - 1)
    BY <1>1 DEF Stack
  <2>3. calls # <<>> /\ (i \in 1 .. n - 1 => calls[i].at = "entry")
    BY <1>1 DEF Stack
  <2>4. QED
    BY <2>2, <2>3
<1>3. \A i \in 2 .. n + 1 : new[i].kind # "fixed"
  <2>1. TAKE i \in 2 .. n + 1
  <2>2. CASE i = n + 1
    <3>1. n # 0 /\ new[i] = frame
      BY <1>1, <2>2
    <3>2. QED
      BY <1>1, <3>1
  <2>3. CASE i \in 2 .. n
    BY <1>1, <2>3 DEF Stack
  <2>4. QED
    BY <1>1, <2>2, <2>3
<1> HIDE DEF new, n
<1>4. Stack(new)
  <2>1. \A i \in 1 .. n + 1 : FrameOK(new[i])
    BY <1>1, <1>2
  <2>2. \A i \in 1 .. n : new[i].at = "entry"
    BY <1>1, <1>2
  <2>3. QED
    BY <1>1, <1>3, <2>1, <2>2 DEF Stack
<1>5. new # <<>>
  <2>1. Len(new) # 0
    BY <1>1
  <2>2. QED
    BY <2>1, EmptySeq
<1>6. new[1] = IF calls = <<>> THEN frame ELSE calls[1]
  <2>1. n # 0 => 1 \in 1 .. n
    BY <1>1
  <2>2. n = 0 => n + 1 = 1
    BY <1>1
  <2>3. QED
    BY <1>1, <2>1, <2>2
<1>7. QED
  BY ONLY <1>1, <1>4, <1>5, <1>6 DEF new

LEMMA Popped ==
  ASSUME NEW calls, Stack(calls), calls # <<>>
  PROVE  LET rest == SubSeq(calls, 1, Len(calls) - 1) IN
         /\ Stack(rest)
         /\ rest = <<>> <=> Len(calls) = 1
         /\ rest # <<>> => rest[Len(rest)].at = "entry" /\ rest[1] = calls[1]
<1> DEFINE rest == SubSeq(calls, 1, Len(calls) - 1)
           n == Len(calls)
<1>1. n \in Nat /\ n >= 1 /\ calls \in Seq(Frames)
  BY StackLast DEF Stack
<1>2. /\ rest \in Seq(Frames) /\ Len(rest) = n - 1
      /\ \A i \in 1 .. n - 1 : rest[i] = calls[i]
  <2>1. \A i \in 1 .. n - 1 : calls[i] \in Frames
    BY <1>1, ElementOfSeq
  <2>2. /\ rest \in Seq(Frames)
        /\ Len(rest) = IF 1 <= n - 1 THEN (n - 1) - 1 + 1 ELSE 0
        /\ \A i \in 1 .. (n - 1) - 1 + 1 : rest[i] = calls[1 + i - 1]
    BY <1>1, <2>1, SubSeqProperties
  <2> HIDE DEF rest, n
  <2>3. Len(rest) = n - 1
    BY ONLY <1>1, <2>2
  <2>4. ASSUME NEW i \in 1 .. n - 1 PROVE rest[i] = calls[i]
    <3>1. i \in 1 .. (n - 1) - 1 + 1 /\ 1 + i - 1 = i
      BY <1>1
    <3>2. QED
      BY <2>2, <3>1
  <2>5. QED
    BY <2>2, <2>3, <2>4
<1>3. rest = <<>> <=> n = 1
  <2> HIDE DEF rest
  <2>1. rest = <<>> => Len(rest) = 0
    BY EmptySeq
  <2>2. rest # <<>> => Len(rest) # 0
    BY <1>2, EmptySeq
  <2>3. QED
    BY <1>1, <1>2, <2>1, <2>2
<1> HIDE DEF rest
<1>4. Stack(rest)
  BY <1>1, <1>2 DEF Stack
<1>5. QED
  BY <1>1, <1>2, <1>3, <1>4 DEF rest, Stack

LEMMA MovedOn ==
  ASSUME NEW calls, Stack(calls), calls # <<>>,
         NEW place \in {"info", "search", "file", "entry"},
         FrameOK([calls[Len(calls)] EXCEPT !.at = place])
  PROVE  LET new == [calls EXCEPT ![Len(calls)].at = place] IN
         /\ Stack(new) /\ new # <<>>
         /\ new[Len(new)] = [calls[Len(calls)] EXCEPT !.at = place]
         /\ new[1] = IF Len(calls) = 1 THEN [calls[1] EXCEPT !.at = place] ELSE calls[1]
<1> DEFINE new == [calls EXCEPT ![Len(calls)].at = place]
           n == Len(calls)
           moved == [calls[Len(calls)] EXCEPT !.at = place]
<1>1. n \in Nat /\ n >= 1 /\ calls \in Seq(Frames) /\ calls[n] \in Frames
  BY StackLast DEF Stack
<1>2. moved \in Frames /\ moved.kind = calls[n].kind
  BY <1>1 DEF Frames
<1>3. new = [calls EXCEPT ![n] = moved]
  BY <1>1
<1> HIDE DEF new, moved
<1>4. /\ new \in Seq(Frames) /\ Len(new) = n /\ new[n] = moved
      /\ \A i \in 1 .. n - 1 : new[i] = calls[i]
  BY <1>1, <1>2, <1>3
<1>5. Stack(new)
  <2>1. \A i \in 1 .. n : FrameOK(new[i])
    BY <1>1, <1>4 DEF Stack, moved
  <2>2. \A i \in 2 .. n : new[i].kind # "fixed"
    BY <1>1, <1>2, <1>4 DEF Stack
  <2>3. QED
    BY <1>1, <1>4, <2>1, <2>2 DEF Stack
<1>6. QED
  BY <1>1, <1>4, <1>5 DEF new, moved

(* While a file is looked for and read, the block is the overlay's own, its address
   is nobody else's, and once it was found it is mapped. *)
Pending(frame) ==
  frame.at # "entry" =>
    /\ frame.kind # "init" => D_800A0134 = BlockOf[frame.id]
    /\ frame.kind = "module" =>
         /\ \A m \in Mapped : VirtualPage[m] = VirtualPage[frame.id] => m = frame.id
         /\ frame.at = "file" => frame.id \in Mapped /\ Whole(frame.id)

BlocksOK == exec # <<>> => Pending(Top)

(* fexecLoad's call is the outermost, and no module has pages then. *)
FixedRuns == exec # <<>> /\ exec[1].kind = "fixed"

FixedOK == FixedRuns => Loaded = {}

RamOK ==
  /\ filled \subseteq Mapped /\ DOMAIN ram = Slots
  /\ \A m \in filled : \A i \in OwnedBy(m) :
       ram[i] = [module |-> m, page |-> D_800CA668[i].vaddr - VirtualPage[m]]

MainInv == Stack(exec) /\ BlocksOK /\ FixedOK /\ RamOK
FileInv == TlbInv /\ DmaInv /\ MainInv

SameOverlay ==
  UNCHANGED <<Loaded, Mapped>> /\ \A m : OwnedBy(m)' = OwnedBy(m) /\ (Whole(m)' <=> Whole(m))

LEMMA OverlaySame ==
  ASSUME UNCHANGED <<D_800CA668, gTLBTable, overlayVars>>
  PROVE  SameOverlay
BY DEF SameOverlay, overlayVars, Loaded, Mapped, OwnedBy, Whole, Firsts, TlbOf

LEMMA RamSame ==
  ASSUME RamOK, UNCHANGED <<D_800CA668, gTLBTable, overlayVars, ram, filled>>
  PROVE  RamOK'
BY DEF RamOK, overlayVars, Mapped, Loaded, OwnedBy, TlbOf

(* The outermost call stays what it is. *)
OutermostKept == FixedRuns' <=> FixedRuns

LEMMA FixedKept ==
  ASSUME FixedOK, SameOverlay, OutermostKept
  PROVE  FixedOK'
BY DEF FixedOK, SameOverlay, OutermostKept

LEMMA MainInvInit == FileInit => MainInv
<1> SUFFICES ASSUME FileInit PROVE MainInv
  OBVIOUS
<1>1. Stack(exec)
  BY DEF FileInit, Stack
<1>2. BlocksOK /\ FixedOK
  BY DEF FileInit, BlocksOK, FixedOK, FixedRuns
<1>3. RamOK
  BY DEF FileInit, RamOK
<1> QED BY <1>1, <1>2, <1>3 DEF MainInv

(* What is not a step of main. *)
LEMMA MainSame ==
  ASSUME MainInv, UNCHANGED <<vars, fileVars, exec>>
  PROVE  MainInv'
<1>1. UNCHANGED <<D_800CA668, gTLBTable, overlayVars>> /\ SameOverlay
  BY OverlaySame DEF vars, pageVars
<1>2. Stack(exec)' /\ BlocksOK'
  BY <1>1 DEF MainInv, BlocksOK, Pending, SameOverlay, Top, fileVars
<1>3. FixedOK'
  BY <1>1, FixedKept DEF MainInv, OutermostKept, FixedRuns, fileVars
<1>4. RamOK'
  BY <1>1, RamSame DEF MainInv, fileVars
<1> QED BY <1>2, <1>3, <1>4 DEF MainInv

LEMMA FreeMeans ==
  ASSUME MainInv, MainFree
  PROVE  exec = <<>> \/ Top.at = "entry"
<1> SUFFICES ASSUME exec # <<>> PROVE Top.at = "entry"
  OBVIOUS
<1>1. Top.at \in {"game", "entry"}
  BY DEF MainFree, Place
<1>2. Top \in Frames
  BY StackLast DEF MainInv, Top
<1> QED BY <1>1, <1>2 DEF Frames

(* A call that reads the list of a block, of an overlay or at the start. *)
LEMMA CallKeeps ==
  ASSUME MainInv, MainFree, NEW kind \in {"init", "size", "module", "fixed"},
         NEW id \in Modules \cup {NoModule}, Tolerated(Frame(kind, id)),
         kind # "init" => id \in Modules /\ D_800A0134' = BlockOf[id],
         exec' = Append(exec, Frame(kind, id)), UNCHANGED <<vars, ram, filled>>
  PROVE  MainInv'
<1> DEFINE frame == Frame(kind, id)
<1>1. /\ frame \in Frames /\ FrameOK(frame) /\ frame.at = "info"
      /\ frame.kind = kind /\ frame.id = id
  BY DEF Frame, Frames, FrameOK
<1>2. exec = <<>> \/ exec[Len(exec)].at = "entry"
  BY FreeMeans DEF Top
<1>3. kind = "fixed" => exec = <<>> /\ Loaded = {}
  BY <1>1 DEF Tolerated
<1> HIDE DEF frame
<1>4. /\ Stack(exec') /\ exec' # <<>> /\ exec'[Len(exec')] = frame
      /\ exec'[1] = IF exec = <<>> THEN frame ELSE exec[1]
  BY <1>1, <1>2, <1>3, Pushed DEF MainInv, frame
<1>5. UNCHANGED <<D_800CA668, gTLBTable, overlayVars>> /\ SameOverlay
  BY OverlaySame DEF vars, pageVars
<1>7. BlocksOK'
  <2>1. kind = "module" =>
          \A m \in Mapped : VirtualPage[m] = VirtualPage[id] => m = id
    BY <1>1 DEF Tolerated, frame
  <2>3. Top' = frame
    BY <1>4 DEF Top
  <2>4. Pending(Top)'
    BY <1>1, <1>5, <2>1, <2>3 DEF Pending, SameOverlay
  <2>6. QED
    BY <2>4 DEF BlocksOK
<1>8. FixedOK'
  <2>1. CASE kind = "fixed"
    BY <1>3, <1>5, <2>1 DEF FixedOK, SameOverlay
  <2>2. CASE kind # "fixed"
    <3>1. OutermostKept
      BY <1>1, <1>4, <2>2 DEF OutermostKept, FixedRuns
    <3>2. QED
      BY <1>5, <2>2, <3>1, FixedKept DEF MainInv
  <2>3. QED
    BY <2>1, <2>2
<1>9. RamOK'
  BY <1>5, RamSame DEF MainInv
<1> QED BY <1>4, <1>7, <1>8, <1>9 DEF MainInv

LEMMA FileCallKeeps ==
  ASSUME MainInv, FileCall
  PROVE  MainInv'
<1>1. CASE Tolerated(Frame("init", NoModule)) /\ fexecInit
  BY <1>1, CallKeeps DEF fexecInit, Calls
<1>2. ASSUME NEW b \in Blocks, fexecChangeBlock(b)
      PROVE  MainInv'
  <2>2. exec # <<>> => Top.at = "entry"
    BY <1>2, FreeMeans DEF fexecChangeBlock
  <2>3. SameOverlay /\ UNCHANGED <<D_800CA668, gTLBTable, overlayVars>>
    BY <1>2, OverlaySame DEF fexecChangeBlock, vars, pageVars
  <2>4. BlocksOK'
    BY <1>2, <2>2 DEF fexecChangeBlock, BlocksOK, Pending, Top
  <2>5. FixedOK'
    BY <1>2, <2>3, FixedKept DEF fexecChangeBlock, MainInv, OutermostKept, FixedRuns
  <2>6. RamOK'
    BY <1>2, <2>3, RamSame DEF fexecChangeBlock, MainInv
  <2>7. QED
    BY <1>2, <2>4, <2>5, <2>6 DEF fexecChangeBlock, MainInv
<1>3. ASSUME NEW id \in Modules, Tolerated(Frame("module", id)), fexecLoadAddress(id)
      PROVE  MainInv'
  BY <1>3, CallKeeps DEF fexecLoadAddress, OpensBlock, Calls
<1>4. ASSUME NEW id \in Modules, Tolerated(Frame("fixed", id)), fexecLoad(id)
      PROVE  MainInv'
  BY <1>4, CallKeeps DEF fexecLoad, OpensBlock, Calls
<1>5. ASSUME NEW id \in Modules, fexecGetFileSize(id)
      PROVE  MainInv'
  <2>1. Tolerated(Frame("size", id))
    BY DEF Tolerated, Frame
  <2>2. QED
    BY <1>5, <2>1, CallKeeps DEF fexecGetFileSize, OpensBlock, Calls
<1> QED BY <1>1, <1>2, <1>3, <1>4, <1>5 DEF FileCall

(* A call that is over: it was not fexecLoad's, and nothing is known of the rest
   but that it is at a first function. *)
LEMMA EndKeeps ==
  ASSUME MainInv, exec # <<>>, Top.kind # "fixed", exec' = Before,
         UNCHANGED <<vars, ram, filled>>
  PROVE  MainInv'
<1>1. /\ Stack(Before)
      /\ Before = <<>> <=> Len(exec) = 1
      /\ Before # <<>> => Before[Len(Before)].at = "entry" /\ Before[1] = exec[1]
  BY Popped DEF MainInv, Before
<1>2. UNCHANGED <<D_800CA668, gTLBTable, overlayVars>> /\ SameOverlay
  BY OverlaySame DEF vars, pageVars
<1>3. BlocksOK'
  <2>1. Before # <<>> => Top'.at = "entry"
    BY <1>1 DEF Top
  <2>2. QED
    BY <2>1 DEF MainInv, BlocksOK, Pending
<1>4. OutermostKept
  <2>1. Len(exec) = 1 => exec[1].kind # "fixed"
    BY DEF Top
  <2>2. FixedRuns => Before # <<>>
    BY <1>1, <2>1 DEF FixedRuns
  <2> DEFINE rest == Before
  <2> HIDE DEF rest
  <2>3. exec' = rest /\ (rest # <<>> => rest[1] = exec[1])
    BY <1>1 DEF rest
  <2>4. FixedRuns => rest # <<>>
    BY <2>2 DEF rest
  <2>5. QED
    BY ONLY <2>3, <2>4, exec # <<>> DEF OutermostKept, FixedRuns
<1>5. FixedOK'
  BY <1>2, <1>4, FixedKept DEF MainInv
<1>6. RamOK'
  BY <1>2, RamSame DEF MainInv
<1>7. Stack(exec)'
  BY <1>1
<1> QED BY <1>3, <1>5, <1>6, <1>7 DEF MainInv

(* The innermost call goes on to its next read. *)
LEMMA GoesOn ==
  ASSUME MainInv, exec # <<>>, Top.kind # "init", NEW place \in {"search", "file", "entry"},
         GoesTo(place), place = "entry" => Top.kind # "size"
  PROVE  /\ Stack(exec') /\ exec' # <<>> /\ Top' = [Top EXCEPT !.at = place]
         /\ Top' \in Frames /\ Top'.at = place /\ Top'.kind = Top.kind /\ Top'.id = Top.id
         /\ exec'[1] = IF Len(exec) = 1 THEN Top' ELSE exec[1]
         /\ place # "entry" => OutermostKept
<1>1. /\ Len(exec) \in Nat /\ Len(exec) >= 1 /\ Top \in Frames /\ FrameOK(Top)
      /\ Len(exec) = 1 => exec[1] = Top
  BY StackLast DEF MainInv, Top
<1>2. FrameOK([Top EXCEPT !.at = place])
  BY <1>1 DEF Frames, FrameOK
<1>3. /\ Stack(exec') /\ exec' # <<>> /\ exec'[Len(exec')] = [Top EXCEPT !.at = place]
      /\ exec'[1] = IF Len(exec) = 1 THEN [exec[1] EXCEPT !.at = place] ELSE exec[1]
  BY <1>2, MovedOn DEF MainInv, GoesTo, Top
<1>4. Top' = [Top EXCEPT !.at = place]
  BY <1>3 DEF Top
<1>5. Top' \in Frames /\ Top'.at = place /\ Top'.kind = Top.kind /\ Top'.id = Top.id
  BY <1>1, <1>4 DEF Frames
<1>6. exec'[1] = IF Len(exec) = 1 THEN Top' ELSE exec[1]
  BY <1>1, <1>3, <1>4
<1>7. place # "entry" => OutermostKept
  BY <1>1, <1>3, <1>5, <1>6 DEF OutermostKept, FixedRuns
<1> QED BY <1>3, <1>4, <1>5, <1>6, <1>7

LEMMA InfoReadKeeps ==
  ASSUME MainInv, InfoRead
  PROVE  MainInv'
<1>1. exec # <<>> /\ Top.at = "info"
  BY DEF InfoRead, At, Place
<1>2. CASE Top.kind = "init"
  BY <1>1, <1>2, EndKeeps DEF InfoRead
<1>3. CASE Top.kind # "init"
  <2>1. GoesTo("search") /\ UNCHANGED <<vars, fileVars>>
    BY <1>3 DEF InfoRead, fileVars
  <2>2. /\ Stack(exec') /\ Top'.at = "search" /\ Top'.kind = Top.kind /\ Top'.id = Top.id
        /\ OutermostKept
    BY <1>1, <1>3, <2>1, GoesOn
  <2>3. UNCHANGED <<D_800CA668, gTLBTable, overlayVars>> /\ SameOverlay
    BY <2>1, OverlaySame DEF vars, pageVars
  <2>4. Pending(Top)
    BY <1>1 DEF MainInv, BlocksOK
  <2>5. Pending(Top)'
    BY <1>1, <2>1, <2>2, <2>3, <2>4 DEF Pending, SameOverlay, fileVars
  <2>6. BlocksOK'
    BY <2>1, <2>5 DEF MainInv, BlocksOK, fileVars
  <2>7. FixedOK' /\ RamOK'
    BY <2>1, <2>2, <2>3, FixedKept, RamSame DEF MainInv, fileVars
  <2>8. QED
    BY <2>2, <2>6, <2>7 DEF MainInv
<1> QED BY <1>2, <1>3

(* fexecLoadAddress searches: what is known of the file's block and address. *)
LEMMA SearchFacts ==
  ASSUME FileInv, Searches
  PROVE  /\ exec # <<>> /\ Top.at = "search" /\ Top.kind # "init" /\ Top.id \in Modules
         /\ D_800A0134 = BlockOf[Top.id]
         /\ Top.kind = "fixed" => func(Top) >= KSEG0
         /\ Top.kind = "module" =>
              /\ func(Top) < KSEG0
              /\ load_addr(Top) = func(Top) <=> Top.id \notin Mapped
<1>1. exec # <<>> /\ Top.at = "search" /\ ~ stopped
  BY DEF Searches, At, Place
<1>2. Top \in Frames /\ FrameOK(Top)
  BY <1>1, StackLast DEF FileInv, MainInv, Top
<1>3. Top.kind # "init" /\ Top.id \in Modules
  BY <1>1, <1>2 DEF FrameOK
<1>4. Pending(Top)
  BY <1>1 DEF FileInv, MainInv, BlocksOK
<1>5. Top.kind = "fixed" => func(Top) >= KSEG0
  BY UnitsType DEF func
<1>6. ASSUME Top.kind = "module"
      PROVE  /\ func(Top) < KSEG0
             /\ load_addr(Top) = func(Top) <=> Top.id \notin Mapped
  <2> DEFINE m == Top.id
  <2>1. func(Top) = Virtual(m) /\ m \in Modules
    BY <1>3, <1>6 DEF func
  <2>2. Virtual(m) < KSEG0 /\ Virtual(m) \in Nat
    <3>1. MODULE_PAGE_COUNT * MODULE_UNITS >= 0
      BY UnitsType
    <3>2. PICK x \in Nat : x = MODULE_PAGE_COUNT * MODULE_UNITS
      BY UnitsType
    <3>3. Virtual(m) + x < KSEG0 /\ Virtual(m) \in Nat
      BY <1>3, <3>2, ModuleAddresses
    <3>4. QED
      BY <3>3, UnitsType
  <2>3. ASSUME m \in Mapped
        PROVE  _tlb_lookup(Virtual(m)) # Virtual(m)
    <3>1. m \in Loaded /\ Whole(m)
      BY <1>1, <2>3 DEF FileInv, TlbInv, Mapped
    <3>2. PICK base \in Nat, count \in PageCounts : Run(m, base, count)
      BY <2>1, <3>1, LoadedHasRun DEF FileInv
    <3>3. count \in Nat /\ count > 0
      BY PageCountAssumption
    <3>4. 0 < count * MODULE_UNITS
      BY <3>3, UnitsType
    <3>5. _tlb_lookup(Virtual(m) + 0) = KSEG0 + RAM_BASE + base * MODULE_UNITS + 0
      BY <3>1, <3>2, <3>4, LookupWhole DEF FileInv
    <3>6. PICK x \in Nat : x = base * MODULE_UNITS
      BY UnitsType
    <3>7. _tlb_lookup(Virtual(m)) = KSEG0 + RAM_BASE + x
      BY <2>2, <3>5, <3>6, UnitsType
    <3>8. QED
      BY <2>2, <3>6, <3>7, UnitsType
  <2>4. ASSUME m \notin Mapped
        PROVE  _tlb_lookup(Virtual(m)) = Virtual(m)
    <3>1. \A n \in Mapped : VirtualPage[n] # VirtualPage[m]
      BY <1>1, <1>4, <1>6, <2>4 DEF Pending
    <3>2. QED
      BY <2>1, <3>1, LookupNone DEF FileInv
  <2>5. QED
    BY <2>1, <2>2, <2>3, <2>4 DEF load_addr
<1> QED BY <1>1, <1>3, <1>4, <1>5, <1>6 DEF Pending

LEMMA SearchesKeeps ==
  ASSUME FileInv, Searches
  PROVE  MainInv'
<1>1. /\ exec # <<>> /\ Top.at = "search" /\ Top.kind # "init" /\ Top.id \in Modules
      /\ Top.kind = "module" =>
           func(Top) < KSEG0 /\ (load_addr(Top) = func(Top) <=> Top.id \notin Mapped)
  BY SearchFacts
<1>2. UNCHANGED <<D_800CA668, gTLBTable, overlayVars, fileVars>> /\ SameOverlay
  BY OverlaySame DEF Searches
<1>3. MainInv /\ TlbInv /\ ~ stopped
  BY DEF FileInv, Searches
<1>4. Pending(Top)
  BY <1>1, <1>3 DEF MainInv, BlocksOK
<1>5. CASE UNCHANGED exec
  <2>1. Stack(exec)' /\ BlocksOK'
    BY <1>2, <1>3, <1>5 DEF MainInv, BlocksOK, Pending, SameOverlay, Top, fileVars
  <2>2. FixedOK' /\ RamOK'
    BY <1>2, <1>3, <1>5, FixedKept, RamSame DEF MainInv, OutermostKept, FixedRuns, fileVars
  <2>3. QED
    BY <2>1, <2>2 DEF MainInv
<1>6. CASE GoesTo("file") /\ ~ (/\ Top.kind # "size"
                                /\ func(Top) < KSEG0 /\ load_addr(Top) = func(Top))
  <2>1. /\ Stack(exec') /\ Top'.at = "file" /\ Top'.kind = Top.kind /\ Top'.id = Top.id
        /\ OutermostKept
    BY <1>1, <1>3, <1>6, GoesOn
  <2>2. Top.kind = "module" => Top.id \in Mapped /\ Whole(Top.id)
    BY <1>1, <1>3, <1>6 DEF TlbInv
  <2>3. Pending(Top)'
    BY <1>1, <1>2, <1>4, <2>1, <2>2 DEF Pending, SameOverlay, fileVars
  <2>4. BlocksOK'
    BY <1>2, <1>3, <2>3 DEF MainInv, BlocksOK, fileVars
  <2>5. FixedOK' /\ RamOK'
    BY <1>2, <1>3, <2>1, FixedKept, RamSame DEF MainInv, fileVars
  <2>6. QED
    BY <2>1, <2>4, <2>5 DEF MainInv
<1> QED BY <1>5, <1>6 DEF Searches

(* Where a page of a module is found: the pages in step with its addresses. *)
LEMMA FirstPageOfModule ==
  ASSUME TlbInv, NEW frame \in Frames, frame.kind = "module", frame.id \in Loaded,
         Whole(frame.id), NEW base \in Nat, NEW count \in PageCounts,
         Run(frame.id, base, count)
  PROVE  FirstPage(frame) = base
<1>1. frame.id \in Modules /\ count \in Nat /\ count > 0
  BY PageCountAssumption DEF Loaded
<1>2. 0 < count * MODULE_UNITS
  BY <1>1, UnitsType
<1>3. _tlb_lookup(Virtual(frame.id) + 0) = KSEG0 + RAM_BASE + base * MODULE_UNITS + 0
  BY <1>2, LookupWhole
<1>4. PICK x \in Nat : x = base * MODULE_UNITS
  BY UnitsType
<1>5. load_addr(frame) = KSEG0 + RAM_BASE + x
  BY <1>1, <1>3, <1>4, ModuleAddresses, UnitsType DEF load_addr, func
<1>6. load_addr(frame) - KSEG0 - RAM_BASE = x
  BY <1>4, <1>5, UnitsType
<1>7. x \div MODULE_UNITS = base
  <2>1. x = base * MODULE_UNITS + 0 /\ 0 \in 0 .. MODULE_UNITS - 1
    BY <1>4, UnitsType
  <2>2. QED
    BY <1>4, <2>1, Quotient, UnitsType
<1> QED BY <1>6, <1>7 DEF FirstPage

LEMMA FileReadKeeps ==
  ASSUME FileInv, FileRead
  PROVE  MainInv'
<1>1. MainInv /\ TlbInv /\ exec # <<>> /\ Top.at = "file"
  BY DEF FileInv, FileRead, At, Place
<1>2. /\ Top \in Frames /\ FrameOK(Top) /\ Len(exec) \in Nat
      /\ Top.kind = "fixed" => Len(exec) = 1
      /\ Len(exec) = 1 => exec[1] = Top
  BY <1>1, StackLast DEF MainInv, Top
<1>3. Top.kind # "init" /\ Top.id \in Modules
  BY <1>1, <1>2 DEF FrameOK
<1>4. UNCHANGED <<D_800CA668, gTLBTable, overlayVars>> /\ SameOverlay
  BY OverlaySame DEF FileRead, vars, pageVars
<1>5. main \in arrived
  <2>1. main \in UnderWay /\ D_80097D68 = 1
    BY MainAssumption DEF FileRead, ReadReturns, osRecvMesg, UnderWay
  <2>2. QED
    BY <2>1 DEF FileInv, DmaInv, OneUnderWay, AskedFor, Complete
<1>6. Pending(Top)
  BY <1>1 DEF MainInv, BlocksOK
<1>7. CASE Top.kind = "size"
  BY <1>1, <1>7, EndKeeps DEF FileRead
<1>8. CASE Top.kind # "size"
  <2> DEFINE id == Top.id
  <2>1. /\ GoesTo("entry") /\ ram' = Copied(Top)
        /\ filled' = (IF Top.kind = "module" THEN filled \cup {id} ELSE filled)
    BY <1>8 DEF FileRead
  <2>2. /\ Stack(exec') /\ exec' # <<>> /\ Top'.at = "entry"
        /\ Top'.kind = Top.kind /\ Top'.id = id
        /\ exec'[1] = IF Len(exec) = 1 THEN Top' ELSE exec[1]
    BY <1>1, <1>3, <1>8, <2>1, GoesOn
  <2>3. BlocksOK'
    <3>1. Pending(Top)'
      BY <2>2 DEF Pending
    <3>2. QED
      BY <3>1 DEF BlocksOK
  <2>4. CASE Top.kind = "module"
    <3>1. id \in Mapped /\ id \in Loaded /\ Whole(id)
      BY <1>1, <1>6, <2>4 DEF Pending, Mapped
    <3>2. PICK base \in Nat, count \in PageCounts : Run(id, base, count)
      BY <1>1, <1>3, <3>1, LoadedHasRun
    <3>3. FirstPage(Top) = base /\ Cardinality(OwnedBy(id)) = count
      BY <1>1, <1>2, <1>3, <2>4, <3>1, <3>2, FirstPageOfModule, RunCounts
    <3>4. ram' = [s \in Slots |->
                    IF s \in base .. base + count - 1
                    THEN [module |-> id, page |-> s - base] ELSE ram[s]]
      BY <1>5, <2>1, <2>4, <3>3 DEF Copied
    <3>5. OwnedBy(id) = base .. base + count - 1 /\ count \in Nat
          /\ \A i \in OwnedBy(id) : D_800CA668[i].vaddr = VirtualPage[id] + (i - base)
      BY <3>2, PageCountAssumption DEF Run
    <3>6. ASSUME NEW m \in filled', NEW i \in OwnedBy(m)
          PROVE  ram'[i] = [module |-> m, page |-> D_800CA668[i].vaddr - VirtualPage[m]]
      <4>1. i \in Slots
        BY DEF OwnedBy
      <4>2. CASE m = id
        <5>1. i \in base .. base + count - 1
          BY <3>5, <4>2
        <5>2. D_800CA668[i].vaddr - VirtualPage[id] = i - base
          BY <1>3, <3>2, <3>5, <4>2, <5>1, ModuleAddresses
        <5>3. QED
          BY <3>4, <4>1, <4>2, <5>1, <5>2
      <4>3. CASE m # id
        <5>1. m \in filled
          BY <2>1, <4>3
        <5>2. i \notin OwnedBy(id)
          BY <4>3 DEF OwnedBy
        <5>3. ram'[i] = ram[i]
          BY <3>4, <3>5, <4>1, <5>2
        <5>4. QED
          BY <1>1, <5>1, <5>3 DEF MainInv, RamOK
      <4>4. QED
        BY <4>2, <4>3
    <3>7. RamOK'
      <4>1. filled' \subseteq Mapped' /\ DOMAIN ram' = Slots
        BY <1>1, <1>4, <2>1, <3>1, <3>4 DEF MainInv, RamOK, SameOverlay
      <4>2. \A m \in filled' : \A i \in OwnedBy(m)' :
              ram'[i] = [module |-> m, page |-> D_800CA668'[i].vaddr - VirtualPage[m]]
        BY <1>4, <3>6 DEF SameOverlay
      <4>3. QED
        BY <4>1, <4>2 DEF RamOK
    <3>8. FixedOK'
      <4>1. ~ FixedRuns
        BY <1>1, <3>1 DEF MainInv, FixedOK
      <4>2. exec'[1].kind # "fixed"
        BY <1>1, <2>2, <2>4, <4>1 DEF FixedRuns
      <4>3. QED
        BY <4>2 DEF FixedOK, FixedRuns
    <3>9. QED
      BY <2>2, <2>3, <3>7, <3>8 DEF MainInv
  <2>5. CASE Top.kind = "fixed"
    <3>1. FixedRuns /\ Loaded = {}
      BY <1>1, <1>2, <2>5 DEF FixedRuns, MainInv, FixedOK
    <3>2. FixedOK'
      BY <1>4, <3>1 DEF FixedOK, SameOverlay
    <3>3. filled' = {}
      BY <1>1, <2>1, <2>5, <3>1 DEF MainInv, RamOK, Mapped
    <3>4. RamOK'
      BY <2>1, <3>3 DEF RamOK, Copied
    <3>5. QED
      BY <2>2, <2>3, <3>2, <3>4 DEF MainInv
  <2>6. QED
    BY <1>2, <1>3, <1>8, <2>4, <2>5 DEF Frames
<1> QED BY <1>7, <1>8

LEMMA EntryReturnsKeeps ==
  ASSUME MainInv, EntryReturns
  PROVE  MainInv'
<1>1. exec # <<>> /\ Top.at = "entry"
  BY DEF EntryReturns, At, Place
<1>2. CASE Top.kind # "fixed"
  BY <1>1, <1>2, EndKeeps DEF EntryReturns
<1>3. CASE Top.kind = "fixed"
  <2>1. Len(exec) = 1 /\ exec[1] = Top
    BY <1>1, <1>3, StackLast DEF MainInv, Top
  <2>2. exec' = <<>> /\ Stack(exec')
    BY <1>1, <2>1, Popped DEF MainInv, EntryReturns, Before
  <2>3. UNCHANGED <<D_800CA668, gTLBTable, overlayVars>> /\ SameOverlay
    BY OverlaySame DEF EntryReturns, vars, pageVars
  <2>7. FixedOK'
    BY <2>2 DEF FixedOK, FixedRuns
  <2>8. BlocksOK' /\ RamOK'
    BY <2>2, <2>3, RamSame DEF MainInv, BlocksOK, EntryReturns
  <2>9. QED
    BY <2>2, <2>7, <2>8 DEF MainInv
<1> QED BY <1>2, <1>3

LEMMA ModuleCallKeeps ==
  ASSUME FileInv, ModuleCall
  PROVE  MainInv'
<1>1. MainInv /\ TlbInv /\ Next /\ exec = <<>> /\ exec' = <<>>
  BY DEF FileInv, ModuleCall
<1>2. Stack(exec)' /\ BlocksOK' /\ FixedOK'
  BY <1>1 DEF MainInv, BlocksOK, FixedOK, FixedRuns
<1>3. ASSUME NEW m \in filled'
      PROVE  m \in Modules /\ Untouched(m) /\ m \in Mapped' /\ m \in filled
  <2>1. m \in filled /\ OwnedBy(m)' # {}
    BY DEF ModuleCall
  <2>2. m \in Mapped
    BY <1>1, <2>1 DEF MainInv, RamOK
  <2>3. QED
    BY <1>1, <2>1, <2>2, KeepsMapped DEF Mapped, Loaded
<1>4. ASSUME NEW m \in filled', NEW i \in OwnedBy(m)'
      PROVE  ram'[i] = [module |-> m, page |-> D_800CA668'[i].vaddr - VirtualPage[m]]
  <2>1. i \in OwnedBy(m) /\ D_800CA668'[i] = D_800CA668[i] /\ m \in filled /\ m \in Modules
    BY <1>3 DEF Untouched
  <2>2. i \in Slots /\ D_800CA668[i].module_id = m /\ m # NoModule
    BY <2>1, ModulesAssumption DEF OwnedBy, NoModule
  <2>3. ram'[i] = ram[i]
    BY <2>1, <2>2 DEF ModuleCall
  <2>4. QED
    BY <1>1, <2>1, <2>3 DEF MainInv, RamOK
<1>5. RamOK'
  <2>1. DOMAIN ram' = Slots
    BY DEF ModuleCall
  <2>2. QED
    BY <1>3, <1>4, <2>1 DEF RamOK
<1> QED BY <1>2, <1>5 DEF MainInv

LEMMA FileStepKeeps ==
  ASSUME FileInv, [FileNext]_allVars
  PROVE  FileInv'
<1>1. TlbInv'
  BY FileTlbStep DEF FileInv
<1>2. DmaInv'
  BY Inductive DEF FileInv
<1>3. MainInv'
  <2>1. CASE FileCall
    BY <2>1, FileCallKeeps DEF FileInv
  <2>2. CASE FileStep
    BY <2>2, InfoReadKeeps, SearchesKeeps, FileReadKeeps, EntryReturnsKeeps
       DEF FileInv, FileStep
  <2>3. CASE ModuleCall
    BY <2>3, ModuleCallKeeps
  <2>4. CASE DmaNext \/ UNCHANGED allVars
    <3>1. UNCHANGED <<vars, fileVars, exec>>
      BY <2>4 DEF DmaNext, allVars
    <3>2. QED
      BY <3>1, MainSame DEF FileInv
  <2>5. QED
    BY <2>1, <2>2, <2>3, <2>4 DEF FileNext
<1> QED BY <1>1, <1>2, <1>3 DEF FileInv

LEMMA FileInvInit == FileInit => FileInv
BY InitHolds, TlbInvInit, MainInvInit DEF FileInit, FileInv

LEMMA FileInvAlways == FileSpec => []FileInv
<1>1. FileInv /\ [FileNext]_allVars => FileInv'
  BY FileStepKeeps
<1> QED BY <1>1, FileInvInit, PTL DEF FileSpec

LEMMA CodeIsThere == FileInv => CodeIsOwn
<1> SUFFICES ASSUME FileInv, ~ stopped, NEW m \in filled, NEW offset \in 0 .. SizeOf(m) - 1
    PROVE  LET found == _tlb_lookup(Virtual(m) + offset) - KSEG0 - RAM_BASE IN
           /\ found % MODULE_UNITS = offset % MODULE_UNITS
           /\ ram[found \div MODULE_UNITS] = [module |-> m, page |-> offset \div MODULE_UNITS]
  BY DEF CodeIsOwn
<1>1. m \in Mapped /\ m \in Loaded /\ m \in Modules /\ Whole(m) /\ TlbInv
  BY DEF FileInv, MainInv, RamOK, TlbInv, Mapped, Loaded
<1>2. PICK base \in Nat, count \in PageCounts : Run(m, base, count)
  BY <1>1, LoadedHasRun
<1>3. Cardinality(OwnedBy(m)) = count /\ count \in Nat
  BY <1>1, <1>2, RunCounts
<1> DEFINE u == MODULE_UNITS
           q == offset \div u
           r == offset % u
<1>4. u \in Nat /\ u > 0
  BY UnitsType
<1>5. PICK size \in Nat : size = count * u
  BY <1>3, <1>4
<1>6. offset \in Nat /\ offset < size
  BY <1>3, <1>5 DEF SizeOf
<1>7. q \in Int /\ r \in 0 .. u - 1 /\ offset = q * u + r
  BY <1>4, <1>6, QuotientParts
<1> HIDE DEF u, q, r
<1>8. q \in 0 .. count - 1
  <2>1. PICK y \in Int : y = q * u
    BY <1>4, <1>7
  <2>2. y <= offset /\ offset < y + u
    BY <1>4, <1>6, <1>7, <2>1
  <2>3. q >= 0
    <3>1. SUFFICES ASSUME q <= -1 PROVE FALSE
      BY <1>7
    <3>2. q * u <= (-1) * u
      BY <1>4, <1>7, <3>1, TimesGrow
    <3>3. QED
      BY <1>4, <1>6, <2>1, <2>2, <3>2
  <2>4. q < count
    <3>1. SUFFICES ASSUME count <= q PROVE FALSE
      BY <1>3, <1>7
    <3>2. count * u <= q * u
      BY <1>3, <1>4, <1>7, <3>1, TimesGrow
    <3>3. QED
      BY <1>5, <1>6, <2>1, <2>2, <3>2
  <2>5. QED
    BY <1>3, <1>7, <2>3, <2>4
<1> DEFINE found == _tlb_lookup(Virtual(m) + offset) - KSEG0 - RAM_BASE
<1>9. found = (base + q) * u + r
  <2>1. _tlb_lookup(Virtual(m) + offset) = KSEG0 + RAM_BASE + base * u + offset
    BY <1>1, <1>2, <1>5, <1>6, LookupWhole DEF u
  <2>2. PICK x \in Int : x = base * u
    BY <1>4
  <2>3. found = x + offset
    BY <1>6, <2>1, <2>2, UnitsType
  <2>4. (base + q) * u = x + q * u
    BY <1>4, <1>7, <2>2, TimesAdd
  <2>5. PICK y \in Int : y = q * u
    BY <1>4, <1>7
  <2>6. QED
    BY <1>7, <2>2, <2>3, <2>4, <2>5
<1> HIDE DEF found
<1>10. found \div u = base + q /\ found % u = r
  <2>1. base + q \in Int /\ found \in Int
    <3>1. PICK x \in Int : x = (base + q) * u
      BY <1>4, <1>7
    <3>2. QED
      BY <1>7, <1>9, <3>1
  <2>2. QED
    BY <1>4, <1>7, <1>9, <2>1, Quotient
<1>11. base + q \in OwnedBy(m) /\ D_800CA668[base + q].vaddr = VirtualPage[m] + q
  <2>1. base + q \in base .. base + count - 1
    BY <1>3, <1>8
  <2>2. OwnedBy(m) = base .. base + count - 1
        /\ \A i \in OwnedBy(m) : D_800CA668[i].vaddr = VirtualPage[m] + (i - base)
    BY <1>2 DEF Run
  <2>3. (base + q) - base = q
    BY <1>7
  <2>4. QED
    BY <2>1, <2>2, <2>3
<1>12. ram[base + q] = [module |-> m, page |-> q]
  <2>1. ram[base + q] = [module |-> m, page |-> D_800CA668[base + q].vaddr - VirtualPage[m]]
    BY <1>11 DEF FileInv, MainInv, RamOK
  <2>2. (VirtualPage[m] + q) - VirtualPage[m] = q
    BY <1>1, <1>7, ModuleAddresses
  <2>3. QED
    BY <1>11, <2>1, <2>2
<1> QED BY <1>10, <1>12 DEF found, u, q, r

(* However many overlays are loaded, in which order, and whatever calls their first
   functions make: from the return of fexecLoadAddress until it is unloaded an
   overlay finds its own file at its own addresses, each page in its place. *)
THEOREM OverlaysFindTheirCode == FileSpec => []CodeIsOwn
BY FileInvAlways, CodeIsThere, PTL

(* A load is refused exactly when its block does not list the overlay, the list of
   its block is too long, or the overlay is not mapped: never for the block left
   current, never for another overlay that answers for its address. *)
THEOREM RefusalsAreRight == FileSpec => RefusedRightly
<1>1. ASSUME FileInv, Searches
      PROVE  stopped' <=> \/ Top.id \notin Listed
                          \/ BlockOf[Top.id] \in TooLong
                          \/ Top.kind = "module" /\ Top.id \notin Mapped
  <2>1. /\ exec # <<>> /\ Top.kind # "init" /\ D_800A0134 = BlockOf[Top.id]
        /\ Top.kind = "fixed" => ~ (func(Top) < KSEG0)
        /\ Top.kind = "module" =>
             func(Top) < KSEG0 /\ (load_addr(Top) = func(Top) <=> Top.id \notin Mapped)
    BY <1>1, SearchFacts, UnitsType DEF func
  <2>2. Top.kind \in {"size", "module", "fixed"}
    BY <1>1, <2>1, StackLast DEF FileInv, MainInv, Top, Frames
  <2>3. stopped' <=> \/ D_800A0134 \in TooLong
                     \/ Top.id \notin Listed \/ D_800A0134 # BlockOf[Top.id]
                     \/ /\ Top.kind # "size"
                        /\ func(Top) < KSEG0 /\ load_addr(Top) = func(Top)
    BY <1>1 DEF Searches
  <2>4. QED
    BY <2>1, <2>2, <2>3
<1>2. FileInv /\ [FileNext]_allVars =>
        [Searches => (stopped' <=> \/ Top.id \notin Listed
                                   \/ BlockOf[Top.id] \in TooLong
                                   \/ Top.kind = "module" /\ Top.id \notin Mapped)]_allVars
  BY <1>1
<1> QED BY <1>2, FileInvAlways, PTL DEF FileSpec, RefusedRightly
=============================================================================
